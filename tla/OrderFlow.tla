------------------------------ MODULE OrderFlow ------------------------------
(***************************************************************************)
(* The volume engines of the charts (server/charting): cumulative delta    *)
(* (cvdEngine.js), footprint (footprintEngine.js) and volume profile       *)
(* (volumeProfileEngine.js).  A day is split into its hours before, in and *)
(* after the regular session.  Prices are small integers.                  *)
(***************************************************************************)
EXTENDS Integers, Sequences, FiniteSets, SequencesExt, FiniteSetsExt, Functions

CONSTANTS
  LastDay,       \* days are counted from 1
  Weekend,       \* the days without trading
  Ticks,         \* volume, bid, ask and price of a tick; bid 0 where there is no quote
  Charts,        \* sequences of candles that a chart may show
  Cluster,       \* price levels are this high, unless a candle's range is too wide
  MaxLevels,     \* MAX_LEVELS_PER_BAR
  BinCounts,     \* numbers of bins of a volume profile
  MaxTicks       \* bound

ASSUME DayAssumption == LastDay \in Nat \ {0} /\ Weekend \subseteq 2 .. LastDay
ASSUME ClusterAssumption ==
  {Cluster, MaxLevels} \subseteq Nat \ {0} /\ BinCounts \subseteq Nat \ {0}

DayParts == <<"before", "session", "after">>

ASSUME ChartAssumption ==
  /\ \A tick \in Ticks : {tick.volume, tick.bid, tick.ask, tick.price} \subseteq Int
  /\ \A cs \in Charts :
       /\ cs \in Seq([day : Nat, part : Range(DayParts), o : Int, h : Int, l : Int, c : Int, volume : Nat])
       /\ \A i \in DOMAIN cs : cs[i].l <= cs[i].h

VARIABLES
  now,       \* day and part of the day
  live,      \* the live delta of the symbol, once a tick or a chart asked for it
  log,       \* the ticks taken and when
  chart,     \* the candles fetched last, kept for the footprint's pushes
  pushed     \* key of the footprint pushed last

flowVars == <<now, live, log, chart, pushed>>

----------------------------------------------------------------------------
(* Cumulative delta.  One unit of volume is 2 here, so that the half that  *)
(* counts inside the spread is whole.                                      *)

\* Mutant: over a week end the day to come is taken for the last.
TradingDayForward(day) == Min({d \in day .. LastDay + 1 : d \notin Weekend})

TradingDay(day) == Max({d \in 1 .. day : d \notin Weekend})

NoLive == [day |-> 0, delta |-> 0, ticks |-> 0, source |-> "ohlcv_synthetic"]
Fresh(day) == [NoLive EXCEPT !.day = day]

\* Mutant: the day alone resets, whether or not the session is open.
StaleOnAnyHour(state) == state.day # TradingDay(now.day)

StaleInSession(state) == now.part = "session" /\ state.day # TradingDay(now.day)

(* The state, made now if there is none, and reset when a session begins. *)
Current == IF live = NoLive THEN Fresh(TradingDay(now.day)) ELSE live
AfterReset == IF StaleInSession(Current) THEN Fresh(TradingDay(now.day)) ELSE Current

(* At the ask or above it a buy, at the bid or below it a sell, in between *)
(* half of the volume for the nearer side; without a quote, nothing.       *)
HasDelta(tick) == tick.volume # 0 /\ tick.bid # 0 /\ tick.bid < tick.ask

TickDelta(tick) ==
  CASE tick.price >= tick.ask -> 2 * tick.volume
    [] tick.price <= tick.bid -> -2 * tick.volume
    [] OTHER -> IF 2 * tick.price >= tick.bid + tick.ask THEN tick.volume ELSE -tick.volume

TickSource(tick) ==
  IF tick.price >= tick.ask \/ tick.price <= tick.bid THEN "tick_direction" ELSE "l1_midpoint"

IngestTick(tick) ==
  /\ Len(log) < MaxTicks
  /\ live' = IF HasDelta(tick)
             THEN [AfterReset EXCEPT !.delta = @ + TickDelta(tick), !.ticks = @ + 1, !.source = TickSource(tick)]
             ELSE AfterReset
  /\ log' = Append(log, [day |-> now.day, part |-> now.part,
                         delta |-> IF HasDelta(tick) THEN TickDelta(tick) ELSE 0])
  /\ UNCHANGED <<now, chart, pushed>>

(* The delta of a candle: its volume, by where in its range it closed. *)
CandleDelta(c) ==
  IF c.h = c.l THEN 0 ELSE (c.volume * (2 * (c.c - c.l) - (c.h - c.l))) \div (c.h - c.l)

(* The bars of a chart: the sum starts again where a candle of a new day   *)
(* falls into the session.                                                 *)
NextBar(state, c) ==
  LET reset == c.day # state.day /\ state.day # 0 /\ c.part = "session"
      total == (IF reset THEN 0 ELSE state.total) + CandleDelta(c)
  IN [day |-> c.day, total |-> total, bars |-> Append(state.bars, total)]

Bars(cs) == FoldLeft(NextBar, [day |-> 0, total |-> 0, bars |-> <<>>], cs).bars

(* The last bar shows the live sum when that is of the latest trading day. *)
Payload(cs) ==
  IF Current.ticks > 0 /\ cs # <<>> /\ Current.day = TradingDay(now.day)
  THEN [Bars(cs) EXCEPT ![Len(cs)] = Current.delta]
  ELSE Bars(cs)

----------------------------------------------------------------------------
(* Footprint.  The levels of a candle lie on a grid from below its low;    *)
(* each takes its share of the volume, split by the part of the candle it  *)
(* is in.  Volumes are shown rounded, each one by itself.  A level is never*)
(* lower than the MaxLevels-th part of the range (clampClusterSize), and   *)
(* so prices are counted in that part of a unit here.                      *)

(* Math.round of x / d: halves go up. *)
Rounds(x, d) == (2 * x + d) \div (2 * d)

At(price) == price * MaxLevels
LevelSize(c) == Max({At(Cluster), c.h - c.l})
Width(c) == At(c.h) - At(c.l)

Overlap(c, low, high) == Min({At(c.h), high}) - Max({At(c.l), low})

\* Mutant: the level that the high lies in is left out.
GridEndBelow(c) == At(c.h) - LevelSize(c)

(* The grid goes on to half a level above the high. *)
GridEnd(c) == At(c.h) + LevelSize(c) \div 2

(* In hundredths. *)
AskShare(c, low) ==
  LET middle == 2 * low + LevelSize(c)
  IN CASE middle > 2 * At(Max({c.o, c.c})) -> 30
       [] middle < 2 * At(Min({c.o, c.c})) -> 70
       [] OTHER -> IF c.c >= c.o THEN 60 ELSE 40

GridRows(c) ==
  LET size == LevelSize(c)
      bottom == (At(c.l) \div size) * size
  IN {r \in bottom .. GridEnd(c) : c.l < c.h /\ (r - bottom) % size = 0 /\ Overlap(c, r, r + size) > 0}

Levels(c) ==
  [r \in GridRows(c) |->
     LET part  == c.volume * Overlap(c, r, r + LevelSize(c))
         share == AskShare(c, r)
     IN [total |-> Rounds(part, Width(c)),
         ask   |-> Rounds(part * share, 100 * Width(c)),
         bid   |-> Rounds(part * (100 - share), 100 * Width(c))]]

(* A push is dropped when time, greatest level and delta are unchanged. *)
PushKey(c) ==
  LET levels == Levels(c)
      rows   == DOMAIN levels
  IN <<c.day, c.part, IF rows = {} THEN 0 ELSE Max({levels[r].total : r \in rows}),
       SumFunction([r \in rows |-> levels[r].ask - levels[r].bid])>>

Push ==
  /\ chart # <<>> /\ pushed # PushKey(Last(chart))
  /\ pushed' = PushKey(Last(chart))
  /\ UNCHANGED <<now, live, log, chart>>

----------------------------------------------------------------------------
(* Volume profile: the range of all candles in equal bins.  Prices are     *)
(* scaled by the number of bins, so that the edges of bins are whole, and  *)
(* volumes by the product of the candles' ranges too: one unit of volume is*)
(* OneUnit.  The bins are kept as they are (volumeByBin), and shown rounded.*)

Lowest(cs) == Min({c.l : c \in Range(cs)})
Highest(cs) == Max({c.h : c \in Range(cs)})
Height(c) == IF c.h = c.l THEN 1 ELSE c.h - c.l
Scale(cs) ==
  LET product[k \in 0 .. Len(cs)] == IF k = 0 THEN 1 ELSE product[k - 1] * Height(cs[k])
  IN product[Len(cs)]

\* A candle without a range puts its volume where it closed.
DojiBin(cs, c, n) == Min({n, Max({1, ((c.c - Lowest(cs)) * n) \div (Highest(cs) - Lowest(cs)) + 1})})

InBin(cs, c, i, n) ==
  LET size == Highest(cs) - Lowest(cs)
      low  == Max({(c.l - Lowest(cs)) * n, (i - 1) * size})
      high == Min({(c.h - Lowest(cs)) * n, i * size})
  IN IF c.h = c.l THEN IF DojiBin(cs, c, n) = i THEN c.volume * n ELSE 0
     ELSE c.volume * Max({0, high - low})

BinVolume(cs, i, n) ==
  SumFunction([k \in DOMAIN cs |-> InBin(cs, cs[k], i, n) * (Scale(cs) \div Height(cs[k]))])

Profile(cs, n) == [i \in 1 .. n |-> BinVolume(cs, i, n)]
OneUnit(cs, n) == n * Scale(cs)

(* A profile p, of which d is one unit, as it is shown. *)
Shown(p, d) == [i \in DOMAIN p |-> Rounds(p[i], d)]

VolumeIn(p, lo, hi) == SumFunctionOnSet(p, lo .. hi)

Poc(p) == Min({i \in DOMAIN p : \A k \in DOMAIN p : p[k] <= p[i]})

(* The side with more volume next to the area, above when they are equal. *)
GrowsUp(p, lo, hi) == lo = 1 \/ (hi < Len(p) /\ p[hi + 1] >= p[lo - 1])

(* It is enough at 70 percent of what is shown; the greatest bin counts as *)
(* it is shown, more than it holds by rounding, the others as they are.    *)
Enough(p, rounding, total, lo, hi) == 10 * (rounding + VolumeIn(p, lo, hi)) >= 7 * total

(* From the greatest bin outwards until it is enough. *)
Grown(p, rounding, total, lo, hi) ==
  IF Enough(p, rounding, total, lo, hi) \/ (lo = 1 /\ hi = Len(p)) THEN <<lo, hi>>
  ELSE IF GrowsUp(p, lo, hi) THEN <<lo, hi + 1>> ELSE <<lo - 1, hi>>

ValueArea(p, d) ==
  LET poc      == Poc(p)
      rounding == d * Rounds(p[poc], d) - p[poc]
      total    == d * VolumeIn(Shown(p, d), 1, Len(p))
      area[k \in 0 .. Len(p)] ==
        IF k = 0 THEN <<poc, poc>> ELSE Grown(p, rounding, total, area[k - 1][1], area[k - 1][2])
  IN area[Len(p)]

----------------------------------------------------------------------------

FlowInit ==
  /\ now \in {[day |-> 1, part |-> p] : p \in Range(DayParts)}
  /\ live = NoLive /\ log = <<>> /\ chart = <<>> /\ pushed = <<>>

(* A request for a chart makes the live state if there is none. *)
FetchChart(cs) ==
  /\ chart' = cs /\ live' = Current
  /\ UNCHANGED <<now, log, pushed>>

TimePasses ==
  /\ \/ /\ now.part # "after"
        /\ now' = [now EXCEPT !.part = IF @ = "before" THEN "session" ELSE "after"]
     \/ /\ now.part = "after" /\ now.day < LastDay
        /\ now' = [day |-> now.day + 1, part |-> "before"]
  /\ UNCHANGED <<live, log, chart, pushed>>

FlowRestart ==
  /\ live' = NoLive /\ log' = <<>> /\ chart' = <<>> /\ pushed' = <<>>
  /\ UNCHANGED now

FlowNext ==
  \/ \E tick \in Ticks : IngestTick(tick)
  \/ \E cs \in Charts : FetchChart(cs)
  \/ Push \/ TimePasses \/ FlowRestart

FlowSpec == FlowInit /\ [][FlowNext]_flowVars

----------------------------------------------------------------------------
(* Properties *)

(* The live state counts ticks of this process, and its day is no later    *)
(* than today.                                                             *)
FlowTypeOK ==
  /\ now \in [day : 1 .. LastDay, part : Range(DayParts)]
  /\ live.day \in 0 .. now.day /\ live.delta \in Int /\ live.ticks \in 0 .. Len(log)
  /\ live.source \in {"tick_direction", "l1_midpoint", "ohlcv_synthetic"}
  /\ chart \in Charts \cup {<<>>}

SumOf(ticks) == SumFunction([i \in DOMAIN ticks |-> ticks[i].delta])

(* Once a tick has come in the session of the live state's day, and an     *)
(* earlier day had ticks, the live sum is that of the ticks since the      *)
(* first one in that session (CVDEngine._maybeResetLive): nothing of an    *)
(* earlier session or of the hours before this one is left in it.          *)
LiveIsItsSession ==
  LET opened == {i \in DOMAIN log : log[i].part = "session" /\ TradingDay(log[i].day) = live.day}
  IN opened # {} /\ (\E i \in DOMAIN log : TradingDay(log[i].day) < live.day)
     => live.delta = SumOf(SubSeq(log, Min(opened), Len(log)))

Apart(x, y) == IF x < y THEN y - x ELSE x - y

(* Footprint and volume profile (footprintEngine computeBar,               *)
(* volumeProfileEngine buildVolumeProfile) lose no volume and make none up,*)
(* but for the rounding: what levels, or bins, show adds up to the candles'*)
(* volume up to half a unit for each of them, and the bins as they are     *)
(* kept to all of it.  A level's two sides differ from it by one at most,  *)
(* and a candle has one level more than MAX_LEVELS_PER_BAR at most.        *)
VolumeConserved ==
  /\ \A c \in Range(chart) :
       c.h > c.l =>
         LET levels == Levels(c)
             rows   == DOMAIN levels
         IN /\ Cardinality(rows) <= MaxLevels + 1
            /\ 2 * Apart(SumFunction([r \in rows |-> levels[r].total]), c.volume) <= Cardinality(rows)
            /\ \A r \in rows : Apart(levels[r].ask + levels[r].bid, levels[r].total) <= 1
  /\ \A n \in BinCounts :
       chart # <<>> /\ Highest(chart) > Lowest(chart) =>
         LET volume == SumFunction([k \in DOMAIN chart |-> chart[k].volume])
             p      == Profile(chart, n)
         IN /\ VolumeIn(p, 1, n) = OneUnit(chart, n) * volume
            /\ 2 * Apart(VolumeIn(Shown(p, OneUnit(chart, n)), 1, n), volume) <= n

(* The value area (buildVolumeProfile) has the greatest bin inside and     *)
(* 70 percent of the volume, and has less without the edge bin it took     *)
(* last, which holds no less than the bin left out on the other side.  Both*)
(* hold but for the rounding: half a unit for the greatest bin, and        *)
(* 70 percent of half a unit for each bin.                                 *)
ValueAreaCovers ==
  \A n \in BinCounts :
    chart # <<>> /\ Highest(chart) > Lowest(chart) =>
      LET d  == OneUnit(chart, n)
          p  == Profile(chart, n)
          area == ValueArea(p, d)
          lo == area[1]
          hi == area[2]
          slack == (7 * n + 10) * d
          target == 14 * VolumeIn(p, 1, n)
      IN /\ Poc(p) \in lo .. hi /\ 20 * VolumeIn(p, lo, hi) + slack >= target
         /\ lo < hi => \/ /\ lo < Poc(p) /\ 20 * VolumeIn(p, lo + 1, hi) < target + slack
                          /\ hi < n => p[lo] >= p[hi + 1]
                       \/ /\ hi > Poc(p) /\ 20 * VolumeIn(p, lo, hi - 1) < target + slack
                          /\ lo > 1 => p[hi] >= p[lo - 1]

(* Delta, levels and bins: the charts show the volume there was, of the    *)
(* session it belongs to, but for the rounding (cvdEngine.js,              *)
(* footprintEngine.js, volumeProfileEngine.js).                            *)
FlowConserved == LiveIsItsSession /\ VolumeConserved /\ ValueAreaCovers
=============================================================================
