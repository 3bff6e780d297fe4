---------------------------- MODULE ChartProofs ----------------------------
(***************************************************************************)
(* What the charts show, for any calendar, ticks, candles, levels and      *)
(* bins: the live delta is that of its session, footprint and profile lose *)
(* no volume but by rounding, and the value area covers what it should     *)
(* (OrderFlow).  What the analytics say of assets, for any closes, windows *)
(* and histories: by position as by days (MultiAsset).  And the analysis   *)
(* as a whole, one component after the other in motion (MCAnalysis).       *)
(***************************************************************************)
EXTENDS MCAnalysis, AnalysisProofs, FunctionTheorems

----------------------------------------------------------------------------
(* Trading days *)

(* A set of numbers below a bound has a greatest one. *)
LEMMA GreatestOf ==
  ASSUME NEW n \in Int, NEW T \in SUBSET Int, T # {}, \A k \in T : k <= n
  PROVE  \E m \in T : \A k \in T : k <= m
<1>. DEFINE R == {n - k : k \in T}
<1>1. R \in SUBSET Nat /\ R # {}
  <2>1. \A k \in T : n - k \in Nat
    OBVIOUS
  <2>. QED
    BY <2>1
<1>2. PICK r \in R : \A k \in R : r <= k
  BY <1>1, LeastOf
<1>3. PICK m \in T : r = n - m
  BY <1>2
<1>4. \A k \in T : k <= m
  <2>. TAKE k \in T
  <2>1. n - k \in R
    OBVIOUS
  <2>2. n - m <= n - k /\ m \in Int /\ k \in Int
    BY <1>2, <1>3, <2>1
  <2>. QED
    BY <2>2
<1>. QED
  BY <1>4

LEMMA TradingDayIs ==
  ASSUME NEW day \in 1 .. LastDay
  PROVE  /\ TradingDay(day) \in 1 .. day /\ TradingDay(day) \notin Weekend
         /\ \A d \in 1 .. day : d \notin Weekend => d <= TradingDay(day)
<1>. DEFINE T == {d \in 1 .. day : d \notin Weekend}
<1>1. 1 \in T /\ T \in SUBSET Int /\ \A k \in T : k <= day
  BY DayAssumption
<1>2. PICK m \in T : \A k \in T : k <= m
  <2>1. day \in Int /\ T # {}
    BY <1>1
  <2>. HIDE DEF T
  <2>. QED
    BY <1>1, <2>1, GreatestOf
<1>3. Max(T) = m
  BY <1>1, <1>2, MaxIs
<1>4. TradingDay(day) = m
  BY <1>3 DEF TradingDay
<1>. QED
  BY <1>2, <1>4

LEMMA TradingDaysGrow ==
  ASSUME NEW a \in 1 .. LastDay, NEW b \in 1 .. LastDay, a <= b
  PROVE  TradingDay(a) <= TradingDay(b)
<1>1. TradingDay(a) \in 1 .. a /\ TradingDay(a) \notin Weekend
  BY TradingDayIs
<1>2. TradingDay(a) \in 1 .. b
  BY <1>1
<1>. QED
  BY <1>1, <1>2, TradingDayIs

----------------------------------------------------------------------------
(* The live delta *)

Tick == [day : 1 .. LastDay, part : Range(DayParts), delta : Int]
LiveState == [day : 1 .. LastDay, delta : Int, ticks : Nat, source : {"tick_direction", "l1_midpoint", "ohlcv_synthetic"}]

LogTyped ==
  /\ now \in [day : 1 .. LastDay, part : Range(DayParts)]
  /\ log \in Seq(Tick) /\ \A i \in DOMAIN log : log[i].day <= now.day
  /\ chart \in Charts \cup {<<>>}

Opened == {i \in DOMAIN log : log[i].part = "session" /\ TradingDay(log[i].day) = live.day}

(* A session's tick took the live state to its day, so that the first one  *)
(* of the day it is at began the sum, unless no earlier day had a tick.    *)
LiveKnown ==
  \/ live = NoLive /\ log = <<>>
  \/ /\ live \in LiveState /\ live.day <= TradingDay(now.day) /\ live.ticks <= Len(log)
     /\ \A i \in DOMAIN log : log[i].part = "session" => TradingDay(log[i].day) <= live.day
     /\ (\E i \in DOMAIN log : TradingDay(log[i].day) < live.day)
          => Opened # {} /\ live.delta = SumOf(SubSeq(log, Min(Opened), Len(log)))

FlowInv == LogTyped /\ LiveKnown

(* The deltas of a list that grows by one. *)
LEMMA SumOfAppended ==
  ASSUME NEW ts \in Seq(Tick), NEW t \in Tick
  PROVE  SumOf(ts) \in Int /\ SumOf(Append(ts, t)) = SumOf(ts) + t.delta
<1>1. PICK n \in Nat : n = Len(ts)
  OBVIOUS
<1>2. PICK all : all = Append(ts, t)
  OBVIOUS
<1>3. /\ DOMAIN ts = 1 .. n /\ DOMAIN all = 1 .. n + 1 /\ all[n + 1] = t
      /\ \A i \in 1 .. n : all[i] = ts[i] /\ ts[i] \in Tick
  BY <1>1, <1>2
<1>4. PICK f : f = [i \in 1 .. n |-> ts[i].delta]
  OBVIOUS
<1>5. PICK g : g = [i \in 1 .. n + 1 |-> all[i].delta]
  OBVIOUS
<1>6. \A i \in 1 .. n : f[i] \in Int /\ g[i] = f[i]
  <2>. TAKE i \in 1 .. n
  <2>1. ts[i].delta \in Int
    BY <1>3 DEF Tick
  <2>. QED
    BY <1>3, <1>4, <1>5, <2>1
<1>7. g[n + 1] = t.delta /\ t.delta \in Int
  BY <1>3, <1>5 DEF Tick
<1>8. SumFunctionOnSet(g, 1 .. n + 1) = SumFunctionOnSet(f, 1 .. n) + g[n + 1]
  BY <1>6, <1>7, SumAppended
<1>9. SumOf(ts) = SumFunctionOnSet(f, 1 .. n) /\ SumOf(all) = SumFunctionOnSet(g, 1 .. n + 1)
  BY <1>3, <1>4, <1>5 DEF SumOf, SumFunction
<1>10. SumFunctionOnSet(f, 1 .. n) \in Int
  <2>1. IsFiniteSet(1 .. n)
    BY FS_Interval
  <2>. QED
    BY <1>6, <2>1, SumStep
<1>. QED
  BY <1>2, <1>7, <1>8, <1>9, <1>10

LEMMA PushedEnd ==
  ASSUME NEW ts \in Seq(Tick), NEW t \in Tick, NEW n \in Nat, n = Len(ts), NEW longer, longer = Append(ts, t)
  PROVE  /\ longer \in Seq(Tick) /\ Len(longer) = n + 1 /\ longer[n + 1] = t
         /\ \A i \in 1 .. n : longer[i] = ts[i]
<1>1. Append(ts, t) \in Seq(Tick)
  OBVIOUS
<1>2. Len(Append(ts, t)) = Len(ts) + 1
  OBVIOUS
<1>3. Append(ts, t)[Len(ts) + 1] = t
  OBVIOUS
<1>4. \A i \in 1 .. Len(ts) : Append(ts, t)[i] = ts[i]
  OBVIOUS
<1>. QED
  BY <1>1, <1>2, <1>3, <1>4

(* From a place of a list that grows by one; and of one alone. *)
LEMMA SumOfTail ==
  ASSUME NEW ts \in Seq(Tick), NEW t \in Tick, NEW m \in 1 .. Len(ts)
  PROVE  /\ SumOf(SubSeq(ts, m, Len(ts))) \in Int
         /\ SumOf(SubSeq(Append(ts, t), m, Len(ts) + 1)) = SumOf(SubSeq(ts, m, Len(ts))) + t.delta
<1>1. PICK part : part = SubSeq(ts, m, Len(ts))
  OBVIOUS
<1>2. part \in Seq(Tick) /\ Len(part) = Len(ts) - m + 1 /\ \A i \in 1 .. Len(part) : part[i] = ts[m + i - 1]
  <2>1. \A i \in m .. Len(ts) : ts[i] \in Tick
    OBVIOUS
  <2>2. m \in Int /\ Len(ts) \in Int /\ m <= Len(ts)
    OBVIOUS
  <2>3. /\ part \in Seq(Tick) /\ Len(part) = Len(ts) - m + 1
        /\ \A i \in 1 .. Len(ts) - m + 1 : part[i] = ts[m + i - 1]
    BY <1>1, <2>1, <2>2, SubSeqProperties
  <2>. QED
    BY <2>3
<1>3. SubSeq(Append(ts, t), m, Len(ts) + 1) = Append(part, t)
  <2>1. PICK n \in Nat : n = Len(ts) /\ m \in 1 .. n
    OBVIOUS
  <2>10. PICK longer : longer = Append(ts, t)
    OBVIOUS
  <2>2. longer \in Seq(Tick) /\ Len(longer) = n + 1 /\ longer[n + 1] = t /\ \A i \in 1 .. n : longer[i] = ts[i]
    BY <2>1, <2>10, PushedEnd
  <2>3. m \in Int /\ n + 1 \in Int /\ m <= n + 1 /\ \A i \in m .. n + 1 : longer[i] \in Tick
    BY <2>1, <2>2
  <2>4. PICK all : all = SubSeq(longer, m, n + 1)
    OBVIOUS
  <2>5. /\ all \in Seq(Tick) /\ Len(all) = n + 1 - m + 1
        /\ \A i \in 1 .. n + 1 - m + 1 : all[i] = longer[m + i - 1]
    BY <2>3, <2>4, SubSeqProperties
  <2>11. PICK q : q = Append(part, t)
    OBVIOUS
  <2>6. /\ q \in Seq(Tick) /\ Len(q) = n - m + 2 /\ q[n - m + 2] = t
        /\ \A i \in 1 .. n - m + 1 : q[i] = part[i]
    <3>1. PICK k \in Nat : k = n - m + 1
      <4>1. n - m + 1 \in Nat
        BY <2>1
      <4>. QED
        BY <4>1
    <3>2. part \in Seq(Tick) /\ Len(part) = Len(ts) - m + 1
      BY <1>2
    <3>3. k = Len(part)
      BY <2>1, <3>1, <3>2
    <3>4. part \in Seq(Tick)
      BY <3>2
    <3>5. /\ q \in Seq(Tick) /\ Len(q) = k + 1 /\ q[k + 1] = t
          /\ \A i \in 1 .. k : q[i] = part[i]
      BY <2>11, <3>3, <3>4, PushedEnd
    <3>6. k + 1 = n - m + 2
      BY <2>1, <3>1
    <3>. QED
      BY <3>1, <3>5, <3>6
  <2>7. \A i \in 1 .. Len(all) : all[i] = q[i]
    <3>. TAKE i \in 1 .. Len(all)
    <3>1. i \in 1 .. n - m + 2 /\ all[i] = longer[m + i - 1]
      BY <2>1, <2>5
    <3>2. CASE i \in 1 .. n - m + 1
      <4>1. m + i - 1 \in 1 .. n
        BY <2>1, <3>2
      <4>2. Len(part) = n - m + 1
        BY <1>2, <2>1
      <4>3. part[i] = ts[m + i - 1]
        BY <1>2, <3>2, <4>2, Zenon
      <4>. QED
        BY <2>2, <2>6, <3>1, <3>2, <4>1, <4>3
    <3>3. CASE i = n - m + 2
      <4>1. m + i - 1 = n + 1
        BY <2>1, <3>3
      <4>. QED
        BY <2>2, <2>6, <3>1, <3>3, <4>1
    <3>4. n - m + 2 = (n - m + 1) + 1 /\ n - m + 1 \in Nat
      BY <2>1
    <3>5. i \in 1 .. n - m + 1 \/ i = n - m + 2
      BY <3>1, <3>4
    <3>. QED
      BY <3>2, <3>3, <3>5
  <2>8. Len(all) = Len(q)
    BY <2>1, <2>5, <2>6
  <2>9. all = q
    BY <2>5, <2>6, <2>7, <2>8, SeqEqual
  <2>. QED
    BY <2>1, <2>4, <2>9, <2>10, <2>11
<1>. QED
  BY <1>1, <1>2, <1>3, SumOfAppended

LEMMA SumOfLast ==
  ASSUME NEW ts \in Seq(Tick), NEW t \in Tick
  PROVE  SumOf(SubSeq(Append(ts, t), Len(ts) + 1, Len(ts) + 1)) = t.delta
<1>1. PICK one : one = SubSeq(Append(ts, t), Len(ts) + 1, Len(ts) + 1)
  OBVIOUS
<1>2. one \in Seq(Tick) /\ Len(one) = 1 /\ one[1] = t
  <2>1. PICK longer \in Seq(Tick) : longer = Append(ts, t) /\ Len(longer) = Len(ts) + 1 /\ longer[Len(ts) + 1] = t
    BY AppendProperties
  <2>2. PICK n \in Int : n = Len(ts) + 1
    OBVIOUS
  <2>3. \A i \in n .. n : longer[i] \in Tick
    BY <2>1, <2>2
  <2>4. /\ SubSeq(longer, n, n) \in Seq(Tick) /\ Len(SubSeq(longer, n, n)) = n - n + 1
        /\ \A i \in 1 .. n - n + 1 : SubSeq(longer, n, n)[i] = longer[n + i - 1]
    BY <2>2, <2>3, SubSeqProperties
  <2>. QED
    BY <1>1, <2>1, <2>2, <2>4
<1>3. one = Append(<<>>, t) /\ <<>> \in Seq(Tick)
  BY <1>2
<1>4. SumOf(one) = SumOf(<<>>) + t.delta /\ SumOf(<<>>) \in Int
  BY <1>3, SumOfAppended
<1>5. SumOf(<<>>) = 0
  <2>1. PICK f : f = [i \in DOMAIN <<>> |-> <<>>[i].delta]
    OBVIOUS
  <2>2. DOMAIN <<>> = {} /\ DOMAIN f = {}
    BY <2>1
  <2>3. SumFunctionOnSet(f, {}) = 0
    BY FS_EmptySet, SumStep
  <2>. QED
    BY <2>1, <2>2, <2>3 DEF SumOf, SumFunction
<1>. QED
  BY <1>1, <1>4, <1>5 DEF Tick

LEMMA FlowStarts == FlowInit => FlowInv
<1>. SUFFICES ASSUME FlowInit PROVE FlowInv
  OBVIOUS
<1>1. now.day = 1 /\ now \in [day : 1 .. LastDay, part : Range(DayParts)]
  BY DayAssumption DEF FlowInit
<1>. QED
  BY <1>1 DEF FlowInit, FlowInv, LogTyped, LiveKnown

LEMMA DeltaIs ==
  ASSUME NEW tick \in Ticks
  PROVE  TickDelta(tick) \in Int /\ TickSource(tick) \in {"tick_direction", "l1_midpoint"}
<1>1. tick.volume \in Int /\ tick.bid \in Int /\ tick.ask \in Int /\ tick.price \in Int
  BY ChartAssumption
<1>2. 2 * tick.volume \in Int /\ -2 * tick.volume \in Int /\ -tick.volume \in Int
  BY <1>1
<1>. QED
  BY <1>1, <1>2 DEF TickDelta, TickSource

LEMMA CurrentIs ==
  ASSUME FlowInv
  PROVE  /\ Current \in LiveState /\ Current.day <= TradingDay(now.day)
         /\ now.day \in 1 .. LastDay /\ TradingDay(now.day) \in 1 .. LastDay
         /\ live # NoLive => Current = live
         /\ live = NoLive => log = <<>> /\ Current.day = TradingDay(now.day) /\ Current.delta = 0 /\ Current.ticks = 0
<1>1. now.day \in 1 .. LastDay
  BY DEF FlowInv, LogTyped
<1>2. TradingDay(now.day) \in 1 .. now.day /\ LastDay \in Nat
  BY <1>1, TradingDayIs, DayAssumption
<1>3. CASE live = NoLive
  <2>1. Current = [day |-> TradingDay(now.day), delta |-> 0, ticks |-> 0, source |-> "ohlcv_synthetic"]
    BY <1>3 DEF Current, Fresh, NoLive
  <2>2. log = <<>>
    <3>1. NoLive \notin LiveState
      BY DEF LiveState, NoLive
    <3>. QED
      BY <1>3, <3>1 DEF FlowInv, LiveKnown
  <2>. QED
    BY <1>1, <1>2, <1>3, <2>1, <2>2 DEF LiveState
<1>4. CASE live # NoLive
  BY <1>1, <1>2, <1>4 DEF FlowInv, LiveKnown, Current
<1>. QED
  BY <1>3, <1>4

(* A tick and its place in the log. *)
LEMMA IngestKeeps ==
  ASSUME FlowInv, NEW tick \in Ticks, IngestTick(tick)
  PROVE  FlowInv'
<1>1. PICK n \in Nat : n = Len(log)
  BY DEF FlowInv, LogTyped
<1>2. PICK delta \in Int : delta = IF HasDelta(tick) THEN TickDelta(tick) ELSE 0
  BY DeltaIs
<1>3. PICK row : row = [day |-> now.day, part |-> now.part, delta |-> delta]
  OBVIOUS
<1>4. /\ log' = Append(log, row) /\ UNCHANGED <<now, chart, pushed>>
      /\ live' = IF HasDelta(tick)
                 THEN [AfterReset EXCEPT !.delta = @ + TickDelta(tick), !.ticks = @ + 1, !.source = TickSource(tick)]
                 ELSE AfterReset
  BY <1>2, <1>3 DEF IngestTick
<1>5. log \in Seq(Tick) /\ row \in Tick /\ row.day = now.day /\ row.part = now.part /\ row.delta = delta
  BY <1>3 DEF FlowInv, LogTyped, Tick
<1>6. /\ log' \in Seq(Tick) /\ Len(log') = n + 1 /\ DOMAIN log' = 1 .. n + 1 /\ DOMAIN log = 1 .. n
      /\ log'[n + 1] = row /\ \A i \in 1 .. n : log'[i] = log[i]
  BY <1>1, <1>4, <1>5, AppendProperties
<1>7. LogTyped'
  <2>1. ASSUME NEW i \in DOMAIN log' PROVE log'[i].day <= now.day
    <3>1. now.day \in Int
      BY DayAssumption DEF FlowInv, LogTyped
    <3>. QED
      BY <1>5, <1>6, <2>1, <3>1 DEF FlowInv, LogTyped
  <2>. QED
    BY <1>4, <1>6, <2>1 DEF FlowInv, LogTyped
<1>8. PICK latest : latest = TradingDay(now.day)
  OBVIOUS
<1>9. /\ Current \in LiveState /\ Current.day <= latest /\ latest \in 1 .. LastDay /\ LastDay \in Nat
      /\ live # NoLive => Current = live
      /\ live = NoLive => log = <<>> /\ Current.day = latest /\ Current.delta = 0 /\ Current.ticks = 0
  BY <1>8, CurrentIs, DayAssumption
<1>10. PICK base : base = AfterReset
  OBVIOUS
<1>11. /\ base = IF now.part = "session" /\ Current.day # latest THEN Fresh(latest) ELSE Current
       /\ base \in LiveState /\ base.day <= latest /\ base.ticks <= Current.ticks
  <2>1. Fresh(latest) \in LiveState /\ Fresh(latest).day = latest /\ Fresh(latest).ticks = 0
    BY <1>9 DEF Fresh, NoLive, LiveState
  <2>2. Current.ticks \in Nat /\ Current.day \in Int
    BY <1>9 DEF LiveState
  <2>3. base = IF now.part = "session" /\ Current.day # latest THEN Fresh(latest) ELSE Current
    BY <1>8, <1>10 DEF AfterReset, StaleInSession
  <2>. QED
    BY <1>9, <2>1, <2>2, <2>3
<1>12. /\ live' \in LiveState /\ live'.day = base.day /\ live'.delta = base.delta + delta
       /\ live'.ticks <= n + 1
  <2>1. Current.ticks <= n /\ n \in Nat
    BY <1>1, <1>9 DEF FlowInv, LiveKnown
  <2>2. base.delta \in Int /\ base.ticks \in Nat /\ base.ticks <= n
    BY <1>9, <1>11, <2>1 DEF LiveState
  <2>3. base = [day |-> base.day, delta |-> base.delta, ticks |-> base.ticks, source |-> base.source]
        /\ base.day \in 1 .. LastDay /\ base.source \in {"tick_direction", "l1_midpoint", "ohlcv_synthetic"}
    BY <1>11 DEF LiveState
  <2>4. CASE HasDelta(tick)
    <3>1. live' = [day |-> base.day, delta |-> base.delta + delta, ticks |-> base.ticks + 1, source |-> TickSource(tick)]
      BY <1>2, <1>4, <1>10, <2>3, <2>4
    <3>2. TickSource(tick) \in {"tick_direction", "l1_midpoint"}
      BY DeltaIs
    <3>. QED
      BY <2>2, <2>3, <3>1, <3>2 DEF LiveState
  <2>5. CASE ~HasDelta(tick)
    <3>1. live' = base /\ delta = 0
      BY <1>2, <1>4, <1>10, <2>5
    <3>. QED
      BY <1>11, <2>2, <3>1
  <2>. QED
    BY <2>4, <2>5
<1>13. ASSUME NEW i \in 1 .. n, log[i].part = "session" PROVE TradingDay(log[i].day) <= Current.day /\ live # NoLive
  <2>1. log # <<>>
    BY <1>1, <1>13
  <2>. QED
    BY <1>6, <1>9, <1>13, <2>1 DEF FlowInv, LiveKnown
<1>14. ASSUME NEW i \in DOMAIN log', log'[i].part = "session" PROVE TradingDay(log'[i].day) <= live'.day
  <2>1. CASE i = n + 1
    <3>1. now.part = "session" /\ TradingDay(log'[i].day) = latest
      BY <1>5, <1>6, <1>8, <1>14, <2>1
    <3>2. base.day = latest
      <4>1. Fresh(latest).day = latest
        BY DEF Fresh, NoLive
      <4>. QED
        BY <1>11, <3>1, <4>1
    <3>. QED
      BY <1>9, <1>12, <3>1, <3>2
  <2>2. CASE i \in 1 .. n
    <3>1. TradingDay(log[i].day) <= Current.day
      BY <1>6, <1>13, <1>14, <2>2
    <3>2. TradingDay(log[i].day) \in Int
      <4>1. log[i].day \in 1 .. LastDay
        <5>1. log[i] \in Tick
          BY <1>5, <1>6, <2>2
        <5>. QED
          BY <5>1 DEF Tick
      <4>. QED
        BY <4>1, TradingDayIs
    <3>3. Current.day <= base.day /\ Current.day \in Int /\ base.day \in Int
      <4>1. Fresh(latest).day = latest
        BY DEF Fresh, NoLive
      <4>2. Current.day \in Int /\ base.day \in Int
        BY <1>9, <1>11 DEF LiveState
      <4>. QED
        BY <1>9, <1>11, <4>1, <4>2
    <3>. QED
      BY <1>6, <1>12, <2>2, <3>1, <3>2, <3>3
  <2>. QED
    BY <1>6, <1>14, <2>1, <2>2

<1>15. ASSUME ~(now.part = "session" /\ Current.day # latest), NEW k \in DOMAIN log', TradingDay(log'[k].day) < live'.day
       PROVE  Opened' # {} /\ live'.delta = SumOf(SubSeq(log', Min(Opened'), Len(log')))
  <2>1. base = Current /\ live'.day = Current.day /\ live'.delta = Current.delta + delta
    BY <1>11, <1>12, <1>15
  <2>2. k # n + 1
    <3>1. CASE k = n + 1
      <4>1. latest < Current.day /\ Current.day \in Int /\ latest \in Int
        BY <1>5, <1>6, <1>8, <1>9, <1>15, <2>1, <3>1 DEF LiveState
      <4>. QED
        BY <1>9, <4>1
    <3>. QED
      BY <3>1
  <2>3. k \in 1 .. n /\ TradingDay(log[k].day) < Current.day /\ live # NoLive
    <3>1. k \in 1 .. n
      BY <1>6, <2>2
    <3>2. log # <<>>
      BY <1>1, <3>1
    <3>. QED
      BY <1>6, <1>9, <1>15, <2>1, <3>1, <3>2
  <2>4. Opened # {} /\ live.delta = SumOf(SubSeq(log, Min(Opened), n)) /\ Current = live
    BY <1>1, <1>6, <1>9, <2>3 DEF FlowInv, LiveKnown
  <2>5. Opened \in SUBSET (1 .. n)
    BY <1>6 DEF Opened
  <2>6. PICK first \in Opened : \A i \in Opened : first <= i
    <3>1. Opened \in SUBSET Nat
      BY <2>5
    <3>. QED
      BY <2>4, <3>1, LeastOf
  <2>7. Opened' \subseteq Opened \cup {n + 1} /\ Opened \subseteq Opened'
    <3>1. ASSUME NEW i \in Opened' PROVE i \in Opened \cup {n + 1}
      BY <1>6, <2>1, <2>4, <3>1 DEF Opened
    <3>2. ASSUME NEW i \in Opened PROVE i \in Opened'
      BY <1>6, <2>1, <2>4, <3>2 DEF Opened
    <3>. QED
      BY <3>1, <3>2
  <2>8. Min(Opened) = first /\ Min(Opened') = first
    <3>1. first \in 1 .. n /\ Opened \in SUBSET Int /\ Opened' \in SUBSET Int /\ first \in Opened'
      BY <2>5, <2>6, <2>7
    <3>2. \A i \in Opened' : first <= i
      BY <2>6, <2>7, <3>1
    <3>. QED
      BY <2>6, <3>1, <3>2, MinIs
  <2>9. first \in 1 .. Len(log)
    BY <1>1, <2>5, <2>6
  <2>10. SumOf(SubSeq(log, first, Len(log))) \in Int
         /\ SumOf(SubSeq(Append(log, row), first, Len(log) + 1)) = SumOf(SubSeq(log, first, Len(log))) + row.delta
    BY <1>5, <2>9, SumOfTail
  <2>11. live'.delta = SumOf(SubSeq(log', first, Len(log')))
    BY <1>1, <1>4, <1>5, <1>6, <2>1, <2>4, <2>8, <2>10
  <2>. QED
    BY <2>6, <2>7, <2>8, <2>11
<1>16. ASSUME now.part = "session", Current.day # latest
       PROVE  Opened' # {} /\ live'.delta = SumOf(SubSeq(log', Min(Opened'), Len(log')))
  <2>1. base.day = latest /\ base.delta = 0
    BY <1>11, <1>16 DEF Fresh, NoLive
  <2>2. live'.day = latest /\ live'.delta = delta
    BY <1>12, <2>1
  <2>3. Opened' = {n + 1}
    <3>1. n + 1 \in Opened'
      BY <1>5, <1>6, <1>8, <1>16, <2>2 DEF Opened
    <3>2. ASSUME NEW i \in Opened', i # n + 1 PROVE FALSE
      <4>1. i \in 1 .. n /\ log[i].part = "session" /\ TradingDay(log[i].day) = latest
        BY <1>6, <2>2, <3>2 DEF Opened
      <4>2. latest <= Current.day /\ Current.day \in Int
        BY <1>9, <1>13, <4>1 DEF LiveState
      <4>. QED
        BY <1>9, <1>16, <4>2
    <3>. QED
      BY <3>1, <3>2
  <2>4. Min(Opened') = n + 1
    BY <2>3, MinIs
  <2>5. SumOf(SubSeq(Append(log, row), Len(log) + 1, Len(log) + 1)) = row.delta
    BY <1>5, SumOfLast
  <2>. QED
    BY <1>1, <1>4, <1>5, <1>6, <2>2, <2>3, <2>4, <2>5
<1>17. LiveKnown'
  <2>1. live' \in LiveState /\ live'.day <= TradingDay(now'.day) /\ live'.ticks <= Len(log')
    BY <1>4, <1>6, <1>8, <1>11, <1>12
  <2>. QED
    BY <1>14, <1>15, <1>16, <2>1 DEF LiveKnown
<1>. QED
  BY <1>7, <1>17 DEF FlowInv

LEMMA FlowStepKeeps == FlowInv /\ [FlowNext]_flowVars => FlowInv'
<1>. SUFFICES ASSUME FlowInv, [FlowNext]_flowVars PROVE FlowInv'
  OBVIOUS
<1>1. ASSUME NEW cs \in Charts, FetchChart(cs) PROVE FlowInv'
  <2>1. chart' = cs /\ live' = Current /\ UNCHANGED <<now, log>>
    BY <1>1 DEF FetchChart
  <2>2. LogTyped'
    BY <2>1 DEF FlowInv, LogTyped
  <2>3. LiveKnown'
    <3>1. CASE live = NoLive
      <4>1. log' = <<>> /\ live' \in LiveState /\ live'.day <= TradingDay(now'.day) /\ live'.ticks = 0
        BY <2>1, <3>1, CurrentIs
      <4>2. DOMAIN <<>> = {} /\ Len(<<>>) = 0
        OBVIOUS
      <4>. QED
        BY <4>1, <4>2 DEF LiveKnown
    <3>2. CASE live # NoLive
      <4>1. UNCHANGED <<now, log, live>>
        BY <2>1, <3>2, CurrentIs
      <4>. QED
        BY <4>1 DEF FlowInv, LiveKnown, Opened
    <3>. QED
      BY <3>1, <3>2
  <2>. QED
    BY <2>2, <2>3 DEF FlowInv
<1>2. CASE Push
  <2>1. UNCHANGED <<now, log, live, chart>>
    BY <1>2 DEF Push
  <2>. QED
    BY <2>1 DEF FlowInv, LogTyped, LiveKnown, Opened
<1>3. CASE TimePasses
  <2>1. UNCHANGED <<log, live, chart>>
    BY <1>3 DEF TimePasses
  <2>2. now.day \in 1 .. LastDay /\ LastDay \in Nat
    BY DayAssumption DEF FlowInv, LogTyped
  <2>3. now' \in [day : 1 .. LastDay, part : Range(DayParts)] /\ now.day <= now'.day
    <3>1. {"before", "session", "after"} = Range(DayParts)
      <4>1. DOMAIN DayParts = 1 .. 3 /\ 1 .. 3 = {1, 2, 3}
        BY DEF DayParts
      <4>. QED
        BY <4>1 DEF Range, DayParts
    <3>2. now = [day |-> now.day, part |-> now.part]
      BY DEF FlowInv, LogTyped
    <3>3. CASE now.part # "after"
      <4>1. PICK part : part = IF now.part = "before" THEN "session" ELSE "after"
        OBVIOUS
      <4>2. now' = [day |-> now.day, part |-> part] /\ part \in Range(DayParts)
        BY <1>3, <3>1, <3>2, <3>3, <4>1 DEF TimePasses
      <4>. QED
        BY <2>2, <4>2
    <3>4. CASE now.part = "after"
      <4>1. now' = [day |-> now.day + 1, part |-> "before"] /\ now.day < LastDay
        BY <1>3, <3>4 DEF TimePasses
      <4>. QED
        BY <2>2, <3>1, <4>1
    <3>. QED
      BY <3>3, <3>4
  <2>4. LogTyped'
    <3>1. ASSUME NEW i \in DOMAIN log PROVE log[i].day <= now'.day
      <4>1. log[i] \in Tick /\ log[i].day <= now.day
        BY DEF FlowInv, LogTyped
      <4>2. log[i].day \in Int /\ now'.day \in Int
        BY <2>2, <2>3, <4>1 DEF Tick
      <4>. QED
        BY <2>2, <2>3, <4>1, <4>2
    <3>. QED
      BY <2>1, <2>3, <3>1 DEF FlowInv, LogTyped
  <2>5. live # NoLive => live.day <= TradingDay(now'.day)
    <3>1. now'.day \in 1 .. LastDay /\ now.day <= now'.day
      BY <2>3
    <3>2. TradingDay(now.day) <= TradingDay(now'.day)
      BY <2>2, <3>1, TradingDaysGrow
    <3>3. TradingDay(now.day) \in 1 .. now.day /\ TradingDay(now'.day) \in 1 .. now'.day
      BY <2>2, <3>1, TradingDayIs
    <3>. QED
      BY <3>2, <3>3 DEF FlowInv, LiveKnown, LiveState
  <2>6. LiveKnown'
    <3>1. CASE live = NoLive /\ log = <<>>
      BY <2>1, <3>1 DEF LiveKnown
    <3>2. CASE ~(live = NoLive /\ log = <<>>)
      <4>1. live # NoLive
        BY <3>2, CurrentIs
      <4>2. Opened' = Opened
        BY <2>1 DEF Opened
      <4>. QED
        BY <2>1, <2>5, <3>2, <4>1, <4>2 DEF FlowInv, LiveKnown
    <3>. QED
      BY <3>1, <3>2
  <2>. QED
    BY <2>4, <2>6 DEF FlowInv
<1>4. CASE FlowRestart
  <2>1. live' = NoLive /\ log' = <<>> /\ chart' = <<>> /\ now' = now
    BY <1>4 DEF FlowRestart
  <2>. QED
    BY <2>1 DEF FlowInv, LogTyped, LiveKnown
<1>5. CASE UNCHANGED flowVars
  BY <1>5 DEF flowVars, FlowInv, LogTyped, LiveKnown, Opened
<1>. QED
  BY <1>1, <1>2, <1>3, <1>4, <1>5, IngestKeeps DEF FlowNext

(* The inductive invariant of the charts: the live state is of no later    *)
(* than the last trading day, no session's tick is of a later one, and its *)
(* sum began with its session (CVDEngine.ingestTick, _maybeResetLive).     *)
THEOREM FlowInductive == FlowSpec => []FlowInv
<1>. QED
  BY FlowStarts, FlowStepKeeps, PTL DEF FlowSpec

(* Nothing of an earlier session, or of the hours before this one, is left *)
(* in the live delta, for any calendar and any ticks                       *)
(* (CVDEngine._maybeResetLive).                                            *)
THEOREM LiveDeltaIsItsSession == FlowSpec => []LiveIsItsSession
<1>1. FlowInv => LiveIsItsSession
  <2>. SUFFICES ASSUME FlowInv, Opened # {}, \E i \in DOMAIN log : TradingDay(log[i].day) < live.day
                PROVE  live.delta = SumOf(SubSeq(log, Min(Opened), Len(log)))
    BY DEF LiveIsItsSession, Opened
  <2>1. log # <<>>
    OBVIOUS
  <2>. QED
    BY <2>1 DEF FlowInv, LiveKnown
<1>. QED
  BY FlowInductive, <1>1, PTL

LEMMA FlowTypes == FlowInv => FlowTypeOK
<1>. SUFFICES ASSUME FlowInv PROVE FlowTypeOK
  OBVIOUS
<1>1. now.day \in 1 .. LastDay /\ LastDay \in Nat
  BY DayAssumption DEF FlowInv, LogTyped
<1>2. TradingDay(now.day) \in 1 .. now.day
  BY <1>1, TradingDayIs
<1>3. CASE live = NoLive /\ log = <<>>
  BY <1>1, <1>3 DEF FlowInv, LogTyped, FlowTypeOK, NoLive
<1>4. CASE ~(live = NoLive /\ log = <<>>)
  <2>1. live \in LiveState /\ live.day <= TradingDay(now.day) /\ live.ticks <= Len(log)
    BY <1>4 DEF FlowInv, LiveKnown
  <2>2. live.day \in 0 .. now.day /\ live.ticks \in 0 .. Len(log) /\ live.delta \in Int
        /\ live.source \in {"tick_direction", "l1_midpoint", "ohlcv_synthetic"}
    BY <1>1, <1>2, <2>1 DEF LiveState, FlowInv, LogTyped
  <2>. QED
    BY <2>2 DEF FlowInv, LogTyped, FlowTypeOK
<1>. QED
  BY <1>3, <1>4

(* The live state counts ticks of this process, and its day is no later    *)
(* than today.                                                             *)
THEOREM FlowTypeCorrect == FlowSpec => []FlowTypeOK
<1>. QED
  BY FlowInductive, FlowTypes, PTL

----------------------------------------------------------------------------
(* Rounding *)

LEMMA AtMostTimes ==
  ASSUME NEW d \in Nat \ {0}, NEW u \in Int, NEW v \in Int, u * d <= v * d
  PROVE  u <= v
<1>. SUFFICES ASSUME v + 1 <= u PROVE FALSE
  OBVIOUS
<1>1. (v + 1) * d <= u * d /\ v + 1 \in Int
  BY TimesKeepsOrder
<1>2. PICK x \in Int, y \in Int : x = u * d /\ y = v * d
  OBVIOUS
<1>3. (v + 1) * d = y + d
  BY <1>2
<1>. QED
  BY <1>1, <1>2, <1>3

(* Half a unit either way. *)
LEMMA RoundsIs ==
  ASSUME NEW x \in Int, NEW d \in Nat \ {0}
  PROVE  /\ Rounds(x, d) \in Int
         /\ 2 * (d * Rounds(x, d)) <= 2 * x + d /\ 2 * x < 2 * (d * Rounds(x, d)) + d
<1>1. PICK y \in Int, e \in Nat \ {0} : y = 2 * x + d /\ e = 2 * d
  OBVIOUS
<1>2. PICK q \in Int : q = y \div e
  OBVIOUS
<1>3. e * q <= y /\ y < e * q + e
  BY <1>2
<1>4. Rounds(x, d) = q
  BY <1>1, <1>2 DEF Rounds
<1>5. PICK z \in Int : z = d * q
  OBVIOUS
<1>6. e * q = 2 * z
  BY <1>1, <1>5
<1>. QED
  BY <1>1, <1>3, <1>4, <1>5, <1>6

(* What is rounded place by place is off by half a unit a place at most. *)
LEMMA SumRounds ==
  ASSUME NEW S, IsFiniteSet(S), NEW d \in Nat \ {0}, NEW f, NEW g,
         \A x \in S : f[x] \in Int /\ g[x] = Rounds(f[x], d)
  PROVE  LET a == SumFunctionOnSet(f, S)
             b == SumFunctionOnSet(g, S)
         IN /\ a \in Int /\ b \in Int /\ Cardinality(S) \in Nat
            /\ 2 * (d * b) <= 2 * a + d * Cardinality(S)
            /\ 2 * a <= 2 * (d * b) + d * Cardinality(S)
<1>1. \A x \in S : /\ f[x] \in Int /\ g[x] \in Int
                   /\ 2 * (d * g[x]) <= 2 * f[x] + d /\ 2 * f[x] <= 2 * (d * g[x]) + d
  <2>. TAKE x \in S
  <2>1. PICK y \in Int, q \in Int : y = f[x] /\ q = Rounds(y, d) /\ q = g[x]
    BY RoundsIs
  <2>2. PICK z \in Int : z = d * q
    OBVIOUS
  <2>3. 2 * z <= 2 * y + d /\ 2 * y < 2 * z + d
    BY <2>1, <2>2, RoundsIs
  <2>. QED
    BY <2>1, <2>2, <2>3
<1>2. PICK twice : twice = [x \in S |-> 2 * f[x]]
  OBVIOUS
<1>3. PICK shown : shown = [x \in S |-> (2 * d) * g[x]]
  OBVIOUS
<1>4. PICK same : same = [x \in S |-> d]
  OBVIOUS
<1>5. PICK over : over = [x \in S |-> shown[x] - twice[x]]
  OBVIOUS
<1>6. PICK up : up = [x \in S |-> same[x] - over[x]]
  OBVIOUS
<1>7. PICK down : down = [x \in S |-> same[x] + over[x]]
  OBVIOUS
<1>8. \A x \in S : /\ twice[x] \in Int /\ shown[x] \in Int /\ same[x] \in Int /\ over[x] \in Int
                   /\ twice[x] = 2 * f[x] /\ shown[x] = (2 * d) * g[x] /\ same[x] = d
                   /\ over[x] = shown[x] - twice[x]
                   /\ up[x] \in Nat /\ up[x] = same[x] - over[x]
                   /\ down[x] \in Nat /\ down[x] = same[x] + over[x]
  <2>. TAKE x \in S
  <2>1. PICK y \in Int, q \in Int : y = f[x] /\ q = g[x]
    BY <1>1
  <2>2. PICK z \in Int : z = d * q
    OBVIOUS
  <2>3. 2 * z <= 2 * y + d /\ 2 * y <= 2 * z + d
    BY <1>1, <2>1, <2>2
  <2>4. (2 * d) * q = 2 * z
    BY <2>2
  <2>5. twice[x] = 2 * y /\ shown[x] = 2 * z /\ same[x] = d
    BY <1>2, <1>3, <1>4, <2>1, <2>4
  <2>6. over[x] = 2 * z - 2 * y
    BY <1>5, <2>5
  <2>7. up[x] = d - (2 * z - 2 * y) /\ down[x] = d + (2 * z - 2 * y)
    BY <1>6, <1>7, <2>5, <2>6
  <2>. QED
    BY <2>1, <2>3, <2>4, <2>5, <2>6, <2>7
<1>9. PICK a \in Int, b \in Int : a = SumFunctionOnSet(f, S) /\ b = SumFunctionOnSet(g, S)
  <2>1. (\A x \in S : f[x] \in Int) /\ \A x \in S : g[x] \in Int
    BY <1>1
  <2>. QED
    BY <2>1, SumStep
<1>10. SumFunctionOnSet(twice, S) = 2 * a
  <2>1. 2 \in Int /\ \A x \in S : f[x] \in Int /\ twice[x] = 2 * f[x]
    BY <1>8
  <2>. QED
    BY <1>9, <2>1, SumScaled
<1>11. SumFunctionOnSet(shown, S) = (2 * d) * b
  <2>1. 2 * d \in Int /\ \A x \in S : g[x] \in Int /\ shown[x] = (2 * d) * g[x]
    BY <1>1, <1>8
  <2>. QED
    BY <1>9, <2>1, SumScaled
<1>12. PICK k \in Nat : k = Cardinality(S)
  BY FS_CardinalityType
<1>13. SumFunctionOnSet(same, S) = d * k
  <2>1. d \in Int /\ \A x \in S : same[x] = d
    BY <1>8
  <2>. QED
    BY <1>12, <2>1, SumOfSame
<1>14. SumFunctionOnSet(over, S) = (2 * d) * b - 2 * a
  <2>1. \A x \in S : shown[x] \in Int /\ twice[x] \in Int /\ over[x] = shown[x] - twice[x]
    BY <1>8
  <2>2. SumFunctionOnSet(over, S) = SumFunctionOnSet(shown, S) - SumFunctionOnSet(twice, S)
    BY <2>1, SumDifference
  <2>. QED
    BY <1>10, <1>11, <2>2
<1>15. PICK u \in Nat : u = SumFunctionOnSet(up, S)
  BY <1>8, SumNatural
<1>16. PICK v \in Nat : v = SumFunctionOnSet(down, S)
  BY <1>8, SumNatural
<1>17. u = SumFunctionOnSet(same, S) - SumFunctionOnSet(over, S)
  BY <1>8, <1>15, SumDifference
<1>18. v = SumFunctionOnSet(same, S) + SumFunctionOnSet(over, S)
  BY <1>8, <1>16, SumAdded
<1>19. PICK x \in Int, y \in Int : x = d * b /\ y = d * k
  OBVIOUS
<1>20. (2 * d) * b = 2 * x
  BY <1>19
<1>21. u = y - (2 * x - 2 * a) /\ v = y + (2 * x - 2 * a)
  BY <1>13, <1>14, <1>17, <1>18, <1>19, <1>20
<1>22. 2 * x <= 2 * a + y /\ 2 * a <= 2 * x + y
  BY <1>21
<1>. QED
  BY <1>9, <1>12, <1>19, <1>22

----------------------------------------------------------------------------
(* The value area *)

LEMMA GreatestPlace ==
  ASSUME NEW n \in Nat \ {0}, NEW p, \A i \in 1 .. n : p[i] \in Int
  PROVE  \E i \in 1 .. n : \A k \in 1 .. n : p[k] <= p[i]
<1>. DEFINE T == {m \in Nat : m + 1 <= n => \E i \in 1 .. m + 1 : \A k \in 1 .. m + 1 : p[k] <= p[i]}
<1>1. 0 \in T
  <2>1. 1 <= n => \A k \in 1 .. 0 + 1 : p[k] <= p[1]
    <3>. SUFFICES ASSUME NEW k \in 1 .. 0 + 1 PROVE p[k] <= p[1]
      OBVIOUS
    <3>1. k = 1 /\ p[1] \in Int
      OBVIOUS
    <3>. QED
      BY <3>1
  <2>. QED
    BY <2>1
<1>2. ASSUME NEW m \in Nat, m \in T PROVE m + 1 \in T
  <2>. SUFFICES ASSUME m + 2 <= n PROVE \E i \in 1 .. m + 2 : \A k \in 1 .. m + 2 : p[k] <= p[i]
    OBVIOUS
  <2>1. PICK i \in 1 .. m + 1 : \A k \in 1 .. m + 1 : p[k] <= p[i]
    BY <1>2
  <2>2. p[m + 2] \in Int /\ p[i] \in Int /\ \A k \in 1 .. m + 1 : p[k] \in Int
    OBVIOUS
  <2>3. CASE p[m + 2] <= p[i]
    BY <2>1, <2>3
  <2>4. CASE p[i] <= p[m + 2]
    <3>1. ASSUME NEW k \in 1 .. m + 2 PROVE p[k] <= p[m + 2]
      <4>1. CASE k = m + 2
        BY <2>2, <4>1
      <4>2. CASE k \in 1 .. m + 1
        <5>1. p[k] <= p[i] /\ p[k] \in Int
          BY <2>1, <2>2, <4>2
        <5>. QED
          BY <2>2, <2>4, <5>1
      <4>. QED
        BY <4>1, <4>2
    <3>. QED
      BY <3>1
  <2>. QED
    BY <2>2, <2>3, <2>4
<1>. HIDE DEF T
<1>3. PICK m \in Nat : n = m + 1
  <2>1. n - 1 \in Nat /\ n = (n - 1) + 1
    OBVIOUS
  <2>. QED
    BY <2>1
<1>4. m \in T
  BY <1>1, <1>2, AllNumbers
<1>. QED
  BY <1>3, <1>4 DEF T

LEMMA PocIs ==
  ASSUME NEW n \in Nat \ {0}, NEW p \in [1 .. n -> Nat]
  PROVE  Poc(p) \in 1 .. n /\ \A k \in 1 .. n : p[k] <= p[Poc(p)]
<1>1. PICK i \in 1 .. n : \A k \in 1 .. n : p[k] <= p[i]
  <2>1. \A k \in 1 .. n : p[k] \in Int
    OBVIOUS
  <2>. QED
    BY <2>1, GreatestPlace
<1>2. PICK T : T = {x \in DOMAIN p : \A k \in DOMAIN p : p[k] <= p[x]}
  OBVIOUS
<1>3. T \in SUBSET (1 .. n) /\ T # {}
  BY <1>1, <1>2
<1>4. PICK m \in T : \A k \in T : m <= k
  <2>1. T \in SUBSET Nat
    BY <1>3
  <2>. QED
    BY <1>3, <2>1, LeastOf
<1>5. Min(T) = m
  <2>1. T \in SUBSET Int
    BY <1>3
  <2>. QED
    BY <1>4, <2>1, MinIs
<1>6. Poc(p) = m
  BY <1>2, <1>5 DEF Poc
<1>. QED
  BY <1>2, <1>3, <1>4, <1>6

LEMMA VolumeIsNat ==
  ASSUME NEW n \in Nat \ {0}, NEW p \in [1 .. n -> Nat]
  PROVE  VolumeIn(p, 1, n) \in Nat
<1>1. IsFiniteSet(1 .. n)
  BY FS_Interval
<1>2. \A i \in 1 .. n : p[i] \in Nat
  OBVIOUS
<1>. QED
  BY <1>1, <1>2, SumNatural DEF VolumeIn

AreaAlong(p, w, y, area) ==
  area = [k \in 0 .. Len(p) |-> IF k = 0 THEN <<Poc(p), Poc(p)>> ELSE Grown(p, w, y, area[k - 1][1], area[k - 1][2])]

LEMMA AreaExists ==
  ASSUME NEW n \in Nat \ {0}, NEW p \in [1 .. n -> Nat], Len(p) = n, NEW w, NEW y
  PROVE  \E area \in [0 .. n -> Int \X Int] : AreaAlong(p, w, y, area)
<1>1. PICK X : X = Int \X Int
  OBVIOUS
<1>2. PICK start : start = <<Poc(p), Poc(p)>>
  OBVIOUS
<1>3. PICK step : step = [z \in X \X (1 .. n) |-> Grown(p, w, y, z[1][1], z[1][2])]
  OBVIOUS
<1>4. \A x \in X : Grown(p, w, y, x[1], x[2]) \in X
  <2>. SUFFICES ASSUME NEW x \in X PROVE Grown(p, w, y, x[1], x[2]) \in X
    OBVIOUS
  <2>1. PICK lo \in Int, hi \in Int : x[1] = lo /\ x[2] = hi
    BY <1>1
  <2>2. <<lo, hi>> \in X /\ <<lo, hi + 1>> \in X /\ <<lo - 1, hi>> \in X
    BY <1>1
  <2>. QED
    BY <2>1, <2>2 DEF Grown
<1>5. start \in X
  BY <1>1, <1>2, PocIs
<1>6. step \in [X \X (1 .. n) -> X]
  BY <1>3, <1>4
<1>7. PICK area \in [0 .. n -> X] : Running(area, start, n, step)
  BY <1>5, <1>6, RunningExists
<1>8. area[0] = start /\ \A k \in 1 .. n : area[k] = Grown(p, w, y, area[k - 1][1], area[k - 1][2])
  <2>1. area[0] = start
    BY <1>7 DEF Running
  <2>2. ASSUME NEW k \in 1 .. n PROVE area[k] = Grown(p, w, y, area[k - 1][1], area[k - 1][2])
    <3>1. k - 1 \in 0 .. n
      OBVIOUS
    <3>2. area[k] = step[<<area[k - 1], k>>] /\ area[k - 1] \in X
      BY <1>7, <3>1 DEF Running
    <3>3. <<area[k - 1], k>> \in X \X (1 .. n)
      BY <3>2
    <3>. QED
      BY <1>3, <3>2, <3>3
  <2>. QED
    BY <2>1, <2>2
<1>9. area = [k \in 0 .. n |-> IF k = 0 THEN start ELSE Grown(p, w, y, area[k - 1][1], area[k - 1][2])]
  BY <1>7, <1>8
<1>. QED
  BY <1>1, <1>2, <1>7, <1>9 DEF AreaAlong

(* At every step the area holds the greatest bin and would not be enough   *)
(* without the bin it took last.                                           *)
Covers(p, n, w, y, lo, hi) ==
  /\ lo \in 1 .. n /\ hi \in 1 .. n /\ lo <= Poc(p) /\ Poc(p) <= hi
  /\ lo < hi => \/ /\ lo < Poc(p) /\ ~Enough(p, w, y, lo + 1, hi)
                   /\ hi < n => p[lo] >= p[hi + 1]
                \/ /\ hi > Poc(p) /\ ~Enough(p, w, y, lo, hi - 1)
                   /\ lo > 1 => p[hi] >= p[lo - 1]

Closed(p, n, w, y, lo, hi) == Enough(p, w, y, lo, hi) \/ (lo = 1 /\ hi = n)

LEMMA GrownCovers ==
  ASSUME NEW n \in Nat \ {0}, NEW p \in [1 .. n -> Nat], Len(p) = n,
         NEW w, NEW y, NEW lo, NEW hi, Covers(p, n, w, y, lo, hi), NEW k \in Nat, hi - lo = k \/ Closed(p, n, w, y, lo, hi)
  PROVE  LET g == Grown(p, w, y, lo, hi)
         IN Covers(p, n, w, y, g[1], g[2]) /\ (g[2] - g[1] = k + 1 \/ Closed(p, n, w, y, g[1], g[2]))
<1>1. lo \in 1 .. n /\ hi \in 1 .. n /\ Poc(p) \in 1 .. n /\ lo <= Poc(p) /\ Poc(p) <= hi
  BY PocIs DEF Covers
<1>2. PICK g : g = Grown(p, w, y, lo, hi)
  OBVIOUS
<1>3. CASE Closed(p, n, w, y, lo, hi)
  <2>1. g = <<lo, hi>>
    BY <1>2, <1>3 DEF Grown, Closed
  <2>. QED
    BY <1>2, <1>3, <2>1
<1>4. CASE ~Closed(p, n, w, y, lo, hi)
  <2>1. g = IF GrowsUp(p, lo, hi) THEN <<lo, hi + 1>> ELSE <<lo - 1, hi>>
    BY <1>2, <1>4 DEF Grown, Closed
  <2>2. hi - lo = k /\ ~Enough(p, w, y, lo, hi) /\ ~(lo = 1 /\ hi = n)
    BY <1>4 DEF Closed
  <2>3. CASE GrowsUp(p, lo, hi)
    <3>1. hi < n /\ (lo > 1 => p[hi + 1] >= p[lo - 1])
      <4>1. CASE lo = 1
        BY <1>1, <2>2, <4>1
      <4>2. CASE lo # 1
        BY <1>1, <2>3, <4>2 DEF GrowsUp
      <4>. QED
        BY <4>1, <4>2
    <3>2. hi + 1 - 1 = hi /\ hi + 1 > Poc(p) /\ hi + 1 \in 1 .. n /\ lo < hi + 1 /\ hi + 1 - lo = k + 1
      BY <1>1, <2>2, <3>1
    <3>3. Covers(p, n, w, y, lo, hi + 1)
      BY <1>1, <2>2, <3>1, <3>2 DEF Covers
    <3>4. g[1] = lo /\ g[2] = hi + 1
      BY <2>1, <2>3
    <3>5. Covers(p, n, w, y, g[1], g[2])
      BY <3>3, <3>4, Zenon
    <3>6. g[2] - g[1] = k + 1
      BY <1>1, <3>2, <3>4
    <3>. QED
      BY <1>2, <3>5, <3>6
  <2>4. CASE ~GrowsUp(p, lo, hi)
    <3>1. lo # 1 /\ (hi < n => ~(p[hi + 1] >= p[lo - 1]))
      BY <1>1, <2>2, <2>4 DEF GrowsUp
    <3>2. lo - 1 + 1 = lo /\ lo - 1 < Poc(p) /\ lo - 1 \in 1 .. n /\ lo - 1 < hi /\ hi - (lo - 1) = k + 1
      BY <1>1, <2>2, <3>1
    <3>3. hi < n => p[lo - 1] >= p[hi + 1]
      <4>. SUFFICES ASSUME hi < n PROVE p[lo - 1] >= p[hi + 1]
        OBVIOUS
      <4>1. p[lo - 1] \in Nat /\ p[hi + 1] \in Nat
        BY <1>1, <3>2
      <4>. QED
        BY <3>1, <4>1
    <3>4. Covers(p, n, w, y, lo - 1, hi)
      BY <1>1, <2>2, <3>2, <3>3 DEF Covers
    <3>5. g[1] = lo - 1 /\ g[2] = hi
      BY <2>1, <2>4
    <3>6. Covers(p, n, w, y, g[1], g[2])
      BY <3>4, <3>5, Zenon
    <3>7. g[2] - g[1] = k + 1
      BY <3>2, <3>5, Zenon
    <3>. QED
      BY <1>2, <3>6, <3>7
  <2>. QED
    BY <2>3, <2>4
<1>. QED
  BY <1>3, <1>4

LEMMA AreaCovers ==
  ASSUME NEW n \in Nat \ {0}, NEW p \in [1 .. n -> Nat], Len(p) = n, NEW d,
         NEW w, w = d * Rounds(p[Poc(p)], d) - p[Poc(p)],
         NEW y, y = d * VolumeIn(Shown(p, d), 1, n)
  PROVE  LET lo == ValueArea(p, d)[1]
             hi == ValueArea(p, d)[2]
         IN Covers(p, n, w, y, lo, hi) /\ Closed(p, n, w, y, lo, hi)
<1>1. PICK area : area = CHOOSE a : AreaAlong(p, w, y, a)
  OBVIOUS
<1>2. AreaAlong(p, w, y, area)
  BY <1>1, AreaExists
<1>3. ValueArea(p, d) = area[n]
  BY <1>1, Zenon DEF ValueArea, AreaAlong
<1>4. area = [k \in 0 .. n |-> IF k = 0 THEN <<Poc(p), Poc(p)>> ELSE Grown(p, w, y, area[k - 1][1], area[k - 1][2])]
  BY <1>2 DEF AreaAlong
<1>5. area[0] = <<Poc(p), Poc(p)>>
  BY <1>4
<1>6. \A k \in 1 .. n : area[k] = Grown(p, w, y, area[k - 1][1], area[k - 1][2])
  BY <1>4
<1>. DEFINE Known(k) == /\ Covers(p, n, w, y, area[k][1], area[k][2])
                        /\ area[k][2] - area[k][1] = k \/ Closed(p, n, w, y, area[k][1], area[k][2])
            T == {m \in Nat : m <= n => Known(m)}
<1>7. 0 \in T
  <2>1. Poc(p) \in 1 .. n
    BY PocIs
  <2>. QED
    BY <1>5, <2>1 DEF Covers
<1>8. ASSUME NEW m \in Nat, m \in T PROVE m + 1 \in T
  <2>. SUFFICES ASSUME m + 1 <= n PROVE Known(m + 1)
    OBVIOUS
  <2>1. Known(m)
    BY <1>8
  <2>2. area[m + 1] = Grown(p, w, y, area[m][1], area[m][2])
    <3>1. m + 1 \in 1 .. n /\ m + 1 - 1 = m
      OBVIOUS
    <3>. QED
      BY <1>6, <3>1
  <2>. QED
    BY <2>1, <2>2, GrownCovers
<1>. HIDE DEF T
<1>9. n \in T
  BY <1>7, <1>8, AllNumbers
<1>10. PICK lo, hi : lo = area[n][1] /\ hi = area[n][2]
  OBVIOUS
<1>11. Covers(p, n, w, y, lo, hi) /\ (hi - lo = n \/ Closed(p, n, w, y, lo, hi))
  BY <1>9, <1>10 DEF T
<1>12. Closed(p, n, w, y, lo, hi)
  <2>1. lo \in 1 .. n /\ hi \in 1 .. n
    BY <1>11 DEF Covers
  <2>2. hi - lo # n
    BY <2>1
  <2>. QED
    BY <1>11, <2>2
<1>. QED
  BY <1>3, <1>10, <1>11, <1>12

----------------------------------------------------------------------------
(* The volume profile *)

ChartCandle == [day : Nat, part : Range(DayParts), o : Int, h : Int, l : Int, c : Int, volume : Nat]

(* The charts there are: candles whose low is not above their high. *)
Drawn(cs) == cs \in Seq(ChartCandle) /\ \A i \in 1 .. Len(cs) : cs[i].l <= cs[i].h

(* The lowest low and the highest high of a chart are some candles'. *)
LEMMA RangeIs ==
  ASSUME NEW cs, Drawn(cs), Len(cs) # 0
  PROVE  /\ Lowest(cs) \in Int /\ Highest(cs) \in Int
         /\ \A i \in 1 .. Len(cs) : Lowest(cs) <= cs[i].l /\ cs[i].h <= Highest(cs)
<1>1. cs \in Seq(ChartCandle) /\ DOMAIN cs = 1 .. Len(cs) /\ Len(cs) \in Nat \ {0}
  BY DEF Drawn
<1>2. PICK n \in Nat \ {0} : n = Len(cs)
  <2>1. Len(cs) \in Nat \ {0}
    BY <1>1
  <2>. QED
    BY <2>1, Zenon
<1>3. \A i \in 1 .. n : cs[i].l \in Int /\ cs[i].h \in Int
  <2>. TAKE i \in 1 .. n
  <2>1. cs[i] \in ChartCandle
    BY <1>1, <1>2
  <2>. QED
    BY <2>1 DEF ChartCandle
<1>4. PICK lows : lows = [i \in 1 .. n |-> -cs[i].l]
  OBVIOUS
<1>5. PICK highs : highs = [i \in 1 .. n |-> cs[i].h]
  OBVIOUS
<1>6. PICK i \in 1 .. n : \A k \in 1 .. n : lows[k] <= lows[i]
  <2>1. \A k \in 1 .. n : lows[k] \in Int
    BY <1>3, <1>4
  <2>. QED
    BY <2>1, GreatestPlace
<1>7. PICK j \in 1 .. n : \A k \in 1 .. n : highs[k] <= highs[j]
  <2>1. \A k \in 1 .. n : highs[k] \in Int
    BY <1>3, <1>5
  <2>. QED
    BY <2>1, GreatestPlace
<1>8. PICK L : L = {c.l : c \in Range(cs)}
  OBVIOUS
<1>9. PICK H : H = {c.h : c \in Range(cs)}
  OBVIOUS
<1>10. (\A x \in L : \E k \in 1 .. n : x = cs[k].l) /\ \A k \in 1 .. n : cs[k].l \in L
  BY <1>1, <1>2, <1>8 DEF Range
<1>11. (\A x \in H : \E k \in 1 .. n : x = cs[k].h) /\ \A k \in 1 .. n : cs[k].h \in H
  BY <1>1, <1>2, <1>9 DEF Range
<1>12. \A k \in 1 .. n : cs[i].l <= cs[k].l /\ cs[k].h <= cs[j].h
  <2>. TAKE k \in 1 .. n
  <2>1. -cs[k].l <= -cs[i].l /\ cs[k].h <= cs[j].h
    BY <1>4, <1>5, <1>6, <1>7
  <2>2. cs[k].l \in Int /\ cs[i].l \in Int
    BY <1>3
  <2>. QED
    BY <2>1, <2>2
<1>13. Min(L) = cs[i].l
  <2>1. L \in SUBSET Int /\ cs[i].l \in L
    BY <1>3, <1>10
  <2>2. \A x \in L : cs[i].l <= x
    BY <1>10, <1>12
  <2>. QED
    BY <2>1, <2>2, MinIs
<1>14. Max(H) = cs[j].h
  <2>1. H \in SUBSET Int /\ cs[j].h \in H
    BY <1>3, <1>11
  <2>2. \A x \in H : x <= cs[j].h
    BY <1>11, <1>12
  <2>. QED
    BY <2>1, <2>2, MaxIs
<1>15. Lowest(cs) = cs[i].l /\ Highest(cs) = cs[j].h
  BY <1>8, <1>9, <1>13, <1>14 DEF Lowest, Highest
<1>. QED
  BY <1>2, <1>3, <1>12, <1>15

(* What an interval has in common with another, cut at its ends. *)
Clamp(x, a, b) == IF x < a THEN a ELSE IF x > b THEN b ELSE x

LEMMA ClampedPart ==
  ASSUME NEW a \in Int, NEW b \in Int, NEW x \in Int, NEW y \in Int, a <= b, x <= y
  PROVE  /\ Clamp(x, a, b) \in Int /\ Clamp(y, a, b) \in Int
         /\ Max({0, Min({b, y}) - Max({a, x})}) = Clamp(y, a, b) - Clamp(x, a, b)
<1>1. PICK m \in Int : m = IF b <= y THEN b ELSE y
  OBVIOUS
<1>2. PICK k \in Int : k = IF a >= x THEN a ELSE x
  OBVIOUS
<1>3. Min({b, y}) = m /\ Max({a, x}) = k
  BY <1>1, <1>2, MinOfTwo, MaxOfTwo
<1>4. m - k \in Int /\ 0 \in Int
  OBVIOUS
<1>5. Max({0, m - k}) = IF 0 >= m - k THEN 0 ELSE m - k
  BY <1>4, MaxOfTwo
<1>6. PICK w : w = Max({0, Min({b, y}) - Max({a, x})})
  OBVIOUS
<1>11. w = IF 0 >= m - k THEN 0 ELSE m - k
  BY <1>3, <1>5, <1>6, Zenon
<1>7. PICK p \in Int, q \in Int : p = Clamp(x, a, b) /\ q = Clamp(y, a, b)
  BY DEF Clamp
<1>8. (IF 0 >= m - k THEN 0 ELSE m - k) = q - p
  BY <1>1, <1>2, <1>7 DEF Clamp
<1>9. w = q - p
  BY <1>8, <1>11
<1>10. Max({0, Min({b, y}) - Max({a, x})}) = Clamp(y, a, b) - Clamp(x, a, b)
  BY <1>6, <1>7, <1>9, Zenon
<1>. QED
  BY <1>7, <1>10

LEMMA HeightIs ==
  ASSUME NEW c \in ChartCandle, c.l <= c.h
  PROVE  Height(c) \in Nat \ {0} /\ (c.l < c.h => Height(c) = c.h - c.l) /\ (c.h = c.l => Height(c) = 1)
<1>1. c.l \in Int /\ c.h \in Int
  BY DEF ChartCandle
<1>. QED
  BY <1>1 DEF Height

(* A candle puts its volume into the bins once, over its height. *)
LEMMA InBinTotal ==
  ASSUME NEW cs, NEW c \in ChartCandle, NEW n \in Nat \ {0}, NEW low \in Int, NEW high \in Int,
         Lowest(cs) = low, Highest(cs) = high, low < high, low <= c.l, c.l <= c.h, c.h <= high,
         NEW f, \A i \in 1 .. n : f[i] = InBin(cs, c, i, n)
  PROVE  (\A i \in 1 .. n : f[i] \in Nat) /\ SumFunctionOnSet(f, 1 .. n) = (c.volume * n) * Height(c)
<1>1. c.l \in Int /\ c.h \in Int /\ c.c \in Int /\ c.volume \in Nat
  BY DEF ChartCandle
<1>2. PICK v \in Nat : v = c.volume
  BY <1>1
<1>3. v * n \in Nat
  OBVIOUS
<1>4. CASE c.h = c.l
  <2>1. PICK x \in Int : x = ((c.c - low) * n) \div (high - low) + 1
    <3>1. PICK y \in Int : y = (c.c - low) * n
      BY <1>1
    <3>2. PICK z \in Nat \ {0} : z = high - low
      OBVIOUS
    <3>3. y \div z + 1 \in Int
      BY <3>2
    <3>. QED
      BY <3>1, <3>2, <3>3
  <2>2. PICK d \in 1 .. n : d = DojiBin(cs, c, n)
    <3>1. PICK m \in Int : m = IF 1 >= x THEN 1 ELSE x
      OBVIOUS
    <3>2. Max({1, x}) = m
      BY <3>1, MaxOfTwo
    <3>3. Min({n, m}) = IF n <= m THEN n ELSE m
      BY MinOfTwo
    <3>4. DojiBin(cs, c, n) = Min({n, m})
      BY <2>1, <3>2 DEF DojiBin
    <3>5. Min({n, m}) \in 1 .. n
      BY <3>1, <3>3
    <3>. QED
      BY <3>4, <3>5
  <2>3. \A i \in 1 .. n : f[i] = IF d = i THEN v * n ELSE 0
    BY <1>2, <1>4, <2>2 DEF InBin
  <2>4. f[d] = v * n
    BY <2>3
  <2>6. IsFiniteSet(1 .. n) /\ f[d] \in Int
    <3>1. IsFiniteSet(1 .. n)
      BY FS_Interval
    <3>2. v * n \in Int
      BY <1>3
    <3>. QED
      BY <2>4, <3>1, <3>2, Zenon
  <2>5. \A i \in (1 .. n) \ {d} : f[i] = 0
    BY <2>3
  <2>8. SumFunctionOnSet(f, 1 .. n) = v * n
    <3>1. SumFunctionOnSet(f, 1 .. n) = f[d]
      BY <2>5, <2>6, SumOfOne
    <3>. QED
      BY <2>4, <3>1
  <2>9. Height(c) = 1
    BY <1>4, HeightIs
  <2>10. \A i \in 1 .. n : f[i] \in Nat
    BY <1>3, <2>3
  <2>11. (v * n) * 1 = v * n
    BY <1>3
  <2>. QED
    BY <1>2, <2>8, <2>9, <2>10, <2>11, Zenon
<1>5. CASE c.h # c.l
  <2>1. PICK size \in Nat \ {0} : size = high - low
    OBVIOUS
  <2>2. PICK a \in Int, b \in Int : a = (c.l - low) * n /\ b = (c.h - low) * n
    <3>1. PICK s \in Int, t \in Int : s = c.l - low /\ t = c.h - low
      BY <1>1
    <3>2. s * n \in Int /\ t * n \in Int
      OBVIOUS
    <3>. QED
      BY <3>1, <3>2, Zenon
  <2>3. a <= b
    <3>1. c.l - low <= c.h - low /\ c.l - low \in Int /\ c.h - low \in Int
      BY <1>1
    <3>. QED
      BY <2>2, <3>1, TimesKeepsOrder
  <2>4. 0 <= a
    <3>1. 0 <= c.l - low /\ c.l - low \in Int /\ 0 * n = 0 /\ 0 \in Int
      BY <1>1
    <3>. QED
      BY <2>2, <3>1, TimesKeepsOrder
  <2>5. b <= size * n /\ size * n = n * size
    <3>1. c.h - low <= size /\ c.h - low \in Int /\ size \in Int
      BY <1>1, <2>1
    <3>. QED
      BY <2>2, <3>1, TimesKeepsOrder
  <2>6. PICK edge : edge = [i \in 0 .. n |-> v * Clamp(i * size, a, b)]
    OBVIOUS
  <2>7. \A i \in 0 .. n : i * size \in Int /\ Clamp(i * size, a, b) \in Int
    <3>. TAKE i \in 0 .. n
    <3>1. PICK x \in Int : x = i * size
      BY <2>1
    <3>. QED
      BY <3>1 DEF Clamp
  <2>8. \A i \in 0 .. n : edge[i] \in Int /\ edge[i] = v * Clamp(i * size, a, b)
    <3>. TAKE i \in 0 .. n
    <3>1. PICK x \in Int : x = Clamp(i * size, a, b)
      BY <2>7
    <3>2. v * x \in Int
      OBVIOUS
    <3>. QED
      BY <2>6, <3>1, <3>2
  <2>9. ASSUME NEW i \in 1 .. n PROVE f[i] = edge[i] - edge[i - 1] /\ f[i] \in Nat
    <3>1. i \in 0 .. n /\ i - 1 \in 0 .. n /\ i \in Int /\ i - 1 \in Int /\ i - 1 <= i
      OBVIOUS
    <3>2. PICK x \in Int, y \in Int : x = (i - 1) * size /\ y = i * size
      BY <2>7, <3>1
    <3>3. x <= y
      BY <2>1, <3>1, <3>2, TimesKeepsOrder
    <3>4. PICK p \in Int, q \in Int : p = Clamp(x, a, b) /\ q = Clamp(y, a, b)
      BY <2>3, <3>3, ClampedPart
    <3>5. p <= q
      BY <2>3, <3>3, <3>4 DEF Clamp
    <3>6. Max({0, Min({b, y}) - Max({a, x})}) = q - p
      BY <2>3, <3>3, <3>4, ClampedPart
    <3>7. f[i] = v * (q - p)
      <4>1. f[i] = InBin(cs, c, i, n)
        OBVIOUS
      <4>2. InBin(cs, c, i, n) = v * Max({0, Min({b, y}) - Max({a, x})})
        BY <1>2, <1>5, <2>1, <2>2, <3>2 DEF InBin
      <4>. QED
        BY <3>6, <4>1, <4>2
    <3>8. edge[i] = v * q /\ edge[i - 1] = v * p
      BY <2>8, <3>1, <3>2, <3>4
    <3>9. PICK e \in Nat : e = q - p
      BY <3>5
    <3>10. v * (q - p) = v * q - v * p /\ v * e \in Nat
      OBVIOUS
    <3>. QED
      BY <3>7, <3>8, <3>9, <3>10
  <2>10. SumFunctionOnSet(f, 1 .. n) = edge[n] - edge[0]
    BY <2>8, <2>9, SumTelescopes
  <2>11. edge[n] = v * b
    <3>1. n \in 0 .. n
      OBVIOUS
    <3>2. Clamp(n * size, a, b) = b
      <4>1. PICK x \in Int : x = n * size
        BY <2>7, <3>1
      <4>. QED
        BY <2>3, <2>5, <4>1 DEF Clamp
    <3>. QED
      BY <2>8, <3>1, <3>2
  <2>12. edge[0] = v * a
    <3>1. 0 \in 0 .. n /\ 0 * size = 0
      OBVIOUS
    <3>2. Clamp(0, a, b) = a
      BY <2>3, <2>4 DEF Clamp
    <3>. QED
      BY <2>8, <3>1, <3>2
  <2>13. PICK r \in Int : r = c.h - c.l
    BY <1>1
  <2>14. b - a = r * n
    <3>1. PICK s \in Int, t \in Int : s = c.l - low /\ t = c.h - low
      BY <1>1
    <3>2. b - a = t * n - s * n /\ t - s = r
      <4>1. b - a = t * n - s * n
        BY <2>2, <3>1, Zenon
      <4>2. t - s = r
        BY <1>1, <2>13, <3>1
      <4>. QED
        BY <4>1, <4>2
    <3>3. t * n - s * n = (t - s) * n
      OBVIOUS
    <3>. QED
      BY <3>2, <3>3
  <2>15. v * b - v * a = (v * n) * r
    <3>1. v * b - v * a = v * (b - a)
      OBVIOUS
    <3>2. v * (r * n) = (v * n) * r
      OBVIOUS
    <3>. QED
      BY <2>14, <3>1, <3>2
  <2>16. Height(c) = r
    BY <1>1, <1>5, <2>13 DEF Height
  <2>. QED
    BY <1>2, <2>9, <2>10, <2>11, <2>12, <2>15, <2>16
<1>. QED
  BY <1>4, <1>5
(* A multiple divides. *)
LEMMA QuotientIs ==
  ASSUME NEW q \in Int, NEW d \in Nat \ {0}
  PROVE  (q * d) \div d = q
<1>1. PICK x \in Int : x = q * d
  OBVIOUS
<1>2. PICK k \in Int : k = x \div d
  OBVIOUS
<1>3. d * k <= x /\ x < d * k + d
  BY <1>2
<1>4. d * k = k * d /\ d * k + d = (k + 1) * d /\ (q + 1) * d = q * d + d
  OBVIOUS
<1>5. PICK y \in Int, z \in Int, w \in Int : y = k * d /\ z = (k + 1) * d /\ w = (q + 1) * d
  OBVIOUS
<1>6. y <= x /\ x < z /\ w = x + d
  BY <1>1, <1>3, <1>4, <1>5
<1>7. y < w /\ d \in Nat
  BY <1>6
<1>8. q < k + 1
  <2>1. q * d < (k + 1) * d /\ k + 1 \in Int
    BY <1>1, <1>5, <1>6
  <2>. QED
    BY <1>7, <2>1, OrderIsKept
<1>9. k < q + 1
  <2>1. k * d < (q + 1) * d /\ q + 1 \in Int
    BY <1>5, <1>7
  <2>. QED
    BY <1>7, <2>1, OrderIsKept
<1>10. k = q
  BY <1>8, <1>9
<1>. QED
  BY <1>1, <1>2, <1>10

ScaleAlong(cs, product) ==
  product = [k \in 0 .. Len(cs) |-> IF k = 0 THEN 1 ELSE product[k - 1] * Height(cs[k])]

LEMMA ScaleExists ==
  ASSUME NEW cs, Drawn(cs)
  PROVE  \E product \in [0 .. Len(cs) -> Nat] : ScaleAlong(cs, product)
<1>1. PICK n \in Nat : n = Len(cs)
  BY DEF Drawn
<1>2. \A k \in 1 .. n : Height(cs[k]) \in Nat
  <2>. TAKE k \in 1 .. n
  <2>1. cs[k] \in ChartCandle /\ cs[k].l <= cs[k].h
    BY <1>1 DEF Drawn
  <2>. QED
    BY <2>1, HeightIs
<1>3. PICK step : step = [z \in Nat \X (1 .. n) |-> z[1] * Height(cs[z[2]])]
  OBVIOUS
<1>4. ASSUME NEW x \in Nat, NEW k \in 1 .. n
      PROVE  step[<<x, k>>] = x * Height(cs[k]) /\ step[<<x, k>>] \in Nat
  <2>1. PICK y \in Nat : y = Height(cs[k])
    BY <1>2
  <2>2. step[<<x, k>>] = x * y /\ x * y \in Nat
    BY <1>3, <2>1
  <2>. QED
    BY <2>1, <2>2
<1>5. step \in [Nat \X (1 .. n) -> Nat]
  <2>1. \A z \in Nat \X (1 .. n) : step[z] \in Nat
    BY <1>4
  <2>. QED
    BY <1>3, <2>1
<1>6. PICK product \in [0 .. n -> Nat] : Running(product, 1, n, step)
  <2>1. 1 \in Nat
    OBVIOUS
  <2>. QED
    BY <1>5, <2>1, RunningExists
<1>7. product[0] = 1 /\ \A k \in 1 .. n : product[k] = product[k - 1] * Height(cs[k])
  <2>1. product[0] = 1
    BY <1>6 DEF Running
  <2>2. ASSUME NEW k \in 1 .. n PROVE product[k] = product[k - 1] * Height(cs[k])
    <3>1. k - 1 \in 0 .. n
      OBVIOUS
    <3>2. product[k] = step[<<product[k - 1], k>>] /\ product[k - 1] \in Nat
      BY <1>6, <3>1 DEF Running
    <3>. QED
      BY <1>4, <3>2
  <2>. QED
    BY <2>1, <2>2
<1>8. product = [k \in 0 .. n |-> IF k = 0 THEN 1 ELSE product[k - 1] * Height(cs[k])]
  BY <1>6, <1>7
<1>. QED
  BY <1>1, <1>6, <1>8 DEF ScaleAlong

(* The scale is a multiple of the height of every candle. *)
LEMMA ScaleIs ==
  ASSUME NEW cs, Drawn(cs)
  PROVE  Scale(cs) \in Nat \ {0} /\ \A k \in 1 .. Len(cs) : \E q \in Nat : Scale(cs) = q * Height(cs[k])
<1>1. PICK n \in Nat : n = Len(cs)
  BY DEF Drawn
<1>2. PICK product : product = CHOOSE f : ScaleAlong(cs, f)
  OBVIOUS
<1>3. PICK along \in [0 .. n -> Nat] : ScaleAlong(cs, along)
  BY <1>1, ScaleExists
<1>4. ScaleAlong(cs, product)
  BY <1>2, <1>3
<1>5. Scale(cs) = product[n]
  BY <1>1, <1>2, Zenon DEF Scale, ScaleAlong
<1>6. product[0] = 1 /\ \A k \in 1 .. n : product[k] = product[k - 1] * Height(cs[k])
  <2>1. product = [k \in 0 .. n |-> IF k = 0 THEN 1 ELSE product[k - 1] * Height(cs[k])]
    BY <1>1, <1>4 DEF ScaleAlong
  <2>. QED
    BY <2>1
<1>7. \A k \in 1 .. n : Height(cs[k]) \in Nat \ {0}
  <2>. TAKE k \in 1 .. n
  <2>1. cs[k] \in ChartCandle /\ cs[k].l <= cs[k].h
    BY <1>1 DEF Drawn
  <2>. QED
    BY <2>1, HeightIs
<1>. DEFINE T == {m \in Nat : m <= n => /\ product[m] \in Nat \ {0}
                                        /\ \A k \in 1 .. m : \E q \in Nat : product[m] = q * Height(cs[k])}
<1>8. 0 \in T
  BY <1>6
<1>9. ASSUME NEW m \in Nat, m \in T PROVE m + 1 \in T
  <2>. SUFFICES ASSUME m + 1 <= n
                PROVE  /\ product[m + 1] \in Nat \ {0}
                       /\ \A k \in 1 .. m + 1 : \E q \in Nat : product[m + 1] = q * Height(cs[k])
    OBVIOUS
  <2>1. product[m] \in Nat \ {0} /\ \A k \in 1 .. m : \E q \in Nat : product[m] = q * Height(cs[k])
    BY <1>9
  <2>2. m + 1 \in 1 .. n /\ m + 1 - 1 = m
    OBVIOUS
  <2>3. PICK x \in Nat \ {0}, y \in Nat \ {0} : x = product[m] /\ y = Height(cs[m + 1])
    BY <1>7, <2>1, <2>2
  <2>4. product[m + 1] = x * y
    BY <1>6, <2>2, <2>3
  <2>5. ASSUME NEW k \in 1 .. m + 1 PROVE \E q \in Nat : product[m + 1] = q * Height(cs[k])
    <3>1. CASE k = m + 1
      BY <2>3, <2>4, <3>1
    <3>2. CASE k \in 1 .. m
      <4>1. k \in 1 .. n
        BY <3>2
      <4>2. PICK q \in Nat, z \in Nat : x = q * z /\ z = Height(cs[k])
        BY <1>7, <2>1, <2>3, <3>2, <4>1
      <4>3. (q * z) * y = (q * y) * z /\ q * y \in Nat
        OBVIOUS
      <4>. QED
        BY <2>4, <4>2, <4>3
    <3>. QED
      BY <3>1, <3>2
  <2>6. x * y \in Nat \ {0}
    <3>1. 1 \in Int /\ x \in Int /\ y \in Nat /\ 1 <= x
      OBVIOUS
    <3>2. 1 * y <= x * y
      BY <3>1, TimesKeepsOrder
    <3>3. PICK z \in Int : z = x * y
      OBVIOUS
    <3>. QED
      BY <3>2, <3>3
  <2>. QED
    BY <2>4, <2>5, <2>6
<1>. HIDE DEF T
<1>10. n \in T
  BY <1>8, <1>9, AllNumbers
<1>. QED
  BY <1>1, <1>5, <1>10 DEF T
(* A chart with a range. *)
Ranged(cs) == Drawn(cs) /\ Len(cs) # 0 /\ Lowest(cs) < Highest(cs)

(* The bins together hold every candle's volume, once. *)
LEMMA ProfileIs ==
  ASSUME NEW cs, Ranged(cs), NEW n \in Nat \ {0}
  PROVE  /\ Profile(cs, n) \in [1 .. n -> Nat]
         /\ VolumeIn(Profile(cs, n), 1, n) = OneUnit(cs, n) * SumFunction([k \in DOMAIN cs |-> cs[k].volume])
         /\ SumFunction([k \in DOMAIN cs |-> cs[k].volume]) \in Int /\ OneUnit(cs, n) \in Nat \ {0}
<1>1. PICK len \in Nat : len = Len(cs)
  BY DEF Ranged, Drawn
<1>2. PICK K : K = 1 .. len
  OBVIOUS
<1>3. DOMAIN cs = K /\ \A k \in K : cs[k] \in ChartCandle /\ cs[k].l <= cs[k].h
  BY <1>1, <1>2 DEF Ranged, Drawn
<1>4. PICK N : N = 1 .. n
  OBVIOUS
<1>5. IsFiniteSet(K) /\ IsFiniteSet(N)
  BY <1>2, <1>4, FS_Interval
<1>6. PICK scale \in Nat : scale = Scale(cs)
  BY ScaleIs DEF Ranged
<1>7. PICK quot : quot = [k \in K |-> Scale(cs) \div Height(cs[k])]
  OBVIOUS
<1>8. ASSUME NEW k \in K PROVE quot[k] \in Nat /\ quot[k] * Height(cs[k]) = scale
  <2>1. PICK h \in Nat \ {0} : h = Height(cs[k])
    BY <1>3, HeightIs
  <2>2. PICK q \in Nat : scale = q * h
    BY <1>1, <1>2, <1>6, <2>1, ScaleIs DEF Ranged
  <2>3. quot[k] = scale \div h
    BY <1>6, <1>7, <2>1
  <2>4. (q * h) \div h = q
    BY QuotientIs
  <2>. QED
    BY <2>1, <2>2, <2>3, <2>4
<1>9. PICK bins : bins = [k \in K |-> [i \in N |-> InBin(cs, cs[k], i, n)]]
  OBVIOUS
<1>10. ASSUME NEW k \in K
       PROVE  /\ \A i \in N : bins[k][i] \in Nat
              /\ SumFunctionOnSet(bins[k], N) = (cs[k].volume * n) * Height(cs[k])
  <2>1. PICK low \in Int, high \in Int : low = Lowest(cs) /\ high = Highest(cs)
    BY RangeIs DEF Ranged
  <2>2. low < high /\ low <= cs[k].l /\ cs[k].h <= high
    BY <1>1, <1>2, <2>1, RangeIs DEF Ranged
  <2>3. PICK f : f = bins[k]
    OBVIOUS
  <2>4. \A i \in 1 .. n : f[i] = InBin(cs, cs[k], i, n)
    BY <1>4, <1>9, <2>3
  <2>5. (\A i \in 1 .. n : f[i] \in Nat) /\ SumFunctionOnSet(f, 1 .. n) = (cs[k].volume * n) * Height(cs[k])
    BY <1>3, <2>1, <2>2, <2>4, InBinTotal
  <2>. QED
    BY <1>4, <2>3, <2>5
<1>11. PICK row : row = [k \in K |-> [i \in N |-> InBin(cs, cs[k], i, n) * (Scale(cs) \div Height(cs[k]))]]
  OBVIOUS
<1>12. PICK column : column = [i \in N |-> [k \in K |-> InBin(cs, cs[k], i, n) * (Scale(cs) \div Height(cs[k]))]]
  OBVIOUS
<1>13. ASSUME NEW k \in K, NEW i \in N
       PROVE  /\ row[k][i] = bins[k][i] * quot[k] /\ column[i][k] = row[k][i]
              /\ row[k][i] \in Nat /\ row[k][i] \in Int
  <2>1. row[k][i] = bins[k][i] * quot[k] /\ column[i][k] = row[k][i]
    BY <1>7, <1>9, <1>11, <1>12
  <2>2. PICK x \in Nat, y \in Nat : x = bins[k][i] /\ y = quot[k]
    BY <1>8, <1>10
  <2>3. x * y \in Nat
    OBVIOUS
  <2>. QED
    BY <2>1, <2>2, <2>3
<1>14. PICK volumes : volumes = [k \in K |-> cs[k].volume]
  OBVIOUS
<1>15. \A k \in K : volumes[k] \in Nat /\ volumes[k] = cs[k].volume
  <2>. SUFFICES ASSUME NEW k \in K PROVE volumes[k] \in Nat /\ volumes[k] = cs[k].volume
    OBVIOUS
  <2>1. cs[k].volume \in Nat
    BY <1>3 DEF ChartCandle
  <2>. QED
    BY <1>14, <2>1
<1>16. PICK rows : rows = [k \in K |-> SumFunctionOnSet(row[k], N)]
  OBVIOUS
<1>17. PICK d \in Int : d = n * scale
  OBVIOUS
<1>18. ASSUME NEW k \in K PROVE rows[k] = d * volumes[k]
  <2>1. PICK v \in Nat, h \in Nat, q \in Nat : v = cs[k].volume /\ h = Height(cs[k]) /\ q = quot[k]
    BY <1>3, <1>8, <1>15, HeightIs
  <2>2. PICK f, g : f = bins[k] /\ g = row[k]
    OBVIOUS
  <2>3. \A i \in N : f[i] \in Int /\ g[i] = q * f[i]
    <3>. SUFFICES ASSUME NEW i \in N PROVE f[i] \in Int /\ g[i] = q * f[i]
      OBVIOUS
    <3>1. f[i] \in Nat
      BY <1>10, <2>2
    <3>2. g[i] = f[i] * q
      BY <1>13, <2>1, <2>2
    <3>. QED
      BY <3>1, <3>2
  <2>4. SumFunctionOnSet(g, N) = q * SumFunctionOnSet(f, N)
    <3>1. q \in Int
      OBVIOUS
    <3>. QED
      BY <1>5, <2>3, <3>1, SumScaled
  <2>5. SumFunctionOnSet(f, N) = (v * n) * h
    BY <1>10, <2>1, <2>2
  <2>6. q * h = scale
    BY <1>8, <2>1
  <2>7. q * ((v * n) * h) = (n * (q * h)) * v
    OBVIOUS
  <2>8. rows[k] = SumFunctionOnSet(g, N) /\ volumes[k] = v
    BY <1>15, <1>16, <2>1, <2>2
  <2>9. q * ((v * n) * h) = d * v
    BY <1>17, <2>6, <2>7, Zenon
  <2>. QED
    BY <2>4, <2>5, <2>8, <2>9, Zenon
<1>19. SumFunctionOnSet(rows, K) = d * SumFunctionOnSet(volumes, K)
  <2>1. \A k \in K : volumes[k] \in Int /\ rows[k] = d * volumes[k]
    BY <1>15, <1>18
  <2>. QED
    BY <1>5, <2>1, SumScaled
<1>20. PICK p : p = Profile(cs, n)
  OBVIOUS
<1>21. ASSUME NEW i \in N PROVE p[i] = SumFunctionOnSet(column[i], K) /\ p[i] \in Nat
  <2>1. p[i] = BinVolume(cs, i, n)
    BY <1>4, <1>20 DEF Profile
  <2>2. column[i] = [k \in K |-> InBin(cs, cs[k], i, n) * (Scale(cs) \div Height(cs[k]))]
    BY <1>12
  <2>3. DOMAIN column[i] = K
    BY <2>2
  <2>4. p[i] = SumFunctionOnSet(column[i], K)
    BY <1>3, <2>1, <2>2, <2>3, Zenon DEF BinVolume, SumFunction
  <2>5. \A k \in K : column[i][k] \in Nat
    BY <1>13
  <2>6. SumFunctionOnSet(column[i], K) \in Nat
    BY <1>5, <2>5, SumNatural
  <2>. QED
    BY <2>4, <2>6
<1>22. SumFunctionOnSet(rows, K) = SumFunctionOnSet(p, N)
  <2>1. \A k \in K : \A i \in N : row[k][i] \in Int
    BY <1>13
  <2>2. \A k \in K : \A i \in N : column[i][k] = row[k][i]
    BY <1>13
  <2>3. SumFunctionOnSet(TotalsOf(row, K, N), K) = SumFunctionOnSet(TotalsOf(column, N, K), N)
    BY <1>5, <2>1, <2>2, SumExchange
  <2>4. PICK totals : totals = TotalsOf(column, N, K)
    OBVIOUS
  <2>5. \A i \in N : p[i] \in Int /\ totals[i] = p[i]
    BY <1>21, <2>4 DEF TotalsOf
  <2>6. SumFunctionOnSet(totals, N) = SumFunctionOnSet(p, N)
    BY <1>5, <2>5, SumSame
  <2>. QED
    BY <1>16, <2>3, <2>4, <2>6, Zenon DEF TotalsOf
<1>23. p \in [1 .. n -> Nat]
  <2>1. p = [i \in N |-> BinVolume(cs, i, n)]
    BY <1>4, <1>20 DEF Profile
  <2>. QED
    BY <1>4, <1>21, <2>1
<1>24. VolumeIn(p, 1, n) = SumFunctionOnSet(p, N)
  BY <1>4 DEF VolumeIn
<1>25. SumFunction([k \in DOMAIN cs |-> cs[k].volume]) = SumFunctionOnSet(volumes, K)
  <2>1. volumes = [k \in DOMAIN cs |-> cs[k].volume] /\ DOMAIN volumes = K
    BY <1>3, <1>14
  <2>. QED
    BY <2>1, Zenon DEF SumFunction
<1>26. VolumeIn(p, 1, n) = d * SumFunctionOnSet(volumes, K)
  BY <1>19, <1>22, <1>24, Zenon
<1>27. OneUnit(cs, n) = d /\ d \in Nat \ {0}
  <2>1. 1 \in Int /\ n \in Int /\ scale \in Nat /\ 1 <= n /\ scale # 0
    BY <1>6, ScaleIs DEF Ranged
  <2>2. 1 * scale <= n * scale
    BY <2>1, TimesKeepsOrder
  <2>. QED
    BY <1>6, <1>17, <2>1, <2>2 DEF OneUnit
<1>28. SumFunctionOnSet(volumes, K) \in Int
  BY <1>5, <1>15, SumNatural
<1>29. VolumeIn(p, 1, n) = OneUnit(cs, n) * SumFunction([k \in DOMAIN cs |-> cs[k].volume])
  BY <1>25, <1>26, <1>27, Zenon
<1>. QED
  BY <1>20, <1>23, <1>25, <1>27, <1>28, <1>29, Zenon

(* The bins as they are shown. *)
LEMMA ShownIs ==
  ASSUME NEW n \in Nat \ {0}, NEW p \in [1 .. n -> Nat], NEW d \in Nat \ {0}
  PROVE  LET a == VolumeIn(p, 1, n)
             b == VolumeIn(Shown(p, d), 1, n)
         IN /\ a \in Int /\ b \in Int
            /\ 2 * (d * b) <= 2 * a + d * n /\ 2 * a <= 2 * (d * b) + d * n
<1>1. PICK N : N = 1 .. n
  OBVIOUS
<1>2. IsFiniteSet(N) /\ Cardinality(N) = n
  BY <1>1, FS_Interval
<1>3. PICK g : g = Shown(p, d)
  OBVIOUS
<1>4. \A i \in N : p[i] \in Int /\ g[i] = Rounds(p[i], d)
  BY <1>1, <1>3 DEF Shown
<1>. QED
  BY <1>1, <1>2, <1>3, <1>4, SumRounds DEF VolumeIn
----------------------------------------------------------------------------
(* The footprint *)

LEMMA RemainderIs ==
  ASSUME NEW x \in Int, NEW d \in Nat \ {0}
  PROVE  /\ \A q \in Int : x = q * d => x % d = 0
         /\ x % d = 0 => \E q \in Int : x = q * d
<1>1. PICK k \in Int : k = x \div d
  OBVIOUS
<1>2. x = d * k + (x % d) /\ x % d \in 0 .. d - 1
  BY <1>1
<1>3. ASSUME NEW q \in Int, x = q * d PROVE x % d = 0
  <2>1. k = q
    BY <1>1, <1>3, QuotientIs
  <2>2. q * d = d * q
    OBVIOUS
  <2>3. PICK y \in Int : y = d * q
    OBVIOUS
  <2>. QED
    BY <1>2, <1>3, <2>1, <2>2, <2>3
<1>4. ASSUME x % d = 0 PROVE \E q \in Int : x = q * d
  <2>1. d * k = k * d /\ x = d * k
    BY <1>2, <1>4
  <2>. QED
    BY <2>1
<1>. QED
  BY <1>3, <1>4

(* Where the grid of a candle begins. *)
Bottom(c) == (At(c.l) \div LevelSize(c)) * LevelSize(c)

LEMMA GridIs ==
  ASSUME NEW c \in ChartCandle, c.l < c.h
  PROVE  /\ At(c.l) \in Int /\ At(c.h) \in Int /\ At(c.l) < At(c.h)
         /\ LevelSize(c) \in Nat \ {0} /\ Width(c) = At(c.h) - At(c.l)
         /\ Width(c) <= LevelSize(c) * MaxLevels
<1>1. PICK h \in Int, l \in Int, e \in Nat \ {0}, w \in Nat \ {0} :
        h = c.h /\ l = c.l /\ e = MaxLevels /\ w = h - l
  <2>1. c.h \in Int /\ c.l \in Int /\ c.h - c.l \in Nat \ {0}
    BY DEF ChartCandle
  <2>. QED
    BY <2>1, ClusterAssumption
<1>2. PICK x \in Int, y \in Int : x = l * e /\ y = h * e
  OBVIOUS
<1>3. At(c.l) = x /\ At(c.h) = y
  BY <1>1, <1>2 DEF At
<1>4. y - x = w * e
  BY <1>1, <1>2
<1>5. w * e \in Nat \ {0}
  <2>1. 1 \in Int /\ w \in Int /\ e \in Nat /\ 1 <= w
    OBVIOUS
  <2>2. 1 * e <= w * e
    BY <2>1, TimesKeepsOrder
  <2>3. PICK z \in Int : z = w * e
    OBVIOUS
  <2>. QED
    BY <2>2, <2>3
<1>6. PICK k \in Nat : k = At(Cluster)
  <2>1. Cluster * MaxLevels \in Nat
    <3>1. PICK i \in Nat, j \in Nat : i = Cluster /\ j = MaxLevels
      BY ClusterAssumption
    <3>. QED
      BY <3>1
  <2>. QED
    BY <2>1 DEF At
<1>7. LevelSize(c) = IF k >= w THEN k ELSE w
  <2>1. k \in Int /\ w \in Int
    OBVIOUS
  <2>. QED
    BY <1>1, <1>6, <2>1, MaxOfTwo DEF LevelSize
<1>8. LevelSize(c) \in Nat \ {0} /\ w <= LevelSize(c)
  BY <1>7
<1>9. PICK s \in Nat \ {0} : s = LevelSize(c) /\ w <= s
  BY <1>8
<1>10. w * e <= s * e
  BY <1>9, TimesKeepsOrder
<1>11. PICK z \in Int, v \in Int : z = w * e /\ v = s * e
  OBVIOUS
<1>12. x < y /\ Width(c) = y - x /\ Width(c) = z /\ z <= v
  BY <1>3, <1>4, <1>5, <1>10, <1>11 DEF Width
<1>. QED
  BY <1>1, <1>3, <1>9, <1>11, <1>12

LEMMA BottomIs ==
  ASSUME NEW c \in ChartCandle, c.l < c.h
  PROVE  Bottom(c) \in Int /\ Bottom(c) <= At(c.l) /\ At(c.l) < Bottom(c) + LevelSize(c)
<1>1. PICK x \in Int, d \in Nat \ {0} : x = At(c.l) /\ d = LevelSize(c)
  BY GridIs
<1>3. PICK k \in Int : k = x \div d
  BY <1>1
<1>4. d * k <= x /\ x < d * k + d
  BY <1>3
<1>5. d * k = k * d /\ k * d \in Int
  OBVIOUS
<1>6. Bottom(c) = k * d
  BY <1>1, <1>3 DEF Bottom
<1>. QED
  BY <1>1, <1>4, <1>5, <1>6

(* The rows are the multiples of the level's height below the high. *)
LEMMA RowsAre ==
  ASSUME NEW c \in ChartCandle, c.l < c.h, NEW r
  PROVE  r \in GridRows(c) <=> /\ r \in Int /\ Bottom(c) <= r /\ r < At(c.h)
                               /\ \E q \in Nat : r = Bottom(c) + q * LevelSize(c)
<1>1. PICK h \in Int, l \in Int : h = At(c.h) /\ l = At(c.l)
  BY GridIs
<1>2. PICK d \in Nat \ {0} : d = LevelSize(c)
  BY GridIs
<1>3. PICK b \in Int : b = Bottom(c)
  BY BottomIs
<1>4. b <= l /\ l < b + d /\ l < h
  BY <1>1, <1>2, <1>3, BottomIs, GridIs
<1>5. r \in GridRows(c) <=> r \in b .. h + d \div 2 /\ (r - b) % d = 0 /\ Overlap(c, r, r + d) > 0
  BY <1>1, <1>2, <1>3, <1>4 DEF GridRows, GridEnd, Bottom
<1>6. PICK half \in Nat : half = d \div 2
  OBVIOUS
<1>7. ASSUME NEW s \in Int, b <= s PROVE Overlap(c, s, s + d) > 0 <=> s < h
  <2>1. PICK x \in Int : x = IF h <= s + d THEN h ELSE s + d
    OBVIOUS
  <2>2. PICK y \in Int : y = IF l >= s THEN l ELSE s
    OBVIOUS
  <2>3. Min({h, s + d}) = x /\ Max({l, s}) = y
    BY <2>1, <2>2, MinOfTwo, MaxOfTwo
  <2>4. Overlap(c, s, s + d) = x - y
    BY <1>1, <2>3 DEF Overlap
  <2>5. x - y > 0 <=> s < h
    BY <1>4, <1>7, <2>1, <2>2
  <2>. QED
    BY <2>4, <2>5
<1>8. ASSUME NEW s \in Int, b <= s PROVE (s - b) % d = 0 <=> \E q \in Nat : s = b + q * d
  <2>1. PICK x \in Nat : x = s - b
    BY <1>8
  <2>2. ASSUME x % d = 0 PROVE \E q \in Nat : s = b + q * d
    <3>1. PICK q \in Int : x = q * d
      BY <2>2, RemainderIs
    <3>2. q \in Nat
      <4>. SUFFICES ASSUME q <= -1 PROVE FALSE
        OBVIOUS
      <4>1. q * d <= (-1) * d /\ -1 \in Int
        BY TimesKeepsOrder
      <4>2. (-1) * d < 0
        OBVIOUS
      <4>. QED
        BY <2>1, <3>1, <4>1, <4>2
    <3>3. s = b + x
      BY <2>1
    <3>. QED
      BY <3>1, <3>2, <3>3
  <2>3. ASSUME NEW q \in Nat, s = b + q * d PROVE x % d = 0
    <3>1. PICK y \in Int : y = q * d
      OBVIOUS
    <3>2. x = y
      BY <2>1, <2>3, <3>1
    <3>. QED
      BY <3>1, <3>2, RemainderIs
  <2>. QED
    BY <2>1, <2>2, <2>3
<1>9. ASSUME r \in Int, b <= r, r < h, \E q \in Nat : r = b + q * d PROVE r \in GridRows(c)
  <2>1. (r - b) % d = 0 /\ Overlap(c, r, r + d) > 0
    BY <1>7, <1>8, <1>9
  <2>2. r \in b .. h + d \div 2
    BY <1>6, <1>9
  <2>. QED
    BY <1>5, <2>1, <2>2
<1>10. ASSUME r \in GridRows(c) PROVE r \in Int /\ b <= r /\ r < h /\ \E q \in Nat : r = b + q * d
  <2>1. r \in b .. h + half /\ (r - b) % d = 0 /\ Overlap(c, r, r + d) > 0
    BY <1>5, <1>6, <1>10
  <2>2. r \in Int /\ b <= r
    BY <2>1
  <2>. QED
    BY <1>7, <1>8, <2>1, <2>2
<1>. QED
  BY <1>1, <1>2, <1>3, <1>9, <1>10

(* A row's part of the range, by the volume. *)
Part(c) == [r \in GridRows(c) |-> c.volume * Overlap(c, r, r + LevelSize(c))]

LEMMA PartIs ==
  ASSUME NEW c \in ChartCandle, c.l < c.h, NEW r \in GridRows(c)
  PROVE  Part(c)[r] = c.volume * (Clamp(r + LevelSize(c), At(c.l), At(c.h)) - Clamp(r, At(c.l), At(c.h)))
<1>1. PICK h \in Int, l \in Int : h = At(c.h) /\ l = At(c.l)
  BY GridIs
<1>2. PICK d \in Nat \ {0} : d = LevelSize(c)
  BY GridIs
<1>3. PICK b \in Int : b = Bottom(c)
  BY BottomIs
<1>4. r \in Int /\ b <= r /\ r < h /\ l < b + d /\ l < h
  BY <1>1, <1>2, <1>3, RowsAre, BottomIs, GridIs
<1>5. PICK x \in Int : x = IF h <= r + d THEN h ELSE r + d
  BY <1>4
<1>6. PICK y \in Int : y = IF l >= r THEN l ELSE r
  BY <1>4
<1>7. Min({h, r + d}) = x /\ Max({l, r}) = y
  BY <1>4, <1>5, <1>6, MinOfTwo, MaxOfTwo
<1>8. Overlap(c, r, r + d) = x - y
  BY <1>1, <1>7 DEF Overlap
<1>9. x - y = Clamp(r + d, l, h) - Clamp(r, l, h)
  BY <1>4, <1>5, <1>6 DEF Clamp
<1>. QED
  BY <1>1, <1>2, <1>8, <1>9 DEF Part
(* The levels together hold the candle's volume, over its range. *)
LEMMA PartsAddUp ==
  ASSUME NEW c \in ChartCandle, c.l < c.h
  PROVE  /\ IsFiniteSet(GridRows(c)) /\ \A r \in GridRows(c) : Part(c)[r] \in Int
         /\ SumFunctionOnSet(Part(c), GridRows(c)) = c.volume * Width(c)
<1>1. PICK h \in Int, l \in Int : h = At(c.h) /\ l = At(c.l)
  BY GridIs
<1>2. PICK d \in Nat \ {0} : d = LevelSize(c)
  BY GridIs
<1>3. PICK b \in Int : b = Bottom(c)
  BY BottomIs
<1>4. b <= l /\ l < b + d /\ l < h
  BY <1>1, <1>2, <1>3, BottomIs, GridIs
<1>5. PICK u \in Int : u = c.volume
  BY DEF ChartCandle
<1>7. PICK G : G = GridRows(c)
  OBVIOUS
<1>8. PICK share : share = Part(c)
  OBVIOUS
<1>9. \A r : r \in G <=> r \in Int /\ b <= r /\ r < h /\ \E q \in Nat : r = b + q * d
  BY <1>1, <1>2, <1>3, <1>7, RowsAre
<1>10. ASSUME NEW r \in G
       PROVE  share[r] \in Int /\ share[r] = u * (Clamp(r + d, l, h) - Clamp(r, l, h))
  <2>1. share[r] = u * (Clamp(r + d, l, h) - Clamp(r, l, h))
    BY <1>1, <1>2, <1>5, <1>7, <1>8, PartIs
  <2>2. PICK x \in Int, y \in Int : x = Clamp(r + d, l, h) /\ y = Clamp(r, l, h)
    BY <1>9 DEF Clamp
  <2>3. u * (x - y) \in Int
    OBVIOUS
  <2>. QED
    BY <2>1, <2>2, <2>3
<1>11. IsFiniteSet(G)
  <2>1. IsFiniteSet(b .. h)
    BY FS_Interval
  <2>2. G \subseteq b .. h
    BY <1>9
  <2>. QED
    BY <2>1, <2>2, FS_Subset
<1>. DEFINE RowsBelow(m) == {r \in G : r < b + m * d}
            T == {m \in Nat : SumFunctionOnSet(share, RowsBelow(m)) = u * (Clamp(b + m * d, l, h) - l)}
<1>12. ASSUME NEW m \in Nat
       PROVE  IsFiniteSet(RowsBelow(m)) /\ \A r \in RowsBelow(m) : share[r] \in Int
  <2>1. RowsBelow(m) \subseteq G
    OBVIOUS
  <2>. QED
    BY <1>10, <1>11, <2>1, FS_Subset
<1>13. 0 \in T
  <2>1. 0 * d = 0 /\ b + 0 = b
    OBVIOUS
  <2>2. RowsBelow(0) = {}
    BY <1>9, <2>1
  <2>3. SumFunctionOnSet(share, RowsBelow(0)) = 0
    BY <1>12, <2>2, SumStep
  <2>4. Clamp(b + 0 * d, l, h) - l = 0
    BY <1>4, <2>1 DEF Clamp
  <2>5. u * 0 = 0
    OBVIOUS
  <2>. HIDE DEF RowsBelow
  <2>. QED
    BY <2>3, <2>4, <2>5
<1>14. ASSUME NEW m \in Nat, m \in T PROVE m + 1 \in T
  <2>1. PICK y \in Int : y = b + m * d
    OBVIOUS
  <2>2. b + (m + 1) * d = y + d
    BY <2>1
  <2>3. PICK low : low = RowsBelow(m)
    OBVIOUS
  <2>4. PICK more : more = RowsBelow(m + 1)
    OBVIOUS
  <2>5. (\A r : r \in low <=> r \in G /\ r < y) /\ \A r : r \in more <=> r \in G /\ r < y + d
    BY <2>1, <2>2, <2>3, <2>4
  <2>6. IsFiniteSet(more) /\ \A r \in more : share[r] \in Int
    <3>1. m + 1 \in Nat
      OBVIOUS
    <3>. QED
      BY <1>12, <2>4, <3>1
  <2>7. IsFiniteSet(low) /\ \A r \in low : share[r] \in Int
    BY <1>12, <2>3
  <2>8. SumFunctionOnSet(share, low) = u * (Clamp(y, l, h) - l)
    BY <1>14, <2>1, <2>3
  <2>9. b <= y
    <3>1. m * d \in Nat
      OBVIOUS
    <3>. QED
      BY <2>1, <3>1
  <2>. HIDE DEF RowsBelow, T
  <2>10. SumFunctionOnSet(share, more) = u * (Clamp(y + d, l, h) - l)
    <3>1. CASE y < h
      <4>1. y \in G
        BY <1>9, <2>1, <2>9, <3>1
      <4>2. y \in more
        BY <2>5, <4>1
      <4>3. ASSUME NEW r \in G, r < y + d, r # y PROVE r < y
        <5>1. PICK q \in Nat : r = b + q * d
          BY <1>9
        <5>2. q * d < (m + 1) * d
          <6>1. PICK z \in Int, w \in Int : z = q * d /\ w = (m + 1) * d
            OBVIOUS
          <6>2. b + z < b + w
            BY <2>2, <4>3, <5>1, <6>1
          <6>. QED
            BY <6>1, <6>2
        <5>3. q < m + 1
          BY <5>2, OrderIsKept
        <5>4. q # m
          BY <2>1, <4>3, <5>1
        <5>5. q + 1 <= m /\ q + 1 \in Int /\ m \in Int /\ d \in Nat
          BY <5>3, <5>4
        <5>6. (q + 1) * d <= m * d
          BY <5>5, TimesKeepsOrder
        <5>7. PICK z \in Int, w \in Int : z = q * d /\ w = m * d
          OBVIOUS
        <5>8. (q + 1) * d = z + d
          BY <5>7
        <5>. QED
          BY <2>1, <5>1, <5>6, <5>7, <5>8
      <4>4. more \ {y} = low
        <5>1. \A r \in G : r \in Int
          BY <1>9
        <5>2. \A r \in G : r < y => r < y + d /\ r # y
          BY <5>1
        <5>3. \A r \in G : r \in more /\ r # y <=> r \in low
          BY <2>5, <4>3, <5>2
        <5>4. more \subseteq G /\ low \subseteq G
          BY <2>5
        <5>. QED
          BY <5>3, <5>4, Zenon
      <4>5. SumFunctionOnSet(share, more) = share[y] + SumFunctionOnSet(share, low)
        BY <2>6, <4>2, <4>4, SumSplit
      <4>6. PICK p \in Int, q \in Int : p = Clamp(y, l, h) /\ q = Clamp(y + d, l, h)
        BY DEF Clamp
      <4>7. share[y] = u * (q - p)
        BY <1>10, <4>1, <4>6
      <4>8. u * (q - p) + u * (p - l) = u * (q - l)
        OBVIOUS
      <4>. QED
        BY <2>8, <4>5, <4>6, <4>7, <4>8
    <3>2. CASE ~(y < h)
      <4>1. more = low
        BY <1>9, <2>5, <3>2
      <4>2. Clamp(y, l, h) = h /\ Clamp(y + d, l, h) = h
        BY <1>4, <3>2 DEF Clamp
      <4>. QED
        BY <2>8, <4>1, <4>2
    <3>. QED
      BY <3>1, <3>2
  <2>11. m + 1 \in Nat
    OBVIOUS
  <2>. QED
    BY <2>2, <2>4, <2>10, <2>11 DEF T
<1>15. PICK m \in Nat : m = h - b
  BY <1>4
<1>16. m \in T
  <2>. HIDE DEF T
  <2>. QED
    BY <1>13, <1>14, AllNumbers
<1>17. b + m * d >= h
  <2>1. 1 <= d /\ 1 \in Int /\ d \in Int /\ m \in Nat
    OBVIOUS
  <2>2. 1 * m <= d * m
    BY <2>1, TimesKeepsOrder
  <2>3. PICK z \in Int : z = m * d
    OBVIOUS
  <2>4. d * m = z /\ 1 * m = m
    BY <2>3
  <2>. QED
    BY <1>15, <2>2, <2>3, <2>4
<1>18. RowsBelow(m) = G
  <2>1. PICK z \in Int : z = m * d
    OBVIOUS
  <2>. QED
    BY <1>9, <1>17, <2>1
<1>19. Clamp(b + m * d, l, h) = h
  <2>1. PICK z \in Int : z = b + m * d
    OBVIOUS
  <2>. QED
    BY <1>4, <1>17, <2>1 DEF Clamp
<1>20. SumFunctionOnSet(share, G) = u * (h - l)
  <2>. HIDE DEF RowsBelow
  <2>. QED
    BY <1>16, <1>18, <1>19
<1>21. Width(c) = h - l
  BY <1>1, GridIs
<1>. QED
  BY <1>5, <1>7, <1>8, <1>10, <1>11, <1>20, <1>21

(* At most one row more than MaxLevels. *)
LEMMA RowsBounded ==
  ASSUME NEW c \in ChartCandle, c.l < c.h
  PROVE  Cardinality(GridRows(c)) <= MaxLevels + 1
<1>1. PICK h \in Int, l \in Int, d \in Nat \ {0}, b \in Int, e \in Nat :
        h = At(c.h) /\ l = At(c.l) /\ d = LevelSize(c) /\ b = Bottom(c) /\ e = MaxLevels
  BY GridIs, BottomIs, ClusterAssumption
<1>2. PICK w \in Int : w = d * e
  OBVIOUS
<1>3. h - l <= w /\ l < b + d
  BY <1>1, <1>2, GridIs, BottomIs
<1>4. PICK G : G = GridRows(c)
  OBVIOUS
<1>5. \A r : r \in G <=> r \in Int /\ b <= r /\ r < h /\ \E q \in Nat : r = b + q * d
  BY <1>1, <1>4, RowsAre
<1>6. ASSUME NEW r \in G PROVE \E q \in 0 .. e : r = b + q * d
  <2>1. PICK q \in Nat : r = b + q * d /\ r < h
    BY <1>5, <1>6
  <2>2. PICK x \in Int : x = q * d
    OBVIOUS
  <2>3. x < w + d
    BY <1>3, <2>1, <2>2
  <2>4. (e + 1) * d = w + d
    BY <1>2
  <2>5. q < e + 1
    <3>1. q * d < (e + 1) * d /\ q \in Int /\ e + 1 \in Int /\ d \in Nat
      BY <2>2, <2>3, <2>4
    <3>. QED
      BY <3>1, OrderIsKept
  <2>6. q \in 0 .. e
    BY <2>5
  <2>. QED
    BY <2>1, <2>6
<1>7. PICK Q : Q = {q \in 0 .. e : b + q * d \in G}
  OBVIOUS
<1>8. PICK f : f = [q \in Q |-> b + q * d]
  OBVIOUS
<1>9. f \in Surjection(Q, G)
  <2>1. f \in [Q -> G]
    BY <1>7, <1>8
  <2>2. ASSUME NEW r \in G PROVE \E q \in Q : f[q] = r
    <3>1. PICK q \in 0 .. e : r = b + q * d
      BY <1>6
    <3>2. q \in Q
      BY <1>7, <3>1
    <3>. QED
      BY <1>8, <3>1, <3>2
  <2>. QED
    BY <2>1, <2>2 DEF Surjection
<1>10. IsFiniteSet(0 .. e) /\ Cardinality(0 .. e) = e + 1
  BY FS_Interval
<1>11. IsFiniteSet(Q) /\ Cardinality(Q) <= e + 1 /\ Cardinality(Q) \in Nat
  BY <1>7, <1>10, FS_Subset, FS_CardinalityType
<1>12. Cardinality(G) <= Cardinality(Q) /\ Cardinality(G) \in Nat
  BY <1>9, <1>11, FS_Surjection, FS_CardinalityType
<1>. QED
  BY <1>1, <1>4, <1>11, <1>12

(* The two sides of a level and its total are rounded apart. *)
LEMMA SidesOff ==
  ASSUME NEW x \in Int, NEW s \in Int, NEW w \in Nat \ {0}
  PROVE  Apart(Rounds(x * s, 100 * w) + Rounds(x * (100 - s), 100 * w), Rounds(x, w)) <= 1
<1>1. PICK i \in Int, j \in Int, v \in Nat \ {0} : i = x * s /\ j = x * (100 - s) /\ v = 100 * w
  OBVIOUS
<1>2. i + j = 100 * x
  BY <1>1
<1>3. PICK a \in Int, b \in Int, t \in Int : a = Rounds(i, v) /\ b = Rounds(j, v) /\ t = Rounds(x, w)
  BY RoundsIs
<1>4. PICK wa \in Int, wb \in Int, wt \in Int : wa = w * a /\ wb = w * b /\ wt = w * t
  OBVIOUS
<1>5. v * a = 100 * wa /\ v * b = 100 * wb
  BY <1>1, <1>4
<1>6. 200 * wa <= 2 * i + v /\ 2 * i < 200 * wa + v
  <2>1. 2 * (v * a) <= 2 * i + v /\ 2 * i < 2 * (v * a) + v
    BY <1>3, RoundsIs
  <2>. QED
    BY <1>5, <2>1
<1>7. 200 * wb <= 2 * j + v /\ 2 * j < 200 * wb + v
  <2>1. 2 * (v * b) <= 2 * j + v /\ 2 * j < 2 * (v * b) + v
    BY <1>3, RoundsIs
  <2>. QED
    BY <1>5, <2>1
<1>8. 2 * wt <= 2 * x + w /\ 2 * x < 2 * wt + w
  BY <1>3, <1>4, RoundsIs
<1>9. 2 * wa + 2 * wb - 2 * wt < 3 * w + 1 /\ 2 * wt - 2 * wa - 2 * wb < 3 * w + 1
  BY <1>1, <1>2, <1>6, <1>7, <1>8
<1>10. PICK k \in Int : k = a + b - t
  OBVIOUS
<1>11. w * k = wa + wb - wt
  BY <1>4, <1>10
<1>12. k < 2 /\ -2 < k
  <2>1. PICK z \in Int : z = k * w
    OBVIOUS
  <2>2. w * k = z
    BY <2>1
  <2>3. z < 2 * w /\ (-2) * w < z
    BY <1>9, <1>11, <2>2
  <2>4. k * w < 2 * w /\ (-2) * w < k * w /\ 2 \in Int /\ -2 \in Int /\ k \in Int /\ w \in Nat
    BY <2>1, <2>3
  <2>. QED
    BY <2>4, OrderIsKept
<1>13. Apart(a + b, t) <= 1
  BY <1>10, <1>12 DEF Apart
<1>. QED
  BY <1>1, <1>3, <1>13

(* The levels of a candle show its volume, rounded. *)
LEMMA FootprintIs ==
  ASSUME NEW c \in ChartCandle, c.l < c.h
  PROVE  /\ DOMAIN Levels(c) = GridRows(c)
         /\ 2 * Apart(SumFunction([r \in GridRows(c) |-> Levels(c)[r].total]), c.volume)
              <= Cardinality(GridRows(c))
         /\ \A r \in GridRows(c) :
              Apart(Levels(c)[r].ask + Levels(c)[r].bid, Levels(c)[r].total) <= 1
<1>1. PICK G : G = GridRows(c)
  OBVIOUS
<1>2. PICK w \in Nat \ {0} : w = Width(c)
  <2>1. Width(c) \in Nat \ {0}
    BY GridIs
  <2>. QED
    BY <2>1
<1>3. PICK u \in Int : u = c.volume
  BY DEF ChartCandle
<1>4. PICK f : f = Part(c)
  OBVIOUS
<1>5. IsFiniteSet(G) /\ (\A r \in G : f[r] \in Int) /\ SumFunctionOnSet(f, G) = u * w
  BY <1>1, <1>2, <1>3, <1>4, PartsAddUp
<1>6. \A r \in G : /\ Levels(c)[r].total = Rounds(f[r], w)
                   /\ Levels(c)[r].ask = Rounds(f[r] * AskShare(c, r), 100 * w)
                   /\ Levels(c)[r].bid = Rounds(f[r] * (100 - AskShare(c, r)), 100 * w)
  BY <1>1, <1>2, <1>4 DEF Levels, Part
<1>7. ASSUME NEW r \in G
      PROVE  Apart(Levels(c)[r].ask + Levels(c)[r].bid, Levels(c)[r].total) <= 1
  <2>1. PICK s \in Int : s = AskShare(c, r)
    <3>1. AskShare(c, r) \in Int
      BY DEF AskShare
    <3>. QED
      BY <3>1
  <2>2. PICK x \in Int : x = f[r]
    BY <1>5
  <2>3. /\ Levels(c)[r].total = Rounds(x, w)
        /\ Levels(c)[r].ask = Rounds(x * s, 100 * w) /\ Levels(c)[r].bid = Rounds(x * (100 - s), 100 * w)
    BY <1>6, <2>1, <2>2
  <2>. QED
    BY <2>3, SidesOff
<1>8. PICK g : g = [r \in GridRows(c) |-> Levels(c)[r].total]
  OBVIOUS
<1>9. \A r \in G : f[r] \in Int /\ g[r] = Rounds(f[r], w)
  BY <1>1, <1>5, <1>6, <1>8
<1>10. PICK b \in Int, k \in Nat :
         /\ b = SumFunctionOnSet(g, G) /\ k = Cardinality(G)
         /\ 2 * (w * b) <= 2 * (u * w) + w * k /\ 2 * (u * w) <= 2 * (w * b) + w * k
  BY <1>5, <1>9, SumRounds
<1>11. PICK x \in Int, y \in Int, z \in Int : x = w * b /\ y = u * w /\ z = w * k
  OBVIOUS
<1>12. (2 * (b - u)) * w = 2 * x - 2 * y /\ (2 * (u - b)) * w = 2 * y - 2 * x /\ k * w = z
  BY <1>11
<1>13. (2 * (b - u)) * w <= k * w /\ (2 * (u - b)) * w <= k * w
  BY <1>10, <1>11, <1>12
<1>14. 2 * (b - u) <= k /\ 2 * (u - b) <= k
  <2>1. 2 * (b - u) \in Int /\ 2 * (u - b) \in Int /\ k \in Int
    OBVIOUS
  <2>. QED
    BY <1>13, <2>1, AtMostTimes
<1>15. 2 * Apart(b, u) <= k
  BY <1>14 DEF Apart
<1>16. SumFunction(g) = b
  <2>1. DOMAIN g = G
    BY <1>1, <1>8
  <2>. QED
    BY <1>10, <2>1, Zenon DEF SumFunction
<1>17. DOMAIN Levels(c) = GridRows(c)
  BY DEF Levels
<1>. QED
  BY <1>1, <1>3, <1>7, <1>8, <1>10, <1>15, <1>16, <1>17

----------------------------------------------------------------------------
(* What is drawn *)

(* The chart fetched last is one there is. *)
LEMMA ChartIs ==
  ASSUME FlowInv, chart # <<>>
  PROVE  Drawn(chart) /\ Len(chart) # 0
<1>1. chart \in Charts
  BY DEF FlowInv, LogTyped
<1>2. chart \in Seq(ChartCandle) /\ \A i \in DOMAIN chart : chart[i].l <= chart[i].h
  BY <1>1, ChartAssumption DEF ChartCandle
<1>3. Drawn(chart)
  BY <1>2 DEF Drawn
<1>4. Len(chart) # 0
  BY <1>2
<1>. QED
  BY <1>3, <1>4

(* What the bins show adds up to the volume, up to half a unit a bin. *)
LEMMA ShownAddsUp ==
  ASSUME NEW cs, Ranged(cs), NEW n \in Nat \ {0}
  PROVE  LET volume == SumFunction([k \in DOMAIN cs |-> cs[k].volume])
         IN 2 * Apart(VolumeIn(Shown(Profile(cs, n), OneUnit(cs, n)), 1, n), volume) <= n
<1>1. PICK v \in Int, d \in Nat \ {0} :
        v = SumFunction([k \in DOMAIN cs |-> cs[k].volume]) /\ d = OneUnit(cs, n)
  BY ProfileIs
<1>2. PICK p \in [1 .. n -> Nat] : p = Profile(cs, n)
  BY ProfileIs
<1>3. PICK a \in Int, b \in Int : a = VolumeIn(p, 1, n) /\ b = VolumeIn(Shown(p, d), 1, n)
  BY ShownIs
<1>4. a = d * v
  BY <1>1, <1>2, <1>3, ProfileIs
<1>5. 2 * (d * b) <= 2 * a + d * n /\ 2 * a <= 2 * (d * b) + d * n
  BY <1>3, ShownIs
<1>6. PICK x \in Int, y \in Int, z \in Int : x = d * b /\ y = d * v /\ z = d * n
  OBVIOUS
<1>7. (2 * (b - v)) * d = 2 * x - 2 * y /\ (2 * (v - b)) * d = 2 * y - 2 * x /\ n * d = z
  BY <1>6
<1>8. (2 * (b - v)) * d <= n * d /\ (2 * (v - b)) * d <= n * d
  BY <1>4, <1>5, <1>6, <1>7
<1>9. 2 * (b - v) <= n /\ 2 * (v - b) <= n
  <2>1. 2 * (b - v) \in Int /\ 2 * (v - b) \in Int /\ n \in Int
    OBVIOUS
  <2>. QED
    BY <1>8, <2>1, AtMostTimes
<1>10. 2 * Apart(b, v) <= n
  BY <1>9 DEF Apart
<1>. QED
  BY <1>1, <1>2, <1>3, <1>10

(* Footprint and profile lose no volume and make none up, but for the      *)
(* rounding of what they show, whatever the candles, the height of the     *)
(* levels and the number of bins (footprintEngine computeBar,              *)
(* volumeProfileEngine buildVolumeProfile).                                *)
THEOREM ChartsKeepTheVolume == FlowSpec => []VolumeConserved
<1>1. FlowInv => VolumeConserved
  <2>. SUFFICES ASSUME FlowInv PROVE VolumeConserved
    OBVIOUS
  <2>1. ASSUME NEW c \in Range(chart), c.h > c.l
        PROVE  LET levels == Levels(c)
                   rows   == DOMAIN levels
               IN /\ Cardinality(rows) <= MaxLevels + 1
                  /\ 2 * Apart(SumFunction([r \in rows |-> levels[r].total]), c.volume) <= Cardinality(rows)
                  /\ \A r \in rows : Apart(levels[r].ask + levels[r].bid, levels[r].total) <= 1
    <3>1. PICK i \in DOMAIN chart : c = chart[i]
      BY <2>1 DEF Range
    <3>2. chart # <<>>
      BY <3>1
    <3>3. c \in ChartCandle
      BY <3>1, <3>2, ChartIs DEF Drawn
    <3>4. c.l < c.h
      BY <2>1, <3>3 DEF ChartCandle
    <3>5. DOMAIN Levels(c) = GridRows(c)
      BY <3>3, <3>4, FootprintIs
    <3>. QED
      BY <3>3, <3>4, <3>5, FootprintIs, RowsBounded
  <2>2. ASSUME NEW n \in BinCounts, chart # <<>>, Highest(chart) > Lowest(chart)
        PROVE  LET volume == SumFunction([k \in DOMAIN chart |-> chart[k].volume])
                   p      == Profile(chart, n)
               IN /\ VolumeIn(p, 1, n) = OneUnit(chart, n) * volume
                  /\ 2 * Apart(VolumeIn(Shown(p, OneUnit(chart, n)), 1, n), volume) <= n
    <3>1. Drawn(chart) /\ Len(chart) # 0
      BY <2>2, ChartIs
    <3>2. Lowest(chart) < Highest(chart)
      BY <2>2, <3>1, RangeIs
    <3>3. Ranged(chart) /\ n \in Nat \ {0}
      BY <3>1, <3>2, ClusterAssumption DEF Ranged
    <3>. QED
      BY <3>3, ProfileIs, ShownAddsUp
  <2>. QED
    BY <2>1, <2>2 DEF VolumeConserved
<1>. QED
  BY FlowInductive, <1>1, PTL

(* The volume of some bins is a number. *)
LEMMA VolumeIsInt ==
  ASSUME NEW n \in Nat \ {0}, NEW p \in [1 .. n -> Nat], NEW lo \in 1 .. n + 1, NEW hi \in 0 .. n
  PROVE  VolumeIn(p, lo, hi) \in Int
<1>1. PICK N : N = lo .. hi
  OBVIOUS
<1>2. IsFiniteSet(N) /\ N \subseteq 1 .. n
  BY <1>1, FS_Interval
<1>3. \A i \in N : p[i] \in Nat
  BY <1>2
<1>. QED
  BY <1>1, <1>2, <1>3, SumNatural DEF VolumeIn

(* How far from 70 percent of the volume an area may be that is enough, or *)
(* is not, by what is shown.                                               *)
LEMMA EnoughIs ==
  ASSUME NEW n \in Nat \ {0}, NEW p \in [1 .. n -> Nat], NEW d \in Nat \ {0},
         NEW lo \in 1 .. n + 1, NEW hi \in 0 .. n
  PROVE  LET w == d * Rounds(p[Poc(p)], d) - p[Poc(p)]
             y == d * VolumeIn(Shown(p, d), 1, n)
             slack == (7 * n + 10) * d
         IN /\ Enough(p, w, y, lo, hi) => 20 * VolumeIn(p, lo, hi) + slack >= 14 * VolumeIn(p, 1, n)
            /\ ~Enough(p, w, y, lo, hi) => 20 * VolumeIn(p, lo, hi) < 14 * VolumeIn(p, 1, n) + slack
<1>1. PICK g \in Nat : g = p[Poc(p)]
  BY PocIs
<1>2. PICK q \in Int : q = Rounds(g, d) /\ 2 * (d * q) <= 2 * g + d /\ 2 * g < 2 * (d * q) + d
  <2>1. g \in Int
    OBVIOUS
  <2>. QED
    BY <2>1, RoundsIs
<1>3. PICK a \in Int, b \in Int : /\ a = VolumeIn(p, 1, n) /\ b = VolumeIn(Shown(p, d), 1, n)
                                  /\ 2 * (d * b) <= 2 * a + d * n /\ 2 * a <= 2 * (d * b) + d * n
  BY ShownIs
<1>4. PICK v \in Int : v = VolumeIn(p, lo, hi)
  BY VolumeIsInt
<1>5. PICK w \in Int, y \in Int, z \in Int : w = d * q - g /\ y = d * b /\ z = d * n
  OBVIOUS
<1>6. (7 * n + 10) * d = 7 * z + 10 * d
  BY <1>5
<1>7. 2 * w <= d /\ -d <= 2 * w
  <2>1. PICK x \in Int : x = d * q
    OBVIOUS
  <2>2. w = x - g /\ 2 * x <= 2 * g + d /\ 2 * g < 2 * x + d
    BY <1>2, <1>5, <2>1
  <2>. QED
    BY <2>2
<1>8. 2 * y <= 2 * a + z /\ 2 * a <= 2 * y + z
  BY <1>3, <1>5
<1>9. Enough(p, w, y, lo, hi) <=> 10 * (w + v) >= 7 * y
  BY <1>4 DEF Enough
<1>10. /\ 10 * (w + v) >= 7 * y => 20 * v + (7 * z + 10 * d) >= 14 * a
       /\ ~(10 * (w + v) >= 7 * y) => 20 * v < 14 * a + (7 * z + 10 * d)
  BY <1>7, <1>8
<1>. QED
  BY <1>1, <1>2, <1>3, <1>4, <1>5, <1>6, <1>9, <1>10

LEMMA SideIs ==
  ASSUME NEW n \in Nat \ {0}, NEW lo \in 1 .. n, NEW hi \in 1 .. n
  PROVE  lo \in 1 .. n + 1 /\ lo + 1 \in 1 .. n + 1 /\ hi \in 0 .. n /\ hi - 1 \in 0 .. n
<1>. QED
  OBVIOUS

LEMMA AllIsEnough ==
  ASSUME NEW n \in Nat \ {0}, NEW d \in Nat \ {0}, NEW v \in Nat
  PROVE  20 * v + (7 * n + 10) * d >= 14 * v
<1>1. PICK z \in Nat : z = n * d
  OBVIOUS
<1>2. (7 * n + 10) * d = 7 * z + 10 * d
  BY <1>1
<1>. QED
  BY <1>2

(* The value area has the greatest bin inside and 70 percent of the        *)
(* volume, and the bin it took last was needed and no smaller than the one *)
(* left out on the other side, but for the rounding (buildVolumeProfile).  *)
THEOREM AreasCoverTheVolume == FlowSpec => []ValueAreaCovers
<1>1. FlowInv => ValueAreaCovers
  <2>. SUFFICES ASSUME FlowInv, NEW n \in BinCounts, chart # <<>>, Highest(chart) > Lowest(chart),
                       NEW d, d = OneUnit(chart, n), NEW p, p = Profile(chart, n),
                       NEW lo, lo = ValueArea(p, d)[1], NEW hi, hi = ValueArea(p, d)[2],
                       NEW slack, slack = (7 * n + 10) * d, NEW due, due = 14 * VolumeIn(p, 1, n)
                PROVE  /\ Poc(p) \in lo .. hi /\ 20 * VolumeIn(p, lo, hi) + slack >= due
                       /\ lo < hi =>
                            \/ /\ lo < Poc(p) /\ 20 * VolumeIn(p, lo + 1, hi) < due + slack
                               /\ hi < n => p[lo] >= p[hi + 1]
                            \/ /\ hi > Poc(p) /\ 20 * VolumeIn(p, lo, hi - 1) < due + slack
                               /\ lo > 1 => p[hi] >= p[lo - 1]
    BY Zenon DEF ValueAreaCovers
  <2>1. Drawn(chart) /\ Len(chart) # 0
    BY ChartIs
  <2>2. Lowest(chart) < Highest(chart)
    BY <2>1, RangeIs
  <2>3. Ranged(chart) /\ n \in Nat \ {0}
    BY <2>1, <2>2, ClusterAssumption DEF Ranged
  <2>4. p \in [1 .. n -> Nat] /\ d \in Nat \ {0}
    BY <2>3, ProfileIs
  <2>5. Len(p) = n
    BY <2>3, <2>4
  <2>6. PICK w, y : /\ w = d * Rounds(p[Poc(p)], d) - p[Poc(p)]
                    /\ y = d * VolumeIn(Shown(p, d), 1, n)
    OBVIOUS
  <2>7. Covers(p, n, w, y, lo, hi) /\ Closed(p, n, w, y, lo, hi)
    BY <2>3, <2>4, <2>5, <2>6, AreaCovers
  <2>8. Poc(p) \in 1 .. n /\ lo \in 1 .. n /\ hi \in 1 .. n /\ lo <= Poc(p) /\ Poc(p) <= hi
    BY <2>3, <2>4, <2>7, PocIs DEF Covers
  <2>9. 20 * VolumeIn(p, lo, hi) + slack >= due
    <3>1. CASE Enough(p, w, y, lo, hi)
      <4>1. lo \in 1 .. n + 1 /\ hi \in 0 .. n
        BY <2>3, <2>8, SideIs
      <4>. QED
        BY <2>3, <2>4, <2>6, <3>1, <4>1, EnoughIs
    <3>2. CASE lo = 1 /\ hi = n
      <4>1. VolumeIn(p, 1, n) \in Nat
        BY <2>3, <2>4, VolumeIsNat
      <4>. QED
        BY <2>3, <2>4, <3>2, <4>1, AllIsEnough
    <3>. QED
      BY <2>7, <3>1, <3>2 DEF Closed
  <2>10. ASSUME lo < hi, ~Enough(p, w, y, lo + 1, hi) PROVE 20 * VolumeIn(p, lo + 1, hi) < due + slack
    <3>1. lo + 1 \in 1 .. n + 1 /\ hi \in 0 .. n
      BY <2>3, <2>8, SideIs
    <3>. QED
      BY <2>3, <2>4, <2>6, <2>10, <3>1, EnoughIs
  <2>11. ASSUME lo < hi, ~Enough(p, w, y, lo, hi - 1) PROVE 20 * VolumeIn(p, lo, hi - 1) < due + slack
    <3>1. lo \in 1 .. n + 1 /\ hi - 1 \in 0 .. n
      BY <2>3, <2>8, SideIs
    <3>. QED
      BY <2>3, <2>4, <2>6, <2>11, <3>1, EnoughIs
  <2>12. Poc(p) \in lo .. hi
    BY <2>3, <2>8
  <2>. QED
    BY <2>7, <2>9, <2>10, <2>11, <2>12 DEF Covers
<1>. QED
  BY FlowInductive, <1>1, PTL

(* Delta, levels and bins: the charts show the volume there was, of the    *)
(* session it belongs to, but for the rounding (cvdEngine.js,              *)
(* footprintEngine.js, volumeProfileEngine.js).                            *)
THEOREM FlowIsConserved == FlowSpec => []FlowConserved
<1>1. LiveIsItsSession /\ VolumeConserved /\ ValueAreaCovers => FlowConserved
  BY DEF FlowConserved
<1>. QED
  BY LiveDeltaIsItsSession, ChartsKeepTheVolume, AreasCoverTheVolume, <1>1, PTL

----------------------------------------------------------------------------
(* Assets                                                                  *)

(* What is cut off at the end of a list. *)
EndFrom(part, X, list, a, l) ==
  /\ part \in Seq(X) /\ Len(part) = l - a + 1
  /\ \A i \in 1 .. l - a + 1 : part[i] = list[a + i - 1]

LEMMA CutIs ==
  ASSUME NEW X, NEW list \in Seq(X), NEW l \in Nat, l = Len(list), NEW a \in 1 .. l
  PROVE  EndFrom(SubSeq(list, a, l), X, list, a, l)
<1>1. a \in Int /\ l \in Int /\ a <= l /\ \A i \in a .. l : list[i] \in X
  OBVIOUS
<1>2. /\ SubSeq(list, a, l) \in Seq(X) /\ Len(SubSeq(list, a, l)) = IF a <= l THEN l - a + 1 ELSE 0
      /\ \A i \in 1 .. l - a + 1 : SubSeq(list, a, l)[i] = list[a + i - 1]
  BY <1>1, SubSeqProperties
<1>. QED
  BY <1>1, <1>2 DEF EndFrom

(* The latest n of a list are its last n, or all of it. *)
LEMMA LatestIs ==
  ASSUME NEW X, NEW list \in Seq(X), NEW n \in Nat, n # 0
  PROVE  /\ LatestOf(list, n) \in Seq(X)
         /\ Len(LatestOf(list, n)) = IF n >= Len(list) THEN Len(list) ELSE n
         /\ \A i \in 1 .. Len(LatestOf(list, n)) :
              LatestOf(list, n)[i] = list[Len(list) - Len(LatestOf(list, n)) + i]
<1>1. PICK l \in Nat : l = Len(list)
  OBVIOUS
<1>2. CASE n >= l
  <2>1. LatestOf(list, n) = list
    BY <1>1, <1>2 DEF LatestOf
  <2>2. \A i \in 1 .. l : l - l + i = i
    OBVIOUS
  <2>. QED
    BY <1>1, <1>2, <2>1, <2>2
<1>3. CASE ~(n >= l)
  <2>1. PICK a \in 1 .. l : a = l - n + 1 /\ l - a + 1 = n
    BY <1>3
  <2>2. PICK part : part = SubSeq(list, a, l)
    OBVIOUS
  <2>3. LatestOf(list, n) = part
    BY <1>1, <1>3, <2>1, <2>2 DEF LatestOf
  <2>4. part \in Seq(X) /\ Len(part) = n /\ \A i \in 1 .. n : part[i] = list[a + i - 1]
    <3>1. EndFrom(SubSeq(list, a, l), X, list, a, l)
      BY <1>1, CutIs
    <3>. QED
      BY <2>1, <2>2, <3>1, Zenon DEF EndFrom
  <2>5. \A i \in 1 .. n : a + i - 1 = l - n + i
    BY <2>1
  <2>6. \A i \in 1 .. n : part[i] = list[l - n + i]
    BY <2>4, <2>5
  <2>. QED
    BY <1>1, <1>3, <2>3, <2>4, <2>6
<1>. QED
  BY <1>2, <1>3

LEMMA LevelsAreNumbers ==
  ASSUME NEW x \in Seq(Close)
  PROVE  \A i \in 1 .. Len(x) : x[i] \in Close /\ x[i].level \in Int /\ x[i].day \in Int
<1>1. \A i \in 1 .. Len(x) : x[i] \in Close
  OBVIOUS
<1>2. \A c \in Close : c.level \in Int /\ c.day \in Int
  BY MultiAssetAssumption DEF Close
<1>. QED
  BY <1>1, <1>2

(* The return from the close before place i to that at i. *)
StepAt(x, i) == x[i].level - x[i - 1].level

LEMMA ReturnsAre ==
  ASSUME NEW x \in Seq(Close)
  PROVE  /\ LogReturns(x) \in Seq(Int)
         /\ Len(LogReturns(x)) = IF x = <<>> THEN 0 ELSE Len(x) - 1
         /\ \A i \in 1 .. Len(x) - 1 : LogReturns(x)[i] = StepAt(x, i + 1)
<1>1. PICK n \in Nat : n = IF x = <<>> THEN 0 ELSE Len(x) - 1
  <2>1. PICK l \in Nat : l = Len(x) /\ (x # <<>> => l # 0)
    OBVIOUS
  <2>2. (IF x = <<>> THEN 0 ELSE l - 1) \in Nat
    BY <2>1
  <2>. QED
    BY <2>1, <2>2
<1>2. 1 .. Len(x) - 1 = 1 .. n
  BY <1>1
<1>3. PICK f : f = [i \in 1 .. n |-> x[i + 1].level - x[i].level]
  OBVIOUS
<1>4. LogReturns(x) = f
  BY <1>2, <1>3 DEF LogReturns
<1>5. \A i \in 1 .. n : x[i + 1].level - x[i].level \in Int /\ (i + 1) - 1 = i
  <2>. TAKE i \in 1 .. n
  <2>1. i \in 1 .. Len(x) /\ i + 1 \in 1 .. Len(x)
    BY <1>1
  <2>. QED
    BY <2>1, LevelsAreNumbers
<1>6. f \in [1 .. n -> Int]
  BY <1>3, <1>5
<1>7. f \in Seq(Int) /\ Len(f) = n
  BY <1>6
<1>8. \A i \in 1 .. n : f[i] = StepAt(x, i + 1)
  BY <1>3, <1>5 DEF StepAt
<1>. QED
  BY <1>1, <1>2, <1>4, <1>7, <1>8

(* The returns of the latest n days. *)
LatestReturns(a, x, n) == \A i \in 1 .. n : a[i] \in Int /\ a[i] = StepAt(x, Len(x) - n + i)

LEMMA StepsAreNumbers ==
  ASSUME NEW x \in Seq(Close), NEW i \in 2 .. Len(x)
  PROVE  StepAt(x, i) \in Int
<1>1. i \in 1 .. Len(x) /\ i - 1 \in 1 .. Len(x)
  OBVIOUS
<1>. QED
  BY <1>1, LevelsAreNumbers DEF StepAt

(* With a day each, the place of a close is told by its day. *)
LEMMA DaysAreCounted ==
  ASSUME NEW x \in Seq(Close), x # <<>>, Gapless(x)
  PROVE  \A i \in 1 .. Len(x) : x[i].day = Last(x).day - Len(x) + i
<1>1. PICK n \in Nat : n = Len(x) /\ n # 0
  OBVIOUS
<1>2. \A i \in 1 .. n : x[i].day \in Int
  BY <1>1, LevelsAreNumbers
<1>3. \A i \in 1 .. n - 1 : x[i + 1].day = x[i].day + 1
  BY <1>1 DEF Gapless
<1>. DEFINE T == {m \in Nat : m + 1 <= n => x[m + 1].day = x[1].day + m}
<1>4. 0 \in T
  BY <1>1, <1>2
<1>5. ASSUME NEW m \in Nat, m \in T
      PROVE  m + 1 \in T
  <2>1. ASSUME m + 2 <= n
        PROVE  x[m + 2].day = x[1].day + (m + 1)
    <3>1. m + 1 \in 1 .. n - 1 /\ 1 \in 1 .. n /\ (m + 1) + 1 = m + 2 /\ m + 1 <= n
      BY <2>1
    <3>2. x[m + 2].day = x[m + 1].day + 1
      BY <1>3, <3>1
    <3>3. x[m + 1].day = x[1].day + m
      BY <1>5, <3>1
    <3>4. PICK d \in Int : d = x[1].day
      BY <1>2, <3>1
    <3>5. x[m + 1].day = d + m
      BY <3>3, <3>4
    <3>6. x[m + 2].day = (d + m) + 1
      BY <3>2, <3>5, Zenon
    <3>7. (d + m) + 1 = d + (m + 1)
      OBVIOUS
    <3>. QED
      BY <3>4, <3>6, <3>7, Zenon
  <2>. QED
    BY <2>1
<1>. HIDE DEF T
<1>6. \A m \in Nat : m \in T
  BY <1>4, <1>5, AllNumbers
<1>7. \A i \in 1 .. n : x[i].day = x[1].day + (i - 1)
  <2>. TAKE i \in 1 .. n
  <2>1. i - 1 \in Nat /\ (i - 1) + 1 = i /\ i <= n
    OBVIOUS
  <2>2. i - 1 \in T
    BY <1>6, <2>1
  <2>. QED
    BY <2>1, <2>2 DEF T
<1>8. PICK d \in Int : d = x[1].day
  <2>1. 1 \in 1 .. n
    BY <1>1
  <2>. QED
    BY <1>2, <2>1
<1>9. \A i \in 1 .. n : x[i].day = d + (i - 1)
  BY <1>7, <1>8, Zenon
<1>10. PICK e \in Int : e = Last(x).day /\ e = d + (n - 1)
  <2>1. Last(x) = x[n] /\ n \in 1 .. n
    BY <1>1 DEF Last
  <2>2. Last(x).day = d + (n - 1) /\ d + (n - 1) \in Int
    BY <1>9, <2>1
  <2>. QED
    BY <2>2
<1>11. ASSUME NEW i \in 1 .. n
       PROVE  x[i].day = Last(x).day - n + i
  <2>1. PICK v \in Int : v = x[i].day
    BY <1>2
  <2>2. v = d + (i - 1)
    BY <1>9, <2>1
  <2>3. v = e - n + i
    BY <1>10, <2>2
  <2>. QED
    BY <1>10, <2>1, <2>3
<1>. QED
  BY <1>1, <1>11

(* So a day's return is the step at its place. *)
LEMMA ReturnOfDay ==
  ASSUME NEW x \in Seq(Close), x # <<>>, Gapless(x)
  PROVE  /\ \A i \in 1 .. Len(x) : LevelOn(x, x[i].day) = x[i].level
         /\ \A i \in 2 .. Len(x) : DayReturn(x, Last(x).day - Len(x) + i) = StepAt(x, i)
<1>1. PICK n \in Nat : n = Len(x) /\ n # 0
  OBVIOUS
<1>2. PICK z \in Int : z = Last(x).day - n
  <2>1. Last(x).day \in Int
    BY <1>1, LevelsAreNumbers DEF Last
  <2>. QED
    BY <2>1
<1>3. \A i \in 1 .. n : x[i].day = z + i
  <2>1. \A i \in 1 .. n : x[i].day = Last(x).day - n + i
    BY <1>1, DaysAreCounted
  <2>. QED
    BY <1>2, <2>1
<1>4. ASSUME NEW i \in 1 .. n
      PROVE  LevelOn(x, z + i) = x[i].level
  <2>1. \A c \in Range(x) : \E j \in 1 .. n : c = x[j]
    BY <1>1 DEF Range
  <2>2. \A c \in Range(x) : c.day = z + i => c = x[i]
    <3>. TAKE c \in Range(x)
    <3>. HAVE c.day = z + i
    <3>1. PICK j \in 1 .. n : c = x[j]
      BY <2>1
    <3>2. j = i
      BY <1>3, <3>1
    <3>. QED
      BY <3>1, <3>2
  <2>3. x[i] \in Range(x) /\ x[i].day = z + i
    BY <1>1, <1>3 DEF Range
  <2>4. (CHOOSE c \in Range(x) : c.day = z + i) = x[i]
    BY <2>2, <2>3
  <2>. QED
    BY <2>4 DEF LevelOn
<1>5. \A i \in 1 .. n : LevelOn(x, x[i].day) = x[i].level
  BY <1>3, <1>4
<1>6. ASSUME NEW i \in 2 .. n
      PROVE  DayReturn(x, z + i) = StepAt(x, i)
  <2>1. i \in 1 .. n /\ i - 1 \in 1 .. n /\ (z + i) - 1 = z + (i - 1)
    OBVIOUS
  <2>2. LevelOn(x, z + i) = x[i].level /\ LevelOn(x, z + (i - 1)) = x[i - 1].level
    BY <1>4, <2>1
  <2>. QED
    BY <2>1, <2>2 DEF DayReturn, StepAt
<1>. QED
  BY <1>1, <1>2, <1>5, <1>6

(* A close a day, up to whatever day. *)
Daily(x) == x # <<>> /\ Gapless(x)

(* Sums over the latest days are sums over the latest returns. *)
LEMMA SumsByDays ==
  ASSUME NEW x \in Seq(Close), NEW y \in Seq(Close), Daily(x), Daily(y), NEW n \in Nat,
         n < Len(x), n < Len(y), NEW a, LatestReturns(a, x, n), NEW b, LatestReturns(b, y, n)
  PROVE  DayCov(x, y, n) = n * Sum2(a, b, n) - Sum1(a, n) * Sum1(b, n)
<1>1. ASSUME NEW w \in Seq(Close), Daily(w)
      PROVE  Last(w).day \in Int
  <2>1. Len(w) \in 1 .. Len(w)
    BY <1>1 DEF Daily
  <2>. QED
    BY <2>1, LevelsAreNumbers DEF Last
<1>2. PICK z \in Int : z = Last(x).day
  BY <1>1
<1>3. PICK t \in Int : t = Last(y).day
  BY <1>1
<1>4. PICK lag \in Int : lag = t - z
  OBVIOUS
<1>5. PICK k \in Int : k = z - n
  OBVIOUS
<1>6. LatestDays(x, n) = k + 1 .. k + n
  BY <1>2, <1>5 DEF LatestDays
<1>7. ASSUME NEW i \in 1 .. n
      PROVE  DayReturn(x, k + i) = a[i] /\ DayReturn(y, (k + i) + lag) = b[i] /\ a[i] \in Int /\ b[i] \in Int
  <2>1. ASSUME NEW w \in Seq(Close), Daily(w), NEW e \in Int, Last(w).day = e, n < Len(w), NEW c, LatestReturns(c, w, n)
        PROVE  DayReturn(w, e - n + i) = c[i] /\ c[i] \in Int
    <3>1. PICK l \in Nat : l = Len(w)
      OBVIOUS
    <3>2. l - n + i \in 2 .. l /\ e - l + (l - n + i) = e - n + i
      BY <2>1, <3>1
    <3>3. DayReturn(w, e - l + (l - n + i)) = StepAt(w, l - n + i)
      BY <2>1, <3>1, <3>2, ReturnOfDay DEF Daily
    <3>4. c[i] = StepAt(w, l - n + i) /\ c[i] \in Int
      BY <2>1, <3>1 DEF LatestReturns
    <3>. QED
      BY <3>2, <3>3, <3>4
  <2>2. z - n + i = k + i /\ t - n + i = (k + i) + lag
    BY <1>4, <1>5
  <2>3. DayReturn(x, z - n + i) = a[i] /\ a[i] \in Int
    BY <1>2, <2>1
  <2>4. DayReturn(y, t - n + i) = b[i] /\ b[i] \in Int
    BY <1>3, <2>1
  <2>. QED
    BY <2>2, <2>3, <2>4, Zenon
<1>8. PICK S : S = k + 1 .. k + n
  OBVIOUS
<1>9. \A i \in 1 .. n : k + i \in S
  BY <1>8
<1>10. PICK both : both = [d \in S |-> DayReturn(x, d) * DayReturn(y, d + lag)]
  OBVIOUS
<1>11. PICK ones : ones = [d \in S |-> DayReturn(x, d)]
  OBVIOUS
<1>12. PICK others : others = [d \in S |-> DayReturn(y, d + lag)]
  OBVIOUS
<1>13. DayCov(x, y, n) = n * SumFunctionOnSet(both, S) - SumFunctionOnSet(ones, S) * SumFunctionOnSet(others, S)
  BY <1>2, <1>3, <1>4, <1>6, <1>8, <1>10, <1>11, <1>12 DEF DayCov, SumFunction
<1>14. PICK ab : ab = [i \in 1 .. n |-> a[i] * b[i]]
  OBVIOUS
<1>15. Sum2(a, b, n) = SumFunctionOnSet(ab, 1 .. n)
  BY <1>14 DEF Sum2, SumFunction
<1>16. \A i \in 1 .. n : ab[i] \in Int /\ both[k + i] = ab[i]
  BY <1>7, <1>9, <1>10, <1>14
<1>17. \A i \in 1 .. n : a[i] \in Int /\ ones[k + i] = a[i]
  BY <1>7, <1>9, <1>11
<1>18. \A i \in 1 .. n : b[i] \in Int /\ others[k + i] = b[i]
  BY <1>7, <1>9, <1>12
<1>19. SumFunctionOnSet(both, S) = SumFunctionOnSet(ab, 1 .. n)
  BY <1>8, <1>16, SumShifted
<1>20. SumFunctionOnSet(ones, S) = SumFunctionOnSet(a, 1 .. n)
  BY <1>8, <1>17, SumShifted
<1>21. SumFunctionOnSet(others, S) = SumFunctionOnSet(b, 1 .. n)
  BY <1>8, <1>18, SumShifted
<1>. QED
  BY <1>13, <1>15, <1>19, <1>20, <1>21, Zenon DEF Sum1

(* What is paired by place is paired by day. *)
LEMMA CovByDays ==
  ASSUME NEW x \in Seq(Close), NEW y \in Seq(Close), Daily(x), Daily(y), NEW n \in Nat \ {0, 1},
         n < Len(x), n < Len(y), NEW a, LatestReturns(a, x, n), NEW b, LatestReturns(b, y, n)
  PROVE  Cov(a, b, n) = DayCov(x, y, n) /\ Cov(a, a, n) = DayCov(x, x, n) /\ Cov(b, b, n) = DayCov(y, y, n)
<1>1. ~(n < 2) /\ n \in Nat
  OBVIOUS
<1>2. Cov(a, b, n) = n * Sum2(a, b, n) - Sum1(a, n) * Sum1(b, n)
  BY <1>1 DEF Cov
<1>3. Cov(a, a, n) = n * Sum2(a, a, n) - Sum1(a, n) * Sum1(a, n)
  BY <1>1 DEF Cov
<1>4. Cov(b, b, n) = n * Sum2(b, b, n) - Sum1(b, n) * Sum1(b, n)
  BY <1>1 DEF Cov
<1>5. DayCov(x, y, n) = n * Sum2(a, b, n) - Sum1(a, n) * Sum1(b, n)
  BY <1>1, SumsByDays
<1>6. DayCov(x, x, n) = n * Sum2(a, a, n) - Sum1(a, n) * Sum1(a, n)
  BY <1>1, SumsByDays
<1>7. DayCov(y, y, n) = n * Sum2(b, b, n) - Sum1(b, n) * Sum1(b, n)
  BY <1>1, SumsByDays
<1>. QED
  BY <1>2, <1>3, <1>4, <1>5, <1>6, <1>7, Zenon

LEMMA PearsonByDays ==
  ASSUME NEW x \in Seq(Close), NEW y \in Seq(Close), Daily(x), Daily(y), NEW n \in Nat \ {0, 1},
         n < Len(x), n < Len(y), NEW a, LatestReturns(a, x, n), Len(a) = n, NEW b, LatestReturns(b, y, n), Len(b) = n
  PROVE  Pearson(a, b) = DayCorrelation(x, y, n)
<1>1. Shorter(a, b) = n
  BY MinOfTwo DEF Shorter
<1>2. Cov(a, b, n) = DayCov(x, y, n) /\ Cov(a, a, n) = DayCov(x, x, n) /\ Cov(b, b, n) = DayCov(y, y, n)
  BY CovByDays
<1>3. ~(n < 2)
  OBVIOUS
<1>. QED
  BY <1>1, <1>2, <1>3 DEF Pearson, DayCorrelation

(* The latest of the latest returns are the latest returns. *)
LEMMA LatestOfReturns ==
  ASSUME NEW x \in Seq(Close), x # <<>>, NEW W \in Nat, W # 0
  PROVE  LET r == LatestOf(LogReturns(x), W)
         IN  /\ r \in Seq(Int) /\ Len(r) = IF W >= Len(x) - 1 THEN Len(x) - 1 ELSE W
             /\ LatestReturns(r, x, Len(r))
<1>1. PICK r : r = LatestOf(LogReturns(x), W)
  OBVIOUS
<1>2. PICK all \in Seq(Int) : all = LogReturns(x)
  BY ReturnsAre
<1>3. PICK n \in Nat : n = Len(x) - 1 /\ Len(x) = n + 1 /\ Len(all) = n
  <2>1. PICK l \in Nat : l = Len(x) /\ l # 0
    OBVIOUS
  <2>2. l - 1 \in Nat /\ l = (l - 1) + 1
    BY <2>1
  <2>. QED
    BY <1>2, <2>1, <2>2, ReturnsAre
<1>4. \A i \in 1 .. n : all[i] = StepAt(x, i + 1) /\ all[i] \in Int
  BY <1>2, <1>3, ReturnsAre
<1>5. PICK m \in Nat : m = IF W >= n THEN n ELSE W
  OBVIOUS
<1>6. r \in Seq(Int) /\ Len(r) = m /\ \A i \in 1 .. m : r[i] = all[n - m + i]
  <2>1. PICK part : part = LatestOf(all, W)
    OBVIOUS
  <2>2. /\ part \in Seq(Int) /\ Len(part) = IF W >= Len(all) THEN Len(all) ELSE W
        /\ \A i \in 1 .. Len(part) : part[i] = all[Len(all) - Len(part) + i]
    BY <2>1, LatestIs, Zenon
  <2>3. Len(part) = m
    BY <1>3, <1>5, <2>2
  <2>4. r = part
    BY <1>1, <1>2, <2>1
  <2>5. \A i \in 1 .. m : part[i] = all[n - m + i]
    BY <1>3, <2>2, <2>3, Zenon
  <2>. QED
    BY <2>2, <2>3, <2>4, <2>5, Zenon
<1>7. ASSUME NEW i \in 1 .. m
      PROVE  r[i] \in Int /\ r[i] = StepAt(x, Len(x) - m + i)
  <2>1. n - m + i \in 1 .. n /\ (n - m + i) + 1 = Len(x) - m + i
    BY <1>3, <1>5
  <2>. QED
    BY <1>4, <1>6, <2>1
<1>8. LatestReturns(r, x, m)
  BY <1>7 DEF LatestReturns
<1>. QED
  BY <1>1, <1>3, <1>5, <1>6, <1>8

LEMMA LatestOfLatest ==
  ASSUME NEW x \in Seq(Close), NEW r \in Seq(Int), LatestReturns(r, x, Len(r)), NEW n \in Nat, n # 0, n <= Len(r)
  PROVE  Len(LatestOf(r, n)) = n /\ LatestReturns(LatestOf(r, n), x, n)
<1>1. PICK l \in Nat : l = Len(r)
  OBVIOUS
<1>2. PICK a : a = LatestOf(r, n)
  OBVIOUS
<1>3. Len(a) = n /\ \A i \in 1 .. n : a[i] = r[l - n + i]
  <2>1. (IF n >= Len(r) THEN Len(r) ELSE n) = n
    BY <1>1
  <2>2. /\ Len(a) = IF n >= Len(r) THEN Len(r) ELSE n
        /\ \A i \in 1 .. Len(a) : a[i] = r[Len(r) - Len(a) + i]
    BY <1>2, LatestIs, Zenon
  <2>3. Len(a) = n
    BY <2>1, <2>2
  <2>. QED
    BY <1>1, <2>2, <2>3
<1>4. PICK z \in Nat : z = Len(x)
  OBVIOUS
<1>5. ASSUME NEW i \in 1 .. n
      PROVE  a[i] \in Int /\ a[i] = StepAt(x, z - n + i)
  <2>1. l - n + i \in 1 .. l /\ z - l + (l - n + i) = z - n + i
    BY <1>1, <1>4
  <2>2. r[l - n + i] \in Int /\ r[l - n + i] = StepAt(x, z - l + (l - n + i))
    BY <1>1, <1>4, <2>1 DEF LatestReturns
  <2>. QED
    BY <1>3, <2>1, <2>2
<1>. QED
  BY <1>2, <1>3, <1>4, <1>5 DEF LatestReturns

(* The least of some numbers is one of them. *)
LEMMA MinOfSome ==
  ASSUME NEW S \in SUBSET Nat, S # {}
  PROVE  Min(S) \in S /\ \A k \in S : Min(S) <= k
<1>1. PICK m \in S : \A k \in S : m <= k
  BY LeastOf
<1>2. Min(S) = m
  <2>1. S \in SUBSET Int
    OBVIOUS
  <2>. QED
    BY <1>1, <2>1, MinIs
<1>. QED
  BY <1>1, <1>2

(* A pair of the matrix is the correlation over days. *)
DaysOfBoth(x, y, W) == DayCorrelation(x, y, Min({W, Len(x) - 1, Len(y) - 1}))

LEMMA PairByDays ==
  ASSUME NEW closes, NEW a, NEW b, closes[a] \in Seq(Close), closes[b] \in Seq(Close),
         Daily(closes[a]), Daily(closes[b]), NEW W \in Nat, W # 0
  PROVE  PairEntry(closes, W, a, b) = DaysOfBoth(closes[a], closes[b], W)
<1>. PICK x \in Seq(Close) : x = closes[a]
  OBVIOUS
<1>. PICK y \in Seq(Close) : y = closes[b]
  OBVIOUS
<1>1. x # <<>> /\ y # <<>>
  BY DEF Daily
<1>2. PICK rA : rA = LatestOf(LogReturns(x), W)
  OBVIOUS
<1>3. PICK rB : rB = LatestOf(LogReturns(y), W)
  OBVIOUS
<1>4. PICK i \in Nat : i = Len(x) - 1
  <2>1. PICK l \in Nat : l = Len(x) /\ l # 0
    BY <1>1
  <2>2. l - 1 \in Nat
    BY <2>1
  <2>. QED
    BY <2>1, <2>2
<1>5. PICK j \in Nat : j = Len(y) - 1
  <2>1. PICK l \in Nat : l = Len(y) /\ l # 0
    BY <1>1
  <2>2. l - 1 \in Nat
    BY <2>1
  <2>. QED
    BY <2>1, <2>2
<1>6. rA \in Seq(Int) /\ Len(rA) = (IF W >= i THEN i ELSE W) /\ LatestReturns(rA, x, Len(rA))
  BY <1>1, <1>2, <1>4, LatestOfReturns, Zenon
<1>7. rB \in Seq(Int) /\ Len(rB) = (IF W >= j THEN j ELSE W) /\ LatestReturns(rB, y, Len(rB))
  BY <1>1, <1>3, <1>5, LatestOfReturns, Zenon
<1>8. PICK n : n = Min({W, i, j})
  OBVIOUS
<1>9. n \in Nat /\ n <= W /\ n <= i /\ n <= j /\ n \in {W, i, j}
  BY <1>8, MinOfSome
<1>10. Shorter(rA, rB) = n
  <2>1. PICK p \in Nat : p = Len(rA) /\ p = IF W >= i THEN i ELSE W
    BY <1>6
  <2>2. PICK q \in Nat : q = Len(rB) /\ q = IF W >= j THEN j ELSE W
    BY <1>7
  <2>3. Min({p, q}) = IF p <= q THEN p ELSE q
    BY MinOfTwo
  <2>4. (IF p <= q THEN p ELSE q) = n
    BY <1>9, <2>1, <2>2
  <2>. QED
    BY <2>1, <2>2, <2>3, <2>4 DEF Shorter
<1>11. n <= Len(rA) /\ n <= Len(rB) /\ n < Len(x) /\ n < Len(y)
  <2>1. PICK p \in Nat : p = Len(rA) /\ p = IF W >= i THEN i ELSE W
    BY <1>6
  <2>2. PICK q \in Nat : q = Len(rB) /\ q = IF W >= j THEN j ELSE W
    BY <1>7
  <2>3. PICK l \in Nat : l = Len(x)
    OBVIOUS
  <2>4. PICK m \in Nat : m = Len(y)
    OBVIOUS
  <2>5. i = l - 1 /\ j = m - 1
    BY <1>4, <1>5, <2>3, <2>4
  <2>6. n <= p /\ n <= q /\ n < l /\ n < m
    BY <1>9, <2>1, <2>2, <2>5
  <2>. QED
    BY <2>1, <2>2, <2>3, <2>4, <2>6
<1>12. PairEntry(closes, W, a, b) = IF n < 2 THEN Missing ELSE Pearson(LatestOf(rA, n), LatestOf(rB, n))
  BY <1>2, <1>3, <1>10 DEF PairEntry
<1>13. ASSUME n < 2
       PROVE  PairEntry(closes, W, a, b) = DayCorrelation(x, y, n)
  BY <1>12, <1>13 DEF DayCorrelation
<1>14. ASSUME ~(n < 2)
       PROVE  PairEntry(closes, W, a, b) = DayCorrelation(x, y, n)
  <2>1. n \in Nat \ {0, 1} /\ n # 0
    BY <1>9, <1>14
  <2>2. Len(LatestOf(rA, n)) = n /\ LatestReturns(LatestOf(rA, n), x, n)
    BY <1>6, <1>9, <1>11, <2>1, LatestOfLatest
  <2>3. Len(LatestOf(rB, n)) = n /\ LatestReturns(LatestOf(rB, n), y, n)
    BY <1>7, <1>9, <1>11, <2>1, LatestOfLatest
  <2>4. Pearson(LatestOf(rA, n), LatestOf(rB, n)) = DayCorrelation(x, y, n)
    BY <1>11, <2>1, <2>2, <2>3, PearsonByDays
  <2>. QED
    BY <1>12, <1>14, <2>4
<1>15. DaysOfBoth(x, y, W) = DayCorrelation(x, y, n)
  BY <1>4, <1>5, <1>8 DEF DaysOfBoth
<1>16. PairEntry(closes, W, a, b) = DaysOfBoth(x, y, W)
  BY <1>13, <1>14, <1>15
<1>. QED
  BY <1>16

(* All returns are the latest ones. *)
LEMMA AllReturns ==
  ASSUME NEW x \in Seq(Close), x # <<>>
  PROVE  LatestReturns(LogReturns(x), x, Len(LogReturns(x)))
<1>1. PICK l \in Nat : l = Len(x) /\ l # 0
  OBVIOUS
<1>2. PICK r \in Seq(Int) : r = LogReturns(x) /\ Len(r) = l - 1 /\ \A i \in 1 .. l - 1 : r[i] = StepAt(x, i + 1)
  BY <1>1, ReturnsAre
<1>3. ASSUME NEW i \in 1 .. l - 1
      PROVE  r[i] \in Int /\ r[i] = StepAt(x, l - (l - 1) + i)
  <2>1. l - (l - 1) + i = i + 1
    BY <1>1
  <2>. QED
    BY <1>2, <2>1
<1>. QED
  BY <1>1, <1>2, <1>3 DEF LatestReturns

(* The first m closes, and the window of returns that ends with them.      *)
EndsFirst(a, f, x, m, W) ==
  /\ f \in Seq(Close) /\ Len(f) = m /\ (Gapless(x) => Daily(f))
  /\ a \in Seq(Int) /\ Len(a) = W /\ LatestReturns(a, f, W)

LEMMA WindowOfFirst ==
  ASSUME NEW x \in Seq(Close), NEW m \in Nat, m <= Len(x), NEW W \in Nat, W # 0, W < m
  PROVE  EndsFirst(SubSeq(LogReturns(x), (m - 1) - W + 1, m - 1), FirstCloses(x, m), x, m, W)
<1>1. PICK l \in Nat : l = Len(x) /\ m <= l /\ x # <<>>
  OBVIOUS
<1>2. PICK f : f = FirstCloses(x, m)
  OBVIOUS
<1>3. f \in Seq(Close) /\ Len(f) = m /\ \A i \in 1 .. m : f[i] = x[i]
  <2>1. 1 \in 1 .. l /\ 1 <= m /\ \A i \in 1 .. m : x[i] \in Close
    BY <1>1
  <2>2. /\ SubSeq(x, 1, m) \in Seq(Close) /\ Len(SubSeq(x, 1, m)) = IF 1 <= m THEN m - 1 + 1 ELSE 0
        /\ \A i \in 1 .. m - 1 + 1 : SubSeq(x, 1, m)[i] = x[1 + i - 1]
    BY <2>1, SubSeqProperties
  <2>3. m - 1 + 1 = m /\ \A i \in 1 .. m : 1 + i - 1 = i
    OBVIOUS
  <2>. QED
    BY <1>2, <2>1, <2>2, <2>3 DEF FirstCloses
<1>4. ASSUME Gapless(x)
      PROVE  Daily(f)
  <2>1. \A i \in 1 .. m - 1 : i \in 1 .. l - 1 /\ i \in 1 .. m /\ i + 1 \in 1 .. m
    BY <1>1
  <2>2. \A i \in 1 .. m - 1 : f[i + 1].day = f[i].day + 1
    BY <1>1, <1>3, <1>4, <2>1 DEF Gapless
  <2>3. f # <<>>
    BY <1>3
  <2>. QED
    BY <1>3, <2>2, <2>3 DEF Daily, Gapless
<1>5. PICK r \in Seq(Int) : r = LogReturns(x) /\ Len(r) = l - 1 /\ \A i \in 1 .. l - 1 : r[i] = StepAt(x, i + 1)
  BY <1>1, ReturnsAre
<1>6. PICK n \in Nat : n = m - 1 /\ m = n + 1 /\ W <= n /\ n <= l - 1
  <2>1. m - 1 \in Nat /\ m = (m - 1) + 1 /\ W <= m - 1 /\ m - 1 <= l - 1
    BY <1>1
  <2>. QED
    BY <2>1
<1>7. PICK a : a = SubSeq(r, n - W + 1, n)
  OBVIOUS
<1>8. \A i \in 1 .. l - 1 : r[i] \in Int
  <2>1. PICK e \in Nat : e = Len(r)
    OBVIOUS
  <2>2. \A i \in 1 .. e : r[i] \in Int
    BY <2>1
  <2>. QED
    BY <1>5, <2>1, <2>2
<1>9. a \in Seq(Int) /\ Len(a) = W /\ \A i \in 1 .. W : a[i] = r[(n - W + 1) + i - 1]
  <2>1. PICK c \in Int : c = n - W + 1
    OBVIOUS
  <2>2. c <= n /\ n - c + 1 = W /\ \A i \in c .. n : i \in 1 .. l - 1
    BY <1>6, <2>1
  <2>3. \A i \in c .. n : r[i] \in Int
    BY <1>8, <2>2
  <2>4. /\ SubSeq(r, c, n) \in Seq(Int) /\ Len(SubSeq(r, c, n)) = IF c <= n THEN n - c + 1 ELSE 0
        /\ \A i \in 1 .. n - c + 1 : SubSeq(r, c, n)[i] = r[c + i - 1]
    BY <2>3, SubSeqProperties
  <2>. QED
    BY <1>7, <2>1, <2>2, <2>4
<1>10. ASSUME NEW i \in 1 .. W
       PROVE  a[i] \in Int /\ a[i] = StepAt(f, m - W + i)
  <2>1. PICK j \in Int : j = (n - W + 1) + i - 1
    OBVIOUS
  <2>2. j \in 1 .. l - 1 /\ j + 1 = m - W + i /\ j + 1 \in 1 .. m /\ (j + 1) - 1 \in 1 .. m
    BY <1>1, <1>6, <2>1
  <2>3. r[j] \in Int /\ r[j] = StepAt(x, j + 1)
    BY <1>5, <1>8, <2>2, Zenon
  <2>4. StepAt(x, j + 1) = StepAt(f, j + 1)
    BY <1>3, <2>2 DEF StepAt
  <2>5. a[i] = r[j]
    BY <1>9, <2>1
  <2>. QED
    BY <2>2, <2>3, <2>4, <2>5
<1>11. LatestReturns(a, f, W)
  BY <1>3, <1>10 DEF LatestReturns
<1>. QED
  BY <1>2, <1>3, <1>4, <1>5, <1>6, <1>7, <1>9, <1>11 DEF EndsFirst

(* The beta counts from the first days, the correlation beside it from the *)
(* latest.                                                                 *)
BetaSays(q, x, y, r) ==
  LET n == r.points - LeftOut(q)
      a == FirstCloses(x, n + 1)
      b == FirstCloses(y, n + 1)
  IN  Gapless(x) /\ Gapless(y) /\ n >= q.window =>
        /\ r.correlation = DayCorrelation(x, y, q.window)
        /\ IF DayCov(b, b, q.window) = 0 THEN r.beta = Missing
           ELSE r.beta = [cov |-> DayCov(a, b, q.window), vb |-> DayCov(b, b, q.window)]

LEMMA BetaOfDays ==
  ASSUME NEW q \in Queries, q.kind = "beta", NEW closes, NEW s \in Others(q),
         closes[s] \in Seq(Close), closes[q.benchmark] \in Seq(Close)
  PROVE  BetaSays(q, closes[s], closes[q.benchmark], BetaMetrics(q, closes)[s])
<1>1. PICK x \in Seq(Close) : x = closes[s]
  OBVIOUS
<1>2. PICK y \in Seq(Close) : y = closes[q.benchmark]
  OBVIOUS
<1>3. PICK W \in Nat \ {0, 1} : W = q.window
  BY MultiAssetAssumption
<1>4. PICK k \in 0 .. 1 : k = LeftOut(q)
  BY DEF LeftOut
<1>5. PICK asset \in Seq(Int) : asset = LogReturns(x) /\ Len(asset) = IF x = <<>> THEN 0 ELSE Len(x) - 1
  BY ReturnsAre, Zenon
<1>6. PICK bm \in Seq(Int) : bm = LogReturns(y) /\ Len(bm) = IF y = <<>> THEN 0 ELSE Len(y) - 1
  BY ReturnsAre, Zenon
<1>7. PICK n : n = Shorter(asset, bm)
  OBVIOUS
<1>8. n \in Nat /\ n <= Len(asset) /\ n <= Len(bm)
  <2>1. PICK i \in Nat : i = Len(asset)
    OBVIOUS
  <2>2. PICK j \in Nat : j = Len(bm)
    OBVIOUS
  <2>3. Min({i, j}) = IF i <= j THEN i ELSE j
    <3>1. i \in Int /\ j \in Int
      OBVIOUS
    <3>. QED
      BY <3>1, MinOfTwo, Zenon
  <2>4. n = IF i <= j THEN i ELSE j
    BY <1>7, <2>1, <2>2, <2>3 DEF Shorter
  <2>. QED
    BY <2>1, <2>2, <2>4
<1>9. PICK rolling : rolling = [i \in W .. n - k |-> Beta(SubSeq(asset, i - W + 1, i), SubSeq(bm, i - W + 1, i))]
  OBVIOUS
<1>10. PICK r : r = [beta        |-> IF DOMAIN rolling = {} THEN Missing ELSE rolling[Max(DOMAIN rolling)],
                     correlation |-> IF n - k >= W THEN Pearson(LatestOf(asset, W), LatestOf(bm, W)) ELSE Missing,
                     points      |-> n]
  OBVIOUS
<1>11. BetaMetrics(q, closes)[s] = r
  BY <1>1, <1>2, <1>3, <1>4, <1>5, <1>6, <1>7, <1>9, <1>10 DEF BetaMetrics, Rolling
<1>12. PICK p \in Int : p = n - k
  BY <1>8
<1>13. PICK f : f = FirstCloses(x, p + 1)
  OBVIOUS
<1>14. PICK g : g = FirstCloses(y, p + 1)
  OBVIOUS
<1>15. ASSUME Gapless(x), Gapless(y), p >= W
       PROVE  /\ r.correlation = DayCorrelation(x, y, W)
              /\ IF DayCov(g, g, W) = 0 THEN r.beta = Missing
                 ELSE r.beta = [cov |-> DayCov(f, g, W), vb |-> DayCov(g, g, W)]
  <2>1. PICK m \in Nat : m = p + 1 /\ p = m - 1 /\ W < m /\ W # 0
    <3>1. p + 1 \in Nat /\ p = (p + 1) - 1 /\ W < p + 1
      BY <1>15
    <3>. QED
      BY <3>1
  <2>2. m <= Len(x) /\ m <= Len(y) /\ x # <<>> /\ y # <<>>
    <3>1. p <= n /\ p # 0 /\ n # 0
      <4>1. PICK e \in Nat : e = n
        BY <1>8
      <4>2. p = e - k /\ p >= W
        BY <1>12, <1>15, <4>1
      <4>3. W \in Nat /\ W # 0 /\ k \in Nat
        OBVIOUS
      <4>. QED
        BY <4>1, <4>2, <4>3
    <3>2. x # <<>> /\ y # <<>>
      BY <1>5, <1>6, <1>8, <3>1
    <3>3. PICK i \in Nat : i = Len(x) /\ Len(asset) = i - 1
      BY <1>5, <3>2
    <3>4. PICK j \in Nat : j = Len(y) /\ Len(bm) = j - 1
      BY <1>6, <3>2
    <3>5. PICK e \in Nat : e = n /\ e <= i - 1 /\ e <= j - 1
      BY <1>8, <3>3, <3>4
    <3>6. m <= i /\ m <= j
      BY <2>1, <3>1, <3>5
    <3>. QED
      BY <3>2, <3>3, <3>4, <3>6
  <2>3. Daily(x) /\ Daily(y)
    BY <1>15, <2>2 DEF Daily
  <2>4. PICK a : a = SubSeq(asset, p - W + 1, p)
    OBVIOUS
  <2>5. PICK b : b = SubSeq(bm, p - W + 1, p)
    OBVIOUS
  <2>6. f \in Seq(Close) /\ Daily(f) /\ W < Len(f) /\ Len(a) = W /\ LatestReturns(a, f, W)
    <3>1. EndsFirst(SubSeq(LogReturns(x), (m - 1) - W + 1, m - 1), FirstCloses(x, m), x, m, W)
      BY <2>1, <2>2, WindowOfFirst
    <3>2. EndsFirst(a, f, x, m, W)
      BY <1>5, <1>13, <2>1, <2>4, <3>1
    <3>. QED
      BY <1>15, <2>1, <3>2 DEF EndsFirst
  <2>7. g \in Seq(Close) /\ Daily(g) /\ W < Len(g) /\ Len(b) = W /\ LatestReturns(b, g, W)
    <3>1. EndsFirst(SubSeq(LogReturns(y), (m - 1) - W + 1, m - 1), FirstCloses(y, m), y, m, W)
      BY <2>1, <2>2, WindowOfFirst
    <3>2. EndsFirst(b, g, y, m, W)
      BY <1>6, <1>14, <2>1, <2>5, <3>1
    <3>. QED
      BY <1>15, <2>1, <3>2 DEF EndsFirst
  <2>8. Beta(a, b) = IF DayCov(g, g, W) = 0 THEN Missing ELSE [cov |-> DayCov(f, g, W), vb |-> DayCov(g, g, W)]
    <3>1. Cov(a, b, W) = DayCov(f, g, W) /\ Cov(b, b, W) = DayCov(g, g, W)
      BY <2>6, <2>7, CovByDays
    <3>2. Shorter(a, b) = W
      <4>1. Min({W, W}) = W
        BY MinOfTwo
      <4>. QED
        BY <2>6, <2>7, <4>1 DEF Shorter
    <3>. QED
      BY <3>1, <3>2 DEF Beta
  <2>9. DOMAIN rolling = W .. p /\ p \in W .. p
    BY <1>9, <1>12, <1>15
  <2>10. Max(W .. p) = p
    <3>1. W .. p \in SUBSET Int /\ \A i \in W .. p : i <= p
      OBVIOUS
    <3>. QED
      BY <2>9, <3>1, MaxIs
  <2>11. rolling[p] = Beta(a, b)
    BY <1>9, <1>12, <2>4, <2>5, <2>9
  <2>12. r.beta = Beta(a, b)
    BY <1>10, <2>9, <2>10, <2>11
  <2>13. r.correlation = Pearson(LatestOf(asset, W), LatestOf(bm, W))
    BY <1>10, <1>12, <1>15
  <2>14. W <= Len(asset) /\ W <= Len(bm) /\ W < Len(x) /\ W < Len(y)
    <3>. Len(x) \in Nat /\ Len(y) \in Nat
      BY LenProperties
    <3>1. PICK i \in Nat : i = Len(x)
      BY Zenon
    <3>2. PICK j \in Nat : j = Len(y)
      BY Zenon
    <3>3. Len(asset) = i - 1 /\ Len(bm) = j - 1
      BY <1>5, <1>6, <2>2, <3>1, <3>2
    <3>4. m <= i /\ m <= j
      BY <2>2, <3>1, <3>2
    <3>5. W <= i - 1 /\ W <= j - 1 /\ W < i /\ W < j
      BY <2>1, <3>4
    <3>. QED
      BY <3>1, <3>2, <3>3, <3>5, Zenon
  <2>15. PICK c : c = LatestOf(asset, W)
    OBVIOUS
  <2>16. PICK d : d = LatestOf(bm, W)
    OBVIOUS
  <2>17. Len(c) = W /\ LatestReturns(c, x, W)
    <3>1. LatestReturns(asset, x, Len(asset))
      BY <1>5, <2>2, AllReturns
    <3>. QED
      BY <2>1, <2>14, <2>15, <3>1, LatestOfLatest
  <2>18. Len(d) = W /\ LatestReturns(d, y, W)
    <3>1. LatestReturns(bm, y, Len(bm))
      BY <1>6, <2>2, AllReturns
    <3>. QED
      BY <2>1, <2>14, <2>16, <3>1, LatestOfLatest
  <2>19. Pearson(c, d) = DayCorrelation(x, y, W)
    BY <2>3, <2>14, <2>17, <2>18, PearsonByDays
  <2>. QED
    BY <2>8, <2>12, <2>13, <2>15, <2>16, <2>19
<1>16. r.points = n
  BY <1>10
<1>17. BetaSays(q, x, y, r)
  BY <1>3, <1>4, <1>12, <1>13, <1>14, <1>15, <1>16 DEF BetaSays
<1>. QED
  BY <1>1, <1>2, <1>11, <1>17

(* Covariances are numbers. *)
LEMMA CovIsNumber ==
  ASSUME NEW n \in Nat, NEW a, NEW b, \A i \in 1 .. n : a[i] \in Int /\ b[i] \in Int
  PROVE  Cov(a, b, n) \in Int
<1>1. IsFiniteSet(1 .. n)
  BY FS_Interval
<1>2. PICK ab : ab = [i \in 1 .. n |-> a[i] * b[i]]
  OBVIOUS
<1>3. \A i \in 1 .. n : ab[i] \in Int
  BY <1>2
<1>4. PICK s \in Int : s = SumFunctionOnSet(ab, 1 .. n)
  BY <1>1, <1>3, SumStep
<1>5. PICK t \in Int : t = SumFunctionOnSet(a, 1 .. n)
  BY <1>1, SumStep
<1>6. PICK u \in Int : u = SumFunctionOnSet(b, 1 .. n)
  BY <1>1, SumStep
<1>7. Sum2(a, b, n) = s /\ Sum1(a, n) = t /\ Sum1(b, n) = u
  BY <1>2, <1>4, <1>5, <1>6 DEF Sum1, Sum2, SumFunction
<1>8. n * s \in Int /\ t * u \in Int
  OBVIOUS
<1>9. n * s - t * u \in Int
  BY <1>8
<1>. QED
  BY <1>7, <1>9 DEF Cov

(* The volatility of the window that the rolling one ends with, over days  *)
(* where there is a close a day.                                           *)
LEMMA CurrentVolIs ==
  ASSUME NEW x \in Seq(Close), NEW W \in Nat \ {0, 1}, NEW k \in 0 .. 1
  PROVE  LET a == FirstCloses(x, Len(x) - k)
         IN  /\ Len(x) - k <= W => CurrentVol(x, W, k) = Missing
             /\ Len(x) - k > W => CurrentVol(x, W, k) \in Int
             /\ Len(x) - k > W /\ Gapless(x) => CurrentVol(x, W, k) = DayCov(a, a, W)
<1>1. PICK r \in Seq(Int) : r = LogReturns(x) /\ Len(r) = IF x = <<>> THEN 0 ELSE Len(x) - 1
  BY ReturnsAre, Zenon
<1>2. PICK l \in Nat : l = Len(x) /\ (x = <<>> <=> l = 0)
  OBVIOUS
<1>3. PICK p \in Int : p = Len(r) - k
  <2>1. Len(r) \in Nat
    OBVIOUS
  <2>. QED
    BY <2>1
<1>4. PICK ends : ends = W .. p
  OBVIOUS
<1>5. CurrentVol(x, W, k) = IF ends = {} THEN Missing
                            ELSE Cov(SubSeq(r, Max(ends) - W + 1, Max(ends)), SubSeq(r, Max(ends) - W + 1, Max(ends)), W)
  BY <1>1, <1>3, <1>4 DEF CurrentVol, Rolling
<1>6. CASE l - k <= W
  <2>1. p < W
    BY <1>1, <1>2, <1>3, <1>6
  <2>2. ends = {}
    BY <1>4, <2>1
  <2>. QED
    BY <1>2, <1>5, <1>6, <2>2
<1>7. CASE ~(l - k <= W)
  <2>1. PICK m \in Nat : m = l - k /\ m > W /\ m <= l /\ p = m - 1 /\ W <= p
    <3>1. l - k \in Nat /\ l - k > W /\ l - k <= l /\ l # 0
      BY <1>7
    <3>2. p = (l - k) - 1
      BY <1>1, <1>2, <1>3, <3>1
    <3>. QED
      BY <3>1, <3>2
  <2>2. p \in ends
    BY <1>4, <2>1
  <2>3. Max(ends) = p
    <3>1. ends \in SUBSET Int /\ \A i \in ends : i <= p
      BY <1>4
    <3>. QED
      BY <2>2, <3>1, MaxIs
  <2>4. PICK a : a = SubSeq(r, p - W + 1, p)
    OBVIOUS
  <2>5. CurrentVol(x, W, k) = Cov(a, a, W)
    BY <1>5, <2>2, <2>3, <2>4
  <2>6. PICK f : f = FirstCloses(x, m)
    OBVIOUS
  <2>7. EndsFirst(a, f, x, m, W)
    <3>1. W \in Nat /\ W # 0 /\ m <= Len(x) /\ W < m
      BY <1>2, <2>1
    <3>2. EndsFirst(SubSeq(LogReturns(x), (m - 1) - W + 1, m - 1), FirstCloses(x, m), x, m, W)
      BY <3>1, WindowOfFirst
    <3>. QED
      BY <1>1, <2>1, <2>4, <2>6, <3>2
  <2>8. Cov(a, a, W) \in Int
    BY <2>7, CovIsNumber DEF EndsFirst, LatestReturns
  <2>9. ASSUME Gapless(x)
        PROVE  Cov(a, a, W) = DayCov(f, f, W)
    <3>1. f \in Seq(Close) /\ Daily(f) /\ W < Len(f) /\ LatestReturns(a, f, W)
      BY <2>1, <2>7, <2>9 DEF EndsFirst
    <3>. QED
      BY <3>1, CovByDays
  <2>. QED
    BY <1>2, <1>7, <2>1, <2>5, <2>6, <2>8, <2>9
<1>. QED
  BY <1>6, <1>7, <1>2

(* Less volatility has a lower rank. *)
LEMMA RanksAscend ==
  ASSUME NEW n \in Nat, NEW vols \in [1 .. n -> Int \cup {Missing}], NEW S \in SUBSET (1 .. n), NEW T \in SUBSET (1 .. n),
         S # {}, T # {}, NEW u \in Int, NEW v \in Int \cup {Missing}, v = Missing \/ u < v,
         \A k \in S : vols[k] = u, \A k \in T : vols[k] = v
  PROVE  Max({Cardinality(UpToPlace(vols, k)) : k \in S}) < Max({Cardinality(UpToPlace(vols, k)) : k \in T})
<1>. DEFINE Ahead(k) == UpToPlace(vols, k)
<1>1. Missing \notin Int
  BY MultiAssetAssumption
<1>2. IsFiniteSet(1 .. n)
  BY FS_Interval
<1>3. ASSUME NEW k \in 1 .. n
      PROVE  Ahead(k) \in SUBSET (1 .. n) /\ IsFiniteSet(Ahead(k)) /\ Cardinality(Ahead(k)) \in Nat /\ Cardinality(Ahead(k)) <= n
  <2>1. Ahead(k) \in SUBSET (1 .. n)
    BY DEF UpToPlace
  <2>2. Cardinality(1 .. n) = n
    BY FS_Interval
  <2>. HIDE DEF Ahead
  <2>. QED
    BY <1>2, <2>1, <2>2, FS_Subset, FS_CardinalityType
<1>4. ASSUME NEW j \in S, NEW k \in T
      PROVE  Cardinality(Ahead(j)) < Cardinality(Ahead(k))
  <2>1. vols[j] = u /\ vols[k] = v /\ j \in 1 .. n /\ k \in 1 .. n
    OBVIOUS
  <2>2. ASSUME NEW i \in Ahead(j)
        PROVE  i \in Ahead(k)
    <3>1. i \in 1 .. n /\ (Below(vols[i], u) \/ vols[i] = u)
      BY <2>1, <2>2 DEF UpToPlace
    <3>2. vols[i] \in Int /\ vols[i] <= u
      BY <1>1, <3>1 DEF Below
    <3>3. vols[i] # Missing /\ (v = Missing \/ vols[i] < v)
      BY <1>1, <3>2
    <3>. QED
      BY <2>1, <3>1, <3>3 DEF UpToPlace, Below
  <2>3. k \in Ahead(k)
    BY <2>1 DEF UpToPlace
  <2>4. k \notin Ahead(j)
    <3>1. ~Below(v, u) /\ v # u
      BY <1>1 DEF Below
    <3>. QED
      BY <2>1, <3>1 DEF UpToPlace
  <2>. HIDE DEF Ahead
  <2>5. Ahead(j) \subseteq Ahead(k) /\ Ahead(j) # Ahead(k)
    BY <2>2, <2>3, <2>4
  <2>6. PICK A : A = Ahead(j)
    OBVIOUS
  <2>7. PICK B : B = Ahead(k)
    OBVIOUS
  <2>8. IsFiniteSet(B) /\ A \in SUBSET B /\ A # B /\ Cardinality(A) \in Nat /\ Cardinality(B) \in Nat
    BY <1>3, <2>1, <2>5, <2>6, <2>7
  <2>9. Cardinality(A) <= Cardinality(B) /\ Cardinality(A) # Cardinality(B)
    BY <2>8, FS_Subset
  <2>. QED
    BY <2>6, <2>7, <2>8, <2>9
<1>. HIDE DEF Ahead
<1>5. ASSUME NEW K \in SUBSET (1 .. n), K # {}
      PROVE  \E k \in K : Max({Cardinality(Ahead(j)) : j \in K}) = Cardinality(Ahead(k))
  <2>1. PICK R : R = {Cardinality(Ahead(j)) : j \in K}
    OBVIOUS
  <2>2. R \in SUBSET Int /\ R # {} /\ \A m \in R : m <= n
    <3>1. \A j \in K : Cardinality(Ahead(j)) \in Int /\ Cardinality(Ahead(j)) <= n
      BY <1>3, <1>5
    <3>. QED
      BY <1>5, <2>1, <3>1, Zenon
  <2>3. PICK m \in R : \A i \in R : i <= m
    <3>1. n \in Int
      OBVIOUS
    <3>. QED
      BY <2>2, <3>1, GreatestOf, Zenon
  <2>4. Max(R) = m
    BY <2>2, <2>3, MaxIs
  <2>5. PICK k \in K : m = Cardinality(Ahead(k))
    BY <2>1, <2>3
  <2>. QED
    BY <2>1, <2>4, <2>5
<1>6. PICK j \in S : Max({Cardinality(Ahead(k)) : k \in S}) = Cardinality(Ahead(j))
  BY <1>5
<1>7. PICK k \in T : Max({Cardinality(Ahead(i)) : i \in T}) = Cardinality(Ahead(k))
  BY <1>5
<1>8. Cardinality(Ahead(j)) < Cardinality(Ahead(k))
  BY <1>4
<1>9. Max({Cardinality(Ahead(i)) : i \in S}) < Max({Cardinality(Ahead(i)) : i \in T})
  BY <1>6, <1>7, <1>8
<1>. QED
  BY <1>9 DEF Ahead

LEMMA HeatmapRanks ==
  ASSUME NEW q \in Queries, q.kind \in {"volatility", "heatmap"}, NEW closes,
         \A s \in Range(q.symbols) : closes[s] \in Seq(Close)
  PROVE  LET heat == VolatilityHeatmap(q, closes)
         IN  /\ \A s \in DOMAIN heat :
                  LET x == closes[s]
                      n == Len(x) - LeftOut(q)
                      a == FirstCloses(x, n)
                  IN  IF n <= q.window THEN heat[s].vol = Missing
                      ELSE Gapless(x) => heat[s].vol = DayCov(a, a, q.window)
             /\ \A s, t \in DOMAIN heat :
                  heat[s].vol # Missing /\ (heat[t].vol = Missing \/ heat[s].vol < heat[t].vol)
                    => heat[s].rank < heat[t].rank
<1>1. PICK W \in Nat \ {0, 1} : W = q.window
  BY MultiAssetAssumption
<1>2. PICK m \in 0 .. 1 : m = LeftOut(q)
  BY DEF LeftOut
<1>3. PICK names : names = q.symbols
  OBVIOUS
<1>4. PICK n \in Nat : DOMAIN names = 1 .. n
  <2>1. names \in Seq(Symbols)
    BY <1>3, MultiAssetAssumption
  <2>. QED
    BY <2>1
<1>5. Range(names) = {names[k] : k \in 1 .. n}
  BY <1>4 DEF Range
<1>6. PICK vols : vols = Volatilities(q, closes)
  OBVIOUS
<1>7. vols = [k \in 1 .. n |-> CurrentVol(closes[names[k]], W, m)]
  BY <1>1, <1>2, <1>3, <1>4, <1>6 DEF Volatilities
<1>8. PICK heat : heat = VolatilityHeatmap(q, closes)
  OBVIOUS
<1>9. heat = [s \in Range(names) |->
                [vol  |-> CurrentVol(closes[s], W, m),
                 rank |-> Max({Cardinality(UpToPlace(vols, k)) : k \in {j \in 1 .. n : names[j] = s}})]]
  <2>1. DOMAIN vols = 1 .. n
    BY <1>7
  <2>. QED
    BY <1>1, <1>2, <1>3, <1>6, <1>8, <2>1 DEF VolatilityHeatmap
<1>10. DOMAIN heat = Range(names)
  BY <1>9
<1>11. ASSUME NEW s \in Range(names)
       PROVE  /\ closes[s] \in Seq(Close) /\ heat[s].vol = CurrentVol(closes[s], W, m)
              /\ heat[s].rank = Max({Cardinality(UpToPlace(vols, k)) : k \in {j \in 1 .. n : names[j] = s}})
  BY <1>3, <1>9
<1>12. ASSUME NEW s \in Range(names)
       PROVE  LET x == closes[s]
                  f == FirstCloses(x, Len(x) - m)
              IN  /\ heat[s].vol \in Int \cup {Missing}
                  /\ IF Len(x) - m <= W THEN heat[s].vol = Missing
                     ELSE Gapless(x) => heat[s].vol = DayCov(f, f, W)
  <2>1. PICK x \in Seq(Close) : x = closes[s]
    BY <1>11
  <2>2. PICK l \in Int : l = Len(x) - m
    OBVIOUS
  <2>3. heat[s].vol = CurrentVol(x, W, m)
    BY <1>11, <2>1
  <2>4. PICK f : f = FirstCloses(x, l)
    OBVIOUS
  <2>5. /\ l <= W => CurrentVol(x, W, m) = Missing
        /\ l > W => CurrentVol(x, W, m) \in Int
        /\ l > W /\ Gapless(x) => CurrentVol(x, W, m) = DayCov(f, f, W)
    BY <2>2, <2>4, CurrentVolIs
  <2>6. l <= W \/ l > W
    OBVIOUS
  <2>7. ~(l <= W) => l > W
    OBVIOUS
  <2>. QED
    BY <2>1, <2>2, <2>3, <2>4, <2>5, <2>6, <2>7
<1>13. ASSUME NEW s \in Range(names)
       PROVE  heat[s].vol \in Int \cup {Missing}
  BY <1>12
<1>14. ASSUME NEW s \in Range(names), NEW t \in Range(names), heat[s].vol # Missing,
              heat[t].vol = Missing \/ heat[s].vol < heat[t].vol
       PROVE  heat[s].rank < heat[t].rank
  <2>1. PICK S : S = {j \in 1 .. n : names[j] = s}
    OBVIOUS
  <2>2. PICK T : T = {j \in 1 .. n : names[j] = t}
    OBVIOUS
  <2>3. S \in SUBSET (1 .. n) /\ T \in SUBSET (1 .. n) /\ S # {} /\ T # {}
    BY <1>5, <2>1, <2>2
  <2>4. PICK u \in Int : u = heat[s].vol
    BY <1>13, <1>14
  <2>5. PICK v \in Int \cup {Missing} : v = heat[t].vol
    BY <1>13
  <2>6. \A k \in S : vols[k] = u
    BY <1>7, <1>11, <2>1, <2>4
  <2>7. \A k \in T : vols[k] = v
    BY <1>7, <1>11, <2>2, <2>5
  <2>8. vols \in [1 .. n -> Int \cup {Missing}]
    <3>1. ASSUME NEW k \in 1 .. n
          PROVE  CurrentVol(closes[names[k]], W, m) \in Int \cup {Missing}
      <4>1. names[k] \in Range(names)
        BY <1>5
      <4>. QED
        BY <1>11, <1>13, <4>1
    <3>. QED
      BY <1>7, <3>1
  <2>9. v = Missing \/ u < v
    BY <1>14, <2>4, <2>5
  <2>10. Max({Cardinality(UpToPlace(vols, k)) : k \in S}) < Max({Cardinality(UpToPlace(vols, k)) : k \in T})
    BY <2>3, <2>6, <2>7, <2>8, <2>9, RanksAscend
  <2>11. heat[s].rank = Max({Cardinality(UpToPlace(vols, k)) : k \in S})
    BY <1>11, <2>1
  <2>12. heat[t].rank = Max({Cardinality(UpToPlace(vols, k)) : k \in T})
    BY <1>11, <2>2
  <2>. QED
    BY <2>10, <2>11, <2>12
<1>15. \A s \in DOMAIN heat :
         LET x == closes[s]
             f == FirstCloses(x, Len(x) - m)
         IN  IF Len(x) - m <= W THEN heat[s].vol = Missing
             ELSE Gapless(x) => heat[s].vol = DayCov(f, f, W)
  BY <1>10, <1>12
<1>16. \A s, t \in DOMAIN heat :
         heat[s].vol # Missing /\ (heat[t].vol = Missing \/ heat[s].vol < heat[t].vol)
           => heat[s].rank < heat[t].rank
  BY <1>10, <1>14
<1>. QED
  BY <1>1, <1>2, <1>8, <1>15, <1>16, Zenon

(* The sum of the first returns is the distance from the start. *)
LEMMA SumOfReturns ==
  ASSUME NEW x \in Seq(Close), x # <<>>, NEW i \in 1 .. Len(x)
  PROVE  Sum1(LogReturns(x), i - 1) = x[i].level - x[1].level
<1>1. PICK l \in Nat : l = Len(x) /\ l # 0
  OBVIOUS
<1>2. PICK n \in Nat : n = i - 1 /\ i = n + 1 /\ n + 1 <= l
  <2>1. i - 1 \in Nat /\ i = (i - 1) + 1 /\ (i - 1) + 1 <= l
    BY <1>1
  <2>. QED
    BY <2>1
<1>3. PICK edge : edge = [j \in 0 .. n |-> x[j + 1].level]
  OBVIOUS
<1>4. PICK f : f = LogReturns(x)
  OBVIOUS
<1>5. \A j \in 0 .. n : edge[j] \in Int /\ edge[j] = x[j + 1].level
  <2>1. \A j \in 0 .. n : j + 1 \in 1 .. l
    BY <1>2
  <2>. QED
    BY <1>1, <1>3, <2>1, LevelsAreNumbers
<1>6. ASSUME NEW j \in 1 .. n
      PROVE  f[j] = edge[j] - edge[j - 1]
  <2>1. j \in 1 .. l - 1 /\ j \in 0 .. n /\ j - 1 \in 0 .. n /\ (j - 1) + 1 = j /\ (j + 1) - 1 = j
    BY <1>2
  <2>2. f[j] = StepAt(x, j + 1)
    BY <1>1, <1>4, <2>1, ReturnsAre
  <2>3. edge[j] = x[j + 1].level /\ edge[j - 1] = x[j].level
    BY <1>5, <2>1
  <2>. QED
    BY <2>1, <2>2, <2>3 DEF StepAt
<1>7. SumFunctionOnSet(f, 1 .. n) = edge[n] - edge[0]
  BY <1>5, <1>6, SumTelescopes
<1>8. edge[n] = x[i].level /\ edge[0] = x[1].level
  BY <1>2, <1>5
<1>. QED
  BY <1>2, <1>4, <1>7, <1>8 DEF Sum1

LEMMA TotalIs ==
  ASSUME NEW x \in Seq(Close), NEW n \in Nat \ {0}, n = Len(x)
  PROVE  TotalReturn(x) = x[n].level - x[1].level
<1>1. x[1].level \in Int /\ n \in Nat /\ x # <<>>
  <2>1. 1 \in 1 .. n
    OBVIOUS
  <2>. QED
    BY <2>1, LevelsAreNumbers
<1>2. Last(x) = x[n] /\ Head(x) = x[1]
  BY <1>1 DEF Last
<1>3. CASE n < 2
  <2>1. n = 1
    BY <1>3
  <2>2. TotalReturn(x) = 0
    BY <1>3 DEF TotalReturn
  <2>3. x[1].level - x[1].level = 0
    BY <1>1
  <2>. QED
    BY <2>1, <2>2, <2>3
<1>4. CASE ~(n < 2)
  BY <1>2, <1>4 DEF TotalReturn
<1>. QED
  BY <1>3, <1>4

(* How much of both is rebased: one close at least, and no more than there *)
(* is.                                                                     *)
LEMMA SliceIs ==
  ASSUME NEW q \in Queries, NEW x \in Seq(Close), x # <<>>, NEW y \in Seq(Close), y # <<>>
  PROVE  SliceLen(q, x, y) \in Nat \ {0} /\ SliceLen(q, x, y) <= Len(x) /\ SliceLen(q, x, y) <= Len(y)
<1>1. PICK i \in Nat \ {0} : i = Len(x)
  <2>1. Len(x) \in Nat \ {0}
    OBVIOUS
  <2>. QED
    BY <2>1
<1>2. PICK j \in Nat \ {0} : j = Len(y)
  <2>1. Len(y) \in Nat \ {0}
    OBVIOUS
  <2>. QED
    BY <2>1
<1>3. PICK S : S = {i, j} \cup (IF q.window = Missing THEN {} ELSE {q.window + 1})
  OBVIOUS
<1>4. SliceLen(q, x, y) = Min(S)
  BY <1>1, <1>2, <1>3 DEF SliceLen
<1>5. \A k \in S : k \in Nat \ {0}
  <2>1. q.window # Missing => q.window + 1 \in Nat \ {0}
    <3>1. q.window # Missing => q.window \in Nat
      BY MultiAssetAssumption
    <3>. QED
      BY <3>1
  <2>. QED
    BY <1>3, <2>1
<1>6. i \in S /\ j \in S
  BY <1>3
<1>7. Min(S) \in S /\ Min(S) <= i /\ Min(S) <= j
  BY <1>5, <1>6, MinOfSome
<1>. QED
  BY <1>1, <1>2, <1>4, <1>5, <1>7

(* The latest n closes: their levels, and their days where there is one a  *)
(* day.                                                                    *)
EndsOf(a, x, n) ==
  /\ a \in Seq(Close) /\ Len(a) = n /\ a # <<>>
  /\ \A i \in 1 .. n : a[i] = x[Len(x) - n + i]

LEMMA LatestCloses ==
  ASSUME NEW x \in Seq(Close), NEW n \in Nat \ {0}, n <= Len(x)
  PROVE  EndsOf(LatestOf(x, n), x, n)
<1>1. PICK l \in Nat : l = Len(x)
  OBVIOUS
<1>2. PICK a : a = LatestOf(x, n)
  OBVIOUS
<1>3. n \in Nat /\ n # 0
  OBVIOUS
<1>4. /\ a \in Seq(Close) /\ Len(a) = IF n >= Len(x) THEN Len(x) ELSE n
      /\ \A i \in 1 .. Len(a) : a[i] = x[Len(x) - Len(a) + i]
  BY <1>2, <1>3, LatestIs, Zenon
<1>5. Len(a) = n
  BY <1>1, <1>4
<1>6. a # <<>>
  BY <1>4, <1>5
<1>. QED
  BY <1>2, <1>4, <1>5, <1>6 DEF EndsOf

(* What is rebased ends where the returns say. *)
Rebased(r, x, y, n) ==
  /\ Len(r.series) = n /\ DOMAIN r.series = 1 .. n /\ n \in Nat \ {0} /\ r.from = LatestOf(y, n)
  /\ \A i \in 1 .. n : /\ r.series[i].asset = x[Len(x) - n + i].level - x[Len(x) - n + 1].level
                       /\ r.series[i].benchmark = y[Len(y) - n + i].level - y[Len(y) - n + 1].level
  /\ r.series[n] = [asset |-> r.total, benchmark |-> r.benchmark]

LEMMA RebasedIs ==
  ASSUME NEW q \in Queries, NEW closes, NEW s \in Range(q.symbols),
         NEW x \in Seq(Close), x = closes[s], x # <<>>, NEW y \in Seq(Close), y = closes[q.benchmark], y # <<>>
  PROVE  Rebased(RelativePerformance(q, closes)[s], x, y, SliceLen(q, x, y))
<1>. PICK n : n = SliceLen(q, x, y)
  OBVIOUS
<1>. PICK r : r = RelativePerformance(q, closes)[s]
  OBVIOUS
<1>1. n \in Nat \ {0} /\ n <= Len(x) /\ n <= Len(y)
  BY SliceIs
<1>2. PICK asset : asset = LatestOf(x, n)
  OBVIOUS
<1>3. PICK bm : bm = LatestOf(y, n)
  OBVIOUS
<1>4. /\ asset \in Seq(Close) /\ Len(asset) = n /\ asset # <<>>
      /\ \A i \in 1 .. n : asset[i] = x[Len(x) - n + i]
  <2>1. EndsOf(asset, x, n)
    BY <1>1, <1>2, LatestCloses
  <2>. QED
    BY <2>1 DEF EndsOf
<1>5. /\ bm \in Seq(Close) /\ Len(bm) = n /\ bm # <<>>
      /\ \A i \in 1 .. n : bm[i] = y[Len(y) - n + i]
  <2>1. EndsOf(bm, y, n)
    BY <1>1, <1>3, LatestCloses
  <2>. QED
    BY <2>1 DEF EndsOf
<1>6. PICK rA : rA = LogReturns(asset)
  OBVIOUS
<1>7. PICK rB : rB = LogReturns(bm)
  OBVIOUS
<1>8. Len(rA) = n - 1
  BY <1>4, <1>6, ReturnsAre
<1>9. Len(rB) = n - 1
  BY <1>5, <1>7, ReturnsAre
<1>10. Shorter(rA, rB) + 1 = n
  <2>1. n - 1 \in Int
    BY <1>1
  <2>2. Min({n - 1, n - 1}) = n - 1
    BY <2>1, MinOfTwo
  <2>3. (n - 1) + 1 = n
    BY <1>1
  <2>. QED
    BY <1>8, <1>9, <2>2, <2>3 DEF Shorter
<1>11. PICK steps : steps = [i \in 1 .. n |-> [asset |-> Sum1(rA, i - 1), benchmark |-> Sum1(rB, i - 1)]]
  OBVIOUS
<1>12. r = [total |-> TotalReturn(asset), benchmark |-> TotalReturn(bm), from |-> bm, series |-> steps]
  <2>1. r = [total |-> TotalReturn(asset), benchmark |-> TotalReturn(bm), from |-> bm,
             series |-> [i \in 1 .. Shorter(rA, rB) + 1 |->
                           [asset |-> Sum1(rA, i - 1), benchmark |-> Sum1(rB, i - 1)]]]
    BY <1>2, <1>3, <1>6, <1>7 DEF RelativePerformance
  <2>. QED
    BY <1>10, <1>11, <2>1
<1>13. ASSUME NEW i \in 1 .. n
       PROVE  steps[i] = [asset |-> asset[i].level - asset[1].level, benchmark |-> bm[i].level - bm[1].level]
  <2>1. Sum1(rA, i - 1) = asset[i].level - asset[1].level
    BY <1>4, <1>6, SumOfReturns
  <2>2. Sum1(rB, i - 1) = bm[i].level - bm[1].level
    BY <1>5, <1>7, SumOfReturns
  <2>. QED
    BY <1>11, <2>1, <2>2
<1>14. n \in 1 .. n /\ 1 \in 1 .. n
  BY <1>1
<1>15. asset[1] = x[Len(x) - n + 1] /\ bm[1] = y[Len(y) - n + 1]
  BY <1>4, <1>5, <1>14
<1>16. TotalReturn(asset) = asset[n].level - asset[1].level
  BY <1>1, <1>4, <1>14, TotalIs
<1>17. TotalReturn(bm) = bm[n].level - bm[1].level
  BY <1>1, <1>5, <1>14, TotalIs
<1>18. steps[n] = [asset |-> TotalReturn(asset), benchmark |-> TotalReturn(bm)]
  BY <1>13, <1>14, <1>16, <1>17
<1>19. steps = [i \in 1 .. n |-> steps[i]] /\ DOMAIN steps = 1 .. n /\ Len(steps) = n
  <2>1. n \in Nat
    BY <1>1
  <2>. QED
    BY <1>11, <2>1
<1>20. ASSUME NEW i \in 1 .. n
       PROVE  /\ steps[i].asset = x[Len(x) - n + i].level - x[Len(x) - n + 1].level
              /\ steps[i].benchmark = y[Len(y) - n + i].level - y[Len(y) - n + 1].level
  <2>1. steps[i].asset = asset[i].level - asset[1].level /\ steps[i].benchmark = bm[i].level - bm[1].level
    <3>1. PICK u : u = asset[i].level - asset[1].level
      OBVIOUS
    <3>2. PICK v : v = bm[i].level - bm[1].level
      OBVIOUS
    <3>3. steps[i] = [asset |-> u, benchmark |-> v]
      BY <1>13, <3>1, <3>2
    <3>. QED
      BY <3>1, <3>2, <3>3
  <2>2. asset[i] = x[Len(x) - n + i] /\ bm[i] = y[Len(y) - n + i]
    BY <1>4, <1>5
  <2>. QED
    BY <1>15, <2>1, <2>2, Zenon
<1>21. r.series = steps /\ r.total = TotalReturn(asset) /\ r.benchmark = TotalReturn(bm) /\ r.from = bm
  BY <1>12
<1>. QED
  BY <1>1, <1>3, <1>18, <1>19, <1>20, <1>21 DEF Rebased

(* Day by day, both are told from their first days. *)
SeriesSay(r, x, y) ==
  \A i \in DOMAIN r.series :
    LET d == Last(x).day - Len(r.series) + i
    IN  r.series[i].asset - r.series[i].benchmark
          = (LevelOn(x, d) - LevelOn(x, Head(r.from).day)) - (LevelOn(y, d) - LevelOn(y, Head(r.from).day))

LEMMA RebasedByDays ==
  ASSUME NEW q \in Queries, NEW closes, NEW s \in Range(q.symbols),
         NEW x \in Seq(Close), x = closes[s], x # <<>>, NEW y \in Seq(Close), y = closes[q.benchmark], y # <<>>,
         SameDays(x, y)
  PROVE  SeriesSay(RelativePerformance(q, closes)[s], x, y)
<1>. PICK r : r = RelativePerformance(q, closes)[s]
  OBVIOUS
<1>. SUFFICES ASSUME NEW i \in DOMAIN r.series
              PROVE  LET d == Last(x).day - Len(r.series) + i
                     IN  r.series[i].asset - r.series[i].benchmark
                           = (LevelOn(x, d) - LevelOn(x, Head(r.from).day))
                               - (LevelOn(y, d) - LevelOn(y, Head(r.from).day))
  BY Zenon DEF SeriesSay
<1>1. PICK n : n = SliceLen(q, x, y)
  OBVIOUS
<1>2. /\ Len(r.series) = n /\ DOMAIN r.series = 1 .. n /\ n \in Nat \ {0} /\ r.from = LatestOf(y, n)
      /\ \A k \in 1 .. n : /\ r.series[k].asset = x[Len(x) - n + k].level - x[Len(x) - n + 1].level
                           /\ r.series[k].benchmark = y[Len(y) - n + k].level - y[Len(y) - n + 1].level
  <2>1. Rebased(r, x, y, n)
    BY <1>1, RebasedIs
  <2>. QED
    BY <2>1 DEF Rebased
<1>3. n <= Len(x) /\ n <= Len(y)
  BY <1>1, SliceIs
<1>4. PICK z \in Int : z = Last(x).day /\ z = Last(y).day
  <2>1. Last(x).day \in Int
    <3>1. Len(x) \in 1 .. Len(x)
      OBVIOUS
    <3>. QED
      BY <3>1, LevelsAreNumbers DEF Last
  <2>. QED
    BY <2>1 DEF SameDays
<1>5. ASSUME NEW w \in Seq(Close), w # <<>>, Gapless(w), Last(w).day = z, n <= Len(w), NEW k \in 1 .. n
      PROVE  LevelOn(w, z - n + k) = w[Len(w) - n + k].level /\ w[Len(w) - n + k].day = z - n + k
  <2>1. PICK l \in Nat : l = Len(w)
    OBVIOUS
  <2>2. l - n + k \in 1 .. l /\ z - l + (l - n + k) = z - n + k
    BY <1>2, <1>5, <2>1
  <2>3. w[l - n + k].day = z - l + (l - n + k)
    BY <1>5, <2>1, <2>2, DaysAreCounted
  <2>4. LevelOn(w, w[l - n + k].day) = w[l - n + k].level
    BY <1>5, <2>1, <2>2, ReturnOfDay
  <2>. QED
    BY <2>1, <2>2, <2>3, <2>4
<1>6. Gapless(x) /\ Gapless(y)
  BY DEF SameDays
<1>7. 1 \in 1 .. n /\ i \in 1 .. n
  BY <1>2
<1>8. Head(r.from).day = z - n + 1
  <2>1. PICK bm : bm = LatestOf(y, n)
    OBVIOUS
  <2>2. bm \in Seq(Close) /\ bm # <<>> /\ bm[1] = y[Len(y) - n + 1]
    <3>1. EndsOf(bm, y, n)
      BY <1>2, <1>3, <2>1, LatestCloses
    <3>. QED
      BY <1>7, <3>1 DEF EndsOf
  <2>3. Head(bm) = bm[1]
    BY <2>2
  <2>4. y[Len(y) - n + 1].day = z - n + 1
    BY <1>3, <1>4, <1>5, <1>6, <1>7
  <2>. QED
    BY <1>2, <2>1, <2>2, <2>3, <2>4
<1>9. LevelOn(x, z - n + i) = x[Len(x) - n + i].level /\ LevelOn(x, z - n + 1) = x[Len(x) - n + 1].level
  BY <1>3, <1>4, <1>5, <1>6, <1>7
<1>10. LevelOn(y, z - n + i) = y[Len(y) - n + i].level /\ LevelOn(y, z - n + 1) = y[Len(y) - n + 1].level
  BY <1>3, <1>4, <1>5, <1>6, <1>7
<1>11. r.series[i].asset = LevelOn(x, z - n + i) - LevelOn(x, z - n + 1)
  <2>1. PICK u : u = x[Len(x) - n + i].level
    OBVIOUS
  <2>2. PICK v : v = x[Len(x) - n + 1].level
    OBVIOUS
  <2>3. r.series[i].asset = u - v
    BY <1>2, <1>7, <2>1, <2>2
  <2>. QED
    BY <1>9, <2>1, <2>2, <2>3
<1>12. r.series[i].benchmark = LevelOn(y, z - n + i) - LevelOn(y, z - n + 1)
  <2>1. PICK u : u = y[Len(y) - n + i].level
    OBVIOUS
  <2>2. PICK v : v = y[Len(y) - n + 1].level
    OBVIOUS
  <2>3. r.series[i].benchmark = u - v
    BY <1>2, <1>7, <2>1, <2>2
  <2>. QED
    BY <1>10, <2>1, <2>2, <2>3
<1>. QED
  BY <1>2, <1>4, <1>8, <1>11, <1>12, Zenon

----------------------------------------------------------------------------
(* Requests *)

(* What comes of a fetch, and what is answered: the closes that came, and  *)
(* what is computed from them.                                             *)
ClosesOf(q) == [PartsOf(q) -> [Wanted(q) -> Seq(Close) \cup {Missing}]]
ResultsOf(q, d) == [p \in PartsOf(q) |-> ResultOf(q, p, d[p])]

MarketInv ==
  /\ today \in 0 .. LastClose
  /\ market \in [Symbols -> Seq([day : Int, level : CloseLevels \cup {Bad}])]

RequestInv ==
  /\ query \in Queries \cup {Missing}
  /\ (query = Missing) <=> (data = Missing)
  /\ query # Missing =>
       /\ data \in ClosesOf(query)
       /\ \A p \in PartsOf(query) : \A s \in Wanted(query) :
            data[p][s] # Missing => data[p][s] \in Seq(Close) /\ Len(data[p][s]) <= Limit(query, p)

AnswerInv ==
  answer # Missing =>
    \E q \in Queries : \E d \in ClosesOf(q) :
      /\ answer = [query |-> q, data |-> d, result |-> ResultsOf(q, d)]
      /\ \A p \in PartsOf(q) : \A s \in Wanted(q) : d[p][s] \in Seq(Close)

MultiInv == MarketInv /\ RequestInv /\ AnswerInv

LEMMA QueryFacts ==
  ASSUME NEW q \in Queries
  PROVE  /\ q # Missing /\ PartsOf(q) \subseteq Analytics /\ Wanted(q) \subseteq Symbols
         /\ q.kind \in Analytics \cup {"heatmap"} /\ q.benchmark \in Symbols /\ q.symbols \in Seq(Symbols)
         /\ \A p \in PartsOf(q) : Limit(q, p) \in Nat \ {0}
<1>1. /\ q # Missing /\ q.kind \in Analytics \cup {"heatmap"} /\ q.benchmark \in Symbols /\ q.symbols \in Seq(Symbols)
      /\ (q.window \in Nat \ {0, 1} \/ q.window = Missing)
  BY MultiAssetAssumption
<1>2. PartsOf(q) \subseteq Analytics
  BY <1>1 DEF PartsOf, Fetched, Analytics
<1>3. Range(q.symbols) \subseteq Symbols
  <2>1. PICK names \in Seq(Symbols) : names = q.symbols
    BY <1>1
  <2>2. Range(names) \subseteq Symbols
    BY DEF Range
  <2>. QED
    BY <2>1, <2>2
<1>4. Wanted(q) \subseteq Symbols
  BY <1>1, <1>3 DEF Wanted
<1>5. ASSUME NEW p \in PartsOf(q)
      PROVE  Limit(q, p) \in Nat \ {0}
  <2>1. Extra[p] \in Nat /\ Whole \in Nat \ {0} /\ Most \in Nat \ {0}
    BY <1>2, MultiAssetAssumption
  <2>2. PICK k : k = IF q.window = Missing THEN Whole ELSE q.window + Extra[p]
    OBVIOUS
  <2>3. k \in Nat \ {0}
    <3>1. q.window # Missing => q.window \in Nat \ {0, 1}
      BY <1>1
    <3>2. ASSUME q.window # Missing
          PROVE  q.window + Extra[p] \in Nat \ {0}
      <4>1. PICK w \in Nat \ {0, 1} : w = q.window
        BY <3>1, <3>2
      <4>2. PICK e \in Nat : e = Extra[p]
        BY <2>1
      <4>3. w + e \in Nat \ {0}
        OBVIOUS
      <4>. QED
        BY <4>1, <4>2, <4>3
    <3>. QED
      BY <2>1, <2>2, <3>2
  <2>4. Min({Most, k}) \in {Most, k}
    BY <2>1, <2>3, MinOfSome
  <2>5. Limit(q, p) = Min({Most, k})
    BY <2>2 DEF Limit
  <2>. QED
    BY <2>1, <2>3, <2>4, <2>5
<1>. QED
  BY <1>1, <1>2, <1>4, <1>5

(* What a fetch may bring: at most the latest closes up to the limit. *)
LEMMA FetchedCloses ==
  ASSUME NEW all \in Seq([day : Int, level : CloseLevels \cup {Bad}]), NEW n \in Nat \ {0}
  PROVE  Filtered(LatestOf(all, n), Close) \in Seq(Close) /\ Len(Filtered(LatestOf(all, n), Close)) <= n
<1>. DEFINE X == [day : Int, level : CloseLevels \cup {Bad}]
<1>1. PICK part : part = LatestOf(all, n)
  OBVIOUS
<1>2. n \in Nat /\ n # 0
  OBVIOUS
<1>3. part \in Seq(X) /\ Len(part) = IF n >= Len(all) THEN Len(all) ELSE n
  BY <1>1, <1>2, LatestIs
<1>. HIDE DEF X
<1>4. PICK rest : rest = Filtered(part, Close)
  OBVIOUS
<1>5. rest \in Seq(X) /\ Len(rest) <= Len(part)
  BY <1>3, <1>4, PlacesOf
<1>6. {rest[k] : k \in DOMAIN rest} = {part[i] : i \in DOMAIN part} \cap Close
  BY <1>3, <1>4, FilteredMembers
<1>7. \A k \in 1 .. Len(rest) : rest[k] \in Close
  <2>1. DOMAIN rest = 1 .. Len(rest)
    BY <1>5
  <2>. QED
    BY <1>6, <2>1
<1>8. rest \in Seq(Close)
  <2>1. Len(rest) \in Nat /\ rest = [k \in 1 .. Len(rest) |-> rest[k]]
    BY <1>5
  <2>. QED
    BY <1>7, <2>1
<1>9. Len(rest) <= n
  <2>1. PICK i \in Nat : i = Len(rest)
    BY <1>5
  <2>2. PICK j \in Nat : j = Len(part)
    BY <1>3
  <2>3. j <= n
    <3>1. PICK k \in Nat : k = Len(all)
      BY DEF X
    <3>. QED
      BY <1>3, <2>2, <3>1
  <2>. QED
    BY <1>5, <2>1, <2>2, <2>3
<1>. QED
  BY <1>1, <1>4, <1>8, <1>9

LEMMA AskKeeps ==
  ASSUME MultiInv, NEW q \in Queries, Ask(q)
  PROVE  RequestInv' /\ answer' = Missing
<1>1. q # Missing
  BY QueryFacts
<1>2. PICK d : d = [p \in PartsOf(q) |-> [s \in Wanted(q) |-> Missing]]
  OBVIOUS
<1>3. query' = q /\ data' = d /\ answer' = Missing
  BY <1>2 DEF Ask
<1>4. d \in ClosesOf(q)
  BY <1>2 DEF ClosesOf
<1>5. d # Missing
  BY <1>4, MultiAssetAssumption DEF ClosesOf
<1>6. \A p \in PartsOf(q) : \A s \in Wanted(q) : d[p][s] = Missing
  BY <1>2
<1>. QED
  BY <1>1, <1>3, <1>4, <1>5, <1>6 DEF RequestInv

LEMMA FetchKeeps ==
  ASSUME MultiInv, NEW part \in Analytics, NEW s \in Symbols, Fetch(part, s)
  PROVE  RequestInv'
<1>1. PICK q \in Queries : q = query /\ q # Missing
  BY DEF Fetch, MultiInv, RequestInv
<1>2. part \in PartsOf(q) /\ s \in Wanted(q)
  BY <1>1 DEF Fetch
<1>3. PICK d : d = data
  OBVIOUS
<1>4. /\ d \in ClosesOf(q)
      /\ \A p \in PartsOf(q) : \A t \in Wanted(q) :
           d[p][t] # Missing => d[p][t] \in Seq(Close) /\ Len(d[p][t]) <= Limit(q, p)
  BY <1>1, <1>3 DEF MultiInv, RequestInv
<1>5. PICK n \in Nat \ {0} : n = Limit(q, part)
  BY <1>2, QueryFacts
<1>6. PICK all \in Seq([day : Int, level : CloseLevels \cup {Bad}]) : all = market[s]
  BY DEF MultiInv, MarketInv
<1>7. PICK closes \in {<<>>, Filtered(LatestOf(all, n), Close)} : data' = [d EXCEPT ![part][s] = closes]
  BY <1>1, <1>3, <1>5, <1>6 DEF Fetch
<1>8. closes \in Seq(Close) /\ Len(closes) <= n
  <2>1. PICK rest : rest = Filtered(LatestOf(all, n), Close)
    OBVIOUS
  <2>2. rest \in Seq(Close) /\ Len(rest) <= n
    BY <2>1, FetchedCloses
  <2>3. <<>> \in Seq(Close) /\ Len(<<>>) <= n
    OBVIOUS
  <2>4. closes = <<>> \/ closes = rest
    BY <1>7, <2>1
  <2>. QED
    BY <2>2, <2>3, <2>4
<1>9. PICK e : e = [d EXCEPT ![part][s] = closes]
  OBVIOUS
<1>10. e \in ClosesOf(q) /\ e # Missing
  <2>1. e \in ClosesOf(q)
    BY <1>2, <1>4, <1>8, <1>9 DEF ClosesOf
  <2>. QED
    BY <2>1, MultiAssetAssumption DEF ClosesOf
<1>11. ASSUME NEW p \in PartsOf(q), NEW t \in Wanted(q), e[p][t] # Missing
       PROVE  e[p][t] \in Seq(Close) /\ Len(e[p][t]) <= Limit(q, p)
  <2>1. DOMAIN d = PartsOf(q) /\ DOMAIN d[part] = Wanted(q)
    BY <1>2, <1>4 DEF ClosesOf
  <2>2. e[p][t] = IF p = part /\ t = s THEN closes ELSE d[p][t]
    BY <1>2, <1>9, <2>1
  <2>. QED
    BY <1>4, <1>5, <1>8, <1>11, <2>2
<1>12. query' = q /\ data' = e
  BY <1>1, <1>7, <1>9 DEF Fetch
<1>. QED
  BY <1>1, <1>10, <1>11, <1>12 DEF RequestInv

LEMMA AnswerKeeps ==
  ASSUME MultiInv, Answer
  PROVE  RequestInv' /\ AnswerInv'
<1>1. PICK q \in Queries : q = query /\ q # Missing
  BY DEF Answer, MultiInv, RequestInv
<1>2. PICK d \in ClosesOf(q) : d = data
  BY <1>1 DEF MultiInv, RequestInv
<1>3. \A p \in PartsOf(q) : \A s \in Wanted(q) : d[p][s] \in Seq(Close)
  BY <1>1, <1>2 DEF Answer, MultiInv, RequestInv
<1>4. answer' = [query |-> q, data |-> d, result |-> ResultsOf(q, d)]
  BY <1>1, <1>2 DEF Answer, ResultsOf
<1>5. AnswerInv'
  BY <1>3, <1>4 DEF AnswerInv
<1>6. query' = Missing /\ data' = Missing
  BY DEF Answer
<1>. QED
  BY <1>5, <1>6 DEF RequestInv

LEMMA NewDayKeeps ==
  ASSUME MultiInv, NewDay
  PROVE  MarketInv'
<1>. DEFINE X == [day : Int, level : CloseLevels \cup {Bad}]
<1>1. today \in 0 .. LastClose /\ today' = today + 1 /\ today < LastClose /\ LastClose \in Nat
  BY MultiAssetAssumption DEF NewDay, MultiInv, MarketInv
<1>2. today' \in 0 .. LastClose /\ today' \in Int
  BY <1>1
<1>3. PICK level \in [Symbols -> CloseLevels \cup {Bad}] :
        market' = [s \in Symbols |-> Append(market[s], [day |-> today', level |-> level[s]])]
  BY DEF NewDay
<1>4. ASSUME NEW s \in Symbols
      PROVE  Append(market[s], [day |-> today', level |-> level[s]]) \in Seq(X)
  <2>1. market[s] \in Seq(X)
    BY DEF MultiInv, MarketInv
  <2>2. [day |-> today', level |-> level[s]] \in X
    BY <1>2, <1>3
  <2>. HIDE DEF X
  <2>. QED
    BY <2>1, <2>2
<1>. QED
  BY <1>2, <1>3, <1>4 DEF MarketInv

LEMMA MultiAssetStarts ==
  ASSUME MultiAssetInit
  PROVE  MultiInv
<1>. DEFINE X == [day : Int, level : CloseLevels \cup {Bad}]
<1>1. PICK h \in [Symbols -> Histories] :
        market = [s \in Symbols |-> [i \in DOMAIN h[s] |-> [day |-> i - Len(h[s]), level |-> h[s][i]]]]
  BY DEF MultiAssetInit
<1>2. ASSUME NEW s \in Symbols
      PROVE  [i \in DOMAIN h[s] |-> [day |-> i - Len(h[s]), level |-> h[s][i]]] \in Seq(X)
  <2>1. PICK g : g = h[s]
    OBVIOUS
  <2>2. g \in Seq(CloseLevels \cup {Bad})
    BY <1>1, <2>1, MultiAssetAssumption
  <2>3. PICK n \in Nat : n = Len(g) /\ DOMAIN g = 1 .. n
    BY <2>2
  <2>4. \A i \in 1 .. n : g[i] \in CloseLevels \cup {Bad} /\ i - n \in Int
    BY <2>2, <2>3
  <2>5. \A i \in 1 .. n : [day |-> i - n, level |-> g[i]] \in X
    BY <2>4
  <2>. HIDE DEF X
  <2>6. [i \in 1 .. n |-> [day |-> i - n, level |-> g[i]]] \in Seq(X)
    BY <2>5
  <2>. QED
    BY <2>1, <2>3, <2>6
<1>3. market \in [Symbols -> Seq(X)]
  <2>. HIDE DEF X
  <2>. QED
    BY <1>1, <1>2
<1>4. today \in 0 .. LastClose
  BY MultiAssetAssumption DEF MultiAssetInit
<1>. QED
  BY <1>3, <1>4 DEF MultiAssetInit, MultiInv, MarketInv, RequestInv, AnswerInv

LEMMA MultiAssetKeeps ==
  ASSUME MultiInv, [MultiAssetNext]_multiAsset
  PROVE  MultiInv'
<1>. USE DEF MultiInv
<1>1. CASE \E q \in Queries : Ask(q)
  <2>1. PICK q \in Queries : Ask(q)
    BY <1>1
  <2>2. RequestInv' /\ answer' = Missing
    BY <2>1, AskKeeps
  <2>3. UNCHANGED <<market, today>>
    BY <2>1 DEF Ask
  <2>. QED
    BY <2>2, <2>3 DEF MarketInv, AnswerInv
<1>2. CASE \E part \in Analytics, s \in Symbols : Fetch(part, s)
  <2>1. PICK part \in Analytics, s \in Symbols : Fetch(part, s)
    BY <1>2
  <2>2. RequestInv'
    BY <2>1, FetchKeeps
  <2>3. UNCHANGED <<market, today, answer>>
    BY <2>1 DEF Fetch
  <2>. QED
    BY <2>2, <2>3 DEF MarketInv, AnswerInv
<1>3. CASE Answer
  <2>1. UNCHANGED <<market, today>>
    BY <1>3 DEF Answer
  <2>. QED
    BY <1>3, <2>1, AnswerKeeps DEF MarketInv
<1>4. CASE NewDay
  <2>1. UNCHANGED <<query, data, answer>>
    BY <1>4 DEF NewDay
  <2>. QED
    BY <1>4, <2>1, NewDayKeeps DEF RequestInv, AnswerInv
<1>5. CASE UNCHANGED multiAsset
  BY <1>5 DEF multiAsset, MarketInv, RequestInv, AnswerInv
<1>. QED
  BY <1>1, <1>2, <1>3, <1>4, <1>5 DEF MultiAssetNext

(* The latest answer: the closes that came for a query, and what was       *)
(* computed from them.                                                     *)
LEMMA AnswerIs ==
  ASSUME MultiInv, NEW part, Answered(part)
  PROVE  \E q, closes :
           /\ q \in Queries /\ part \in PartsOf(q) /\ answer.query = q /\ answer.data[part] = closes
           /\ answer.result[part] = ResultOf(q, part, closes)
           /\ \A s \in Wanted(q) : closes[s] \in Seq(Close)
<1>1. PICK q, d :
        /\ q \in Queries /\ d \in ClosesOf(q)
        /\ answer = [query |-> q, data |-> d, result |-> ResultsOf(q, d)]
        /\ \A p \in PartsOf(q) : \A s \in Wanted(q) : d[p][s] \in Seq(Close)
  BY DEF MultiInv, AnswerInv, Answered
<1>2. answer.query = q /\ answer.data = d /\ answer.result = ResultsOf(q, d)
  BY <1>1
<1>3. part \in PartsOf(q)
  BY <1>2 DEF Answered, ResultsOf
<1>4. answer.result[part] = ResultOf(q, part, d[part])
  BY <1>2, <1>3 DEF ResultsOf
<1>. QED
  BY <1>1, <1>2, <1>3, <1>4

LEMMA CorrelationIsByDays ==
  ASSUME MultiInv
  PROVE  CorrelationByDays
<1>. SUFFICES ASSUME Answered("correlation")
              PROVE  CorrelationByDays
  BY DEF CorrelationByDays
<1>1. PICK q, closes :
        /\ q \in Queries /\ "correlation" \in PartsOf(q) /\ answer.query = q /\ answer.data["correlation"] = closes
        /\ answer.result["correlation"] = ResultOf(q, "correlation", closes)
        /\ \A s \in Wanted(q) : closes[s] \in Seq(Close)
  BY AnswerIs
<1>. q \in Queries
  BY <1>1
<1>2. PICK matrix : matrix = answer.result["correlation"]
  OBVIOUS
<1>3. PICK W \in Nat \ {0, 1} : W = q.window
  <2>1. q.kind # "relative"
    BY <1>1 DEF PartsOf
  <2>. QED
    BY <2>1, MultiAssetAssumption
<1>4. matrix = [ab \in Range(q.symbols) \X Range(q.symbols) |->
                  IF ab[1] = ab[2] THEN 1 ELSE PairEntry(closes, W, ab[1], ab[2])]
  BY <1>1, <1>2, <1>3 DEF ResultOf, CorrelationMatrix
<1>5. ASSUME NEW a \in Range(q.symbols), NEW b \in Range(q.symbols), a # b, SameDays(closes[a], closes[b])
      PROVE  matrix[<<a, b>>] = DayCorrelation(closes[a], closes[b], Min({W, Len(closes[a]) - 1, Len(closes[b]) - 1}))
  <2>1. matrix[<<a, b>>] = PairEntry(closes, W, a, b)
    BY <1>4, <1>5
  <2>2. closes[a] \in Seq(Close) /\ closes[b] \in Seq(Close)
    BY <1>1 DEF Wanted
  <2>3. W \in Nat /\ W # 0
    OBVIOUS
  <2>4. PairEntry(closes, W, a, b) = DaysOfBoth(closes[a], closes[b], W)
    BY <1>5, <2>2, <2>3, PairByDays DEF SameDays, Daily
  <2>. QED
    BY <2>1, <2>4 DEF DaysOfBoth
<1>. QED
  BY <1>1, <1>2, <1>3, <1>5 DEF CorrelationByDays, W0

LEMMA BetaIsByDays ==
  ASSUME MultiInv
  PROVE  BetaByDays
<1>. SUFFICES ASSUME Answered("beta")
              PROVE  BetaByDays
  BY DEF BetaByDays
<1>1. PICK q, closes :
        /\ q \in Queries /\ "beta" \in PartsOf(q) /\ answer.query = q /\ answer.data["beta"] = closes
        /\ answer.result["beta"] = ResultOf(q, "beta", closes)
        /\ \A s \in Wanted(q) : closes[s] \in Seq(Close)
  BY AnswerIs
<1>. q \in Queries
  BY <1>1
<1>2. q.kind = "beta"
  BY <1>1 DEF PartsOf, Fetched
<1>3. PICK metrics : metrics = BetaMetrics(q, closes)
  OBVIOUS
<1>4. answer.result["beta"] = metrics /\ DOMAIN metrics = Others(q)
  BY <1>1, <1>3 DEF ResultOf, BetaMetrics
<1>5. PICK y \in Seq(Close) : y = closes[q.benchmark]
  BY <1>1, <1>2 DEF Wanted
<1>6. ASSUME NEW s \in Others(q)
      PROVE  BetaSays(q, closes[s], y, metrics[s])
  <2>1. closes[s] \in Seq(Close) /\ closes[q.benchmark] \in Seq(Close)
    BY <1>1, <1>5 DEF Others, Wanted
  <2>. QED
    BY <1>2, <1>3, <1>5, <2>1, BetaOfDays
<1>. QED
  BY <1>1, <1>4, <1>5, <1>6 DEF BetaByDays, BetaSays, W0

LEMMA RanksFollow ==
  ASSUME MultiInv
  PROVE  RanksFollowVolatility
<1>. SUFFICES ASSUME Answered("volatility")
              PROVE  RanksFollowVolatility
  BY DEF RanksFollowVolatility
<1>1. PICK q, closes :
        /\ q \in Queries /\ "volatility" \in PartsOf(q) /\ answer.query = q /\ answer.data["volatility"] = closes
        /\ answer.result["volatility"] = ResultOf(q, "volatility", closes)
        /\ \A s \in Wanted(q) : closes[s] \in Seq(Close)
  BY AnswerIs
<1>. q \in Queries
  BY <1>1
<1>2. q.kind \in {"volatility", "heatmap"} /\ \A s \in Range(q.symbols) : closes[s] \in Seq(Close)
  BY <1>1 DEF PartsOf, Wanted
<1>3. PICK heat : heat = VolatilityHeatmap(q, closes)
  OBVIOUS
<1>4. answer.result["volatility"] = heat
  BY <1>1, <1>3 DEF ResultOf
<1>5. /\ \A s \in DOMAIN heat :
           LET x == closes[s]
               n == Len(x) - LeftOut(q)
               a == FirstCloses(x, n)
           IN  IF n <= q.window THEN heat[s].vol = Missing
               ELSE Gapless(x) => heat[s].vol = DayCov(a, a, q.window)
      /\ \A s, t \in DOMAIN heat :
           heat[s].vol # Missing /\ (heat[t].vol = Missing \/ heat[s].vol < heat[t].vol)
             => heat[s].rank < heat[t].rank
  BY <1>2, <1>3, HeatmapRanks
<1>. QED
  BY <1>1, <1>4, <1>5 DEF RanksFollowVolatility, W0

LEMMA SeriesMeet ==
  ASSUME MultiInv
  PROVE  SeriesMeetReturns
<1>. SUFFICES ASSUME Answered("relative")
              PROVE  SeriesMeetReturns
  BY DEF SeriesMeetReturns
<1>1. PICK q, closes :
        /\ q \in Queries /\ "relative" \in PartsOf(q) /\ answer.query = q /\ answer.data["relative"] = closes
        /\ answer.result["relative"] = ResultOf(q, "relative", closes)
        /\ \A s \in Wanted(q) : closes[s] \in Seq(Close)
  BY AnswerIs
<1>. q \in Queries
  BY <1>1
<1>2. q.kind = "relative"
  BY <1>1 DEF PartsOf, Fetched
<1>3. PICK performance : performance = RelativePerformance(q, closes)
  OBVIOUS
<1>4. answer.result["relative"] = performance /\ DOMAIN performance = Range(q.symbols)
  BY <1>1, <1>3 DEF ResultOf, RelativePerformance
<1>5. PICK y \in Seq(Close) : y = closes[q.benchmark]
  BY <1>1, <1>2 DEF Wanted
<1>6. ASSUME NEW s \in Range(q.symbols), closes[s] # <<>>, y # <<>>
      PROVE  /\ Last(performance[s].series) = [asset |-> performance[s].total, benchmark |-> performance[s].benchmark]
             /\ Len(performance[s].series) = SliceLen(q, closes[s], y)
             /\ SameDays(closes[s], y) => SeriesSay(performance[s], closes[s], y)
  <2>1. PICK x \in Seq(Close) : x = closes[s]
    BY <1>1 DEF Wanted
  <2>2. PICK r : r = performance[s]
    OBVIOUS
  <2>3. r = RelativePerformance(q, closes)[s] /\ x # <<>>
    BY <1>3, <1>6, <2>1, <2>2
  <2>4. Rebased(r, x, y, SliceLen(q, x, y))
    BY <1>5, <1>6, <2>1, <2>3, RebasedIs
  <2>5. Last(r.series) = [asset |-> r.total, benchmark |-> r.benchmark] /\ Len(r.series) = SliceLen(q, x, y)
    BY <2>4 DEF Rebased, Last
  <2>6. SameDays(x, y) => SeriesSay(r, x, y)
    BY <1>5, <1>6, <2>1, <2>3, RebasedByDays
  <2>. QED
    BY <2>1, <2>2, <2>5, <2>6
<1>7. DOMAIN answer.result["relative"] = Range(q.symbols) /\ W0 = q.window
  BY <1>1, <1>4 DEF W0
<1>8. ASSUME NEW s \in Range(q.symbols), answer.data["relative"][s] # <<>>,
             answer.data["relative"][answer.query.benchmark] # <<>>
      PROVE  LET x == answer.data["relative"][s]
                 y0 == answer.data["relative"][answer.query.benchmark]
                 r == answer.result["relative"][s]
             IN  /\ Last(r.series) = [asset |-> r.total, benchmark |-> r.benchmark]
                 /\ Len(r.series) = Min({Len(x), Len(y0)} \cup (IF q.window = Missing THEN {} ELSE {q.window + 1}))
                 /\ SameDays(x, y0) => SeriesSay(r, x, y0)
  <2>1. answer.data["relative"] = closes /\ answer.query = q /\ closes[q.benchmark] = y
    BY <1>1, <1>5
  <2>. QED
    BY <1>4, <1>6, <1>8, <2>1 DEF SliceLen
<1>. QED
  BY <1>7, <1>8, Zenon DEF SeriesMeetReturns, SeriesSay

LEMMA MultiAssetTypes ==
  ASSUME MultiInv
  PROVE  MultiAssetTypeOK
<1>1. ASSUME query # Missing
      PROVE  /\ DOMAIN data = PartsOf(query)
             /\ \A p \in PartsOf(query) : \A s \in Wanted(query) : data[p][s] # Missing =>
                  Len(data[p][s]) <= Limit(query, p) /\ \A i \in DOMAIN data[p][s] : data[p][s][i].level # Bad
  <2>1. DOMAIN data = PartsOf(query)
    BY <1>1 DEF MultiInv, RequestInv, ClosesOf
  <2>2. ASSUME NEW p \in PartsOf(query), NEW s \in Wanted(query), data[p][s] # Missing
        PROVE  Len(data[p][s]) <= Limit(query, p) /\ \A i \in DOMAIN data[p][s] : data[p][s][i].level # Bad
    <3>1. PICK x \in Seq(Close) : x = data[p][s] /\ Len(x) <= Limit(query, p)
      BY <1>1, <2>2 DEF MultiInv, RequestInv
    <3>2. \A i \in DOMAIN x : x[i].level \in Int
      <4>1. DOMAIN x = 1 .. Len(x)
        OBVIOUS
      <4>. QED
        BY <4>1, LevelsAreNumbers
    <3>. QED
      BY <3>1, <3>2, MultiAssetAssumption
  <2>. QED
    BY <2>1, <2>2
<1>. QED
  BY <1>1 DEF MultiInv, MarketInv, RequestInv, MultiAssetTypeOK

(* Requests keep to their queries, and answers to the closes that came     *)
(* (multiAssetEngine.js:118-129, 150-403).                                 *)
THEOREM MultiAssetInductive ==
  MultiAssetSpec => []MultiInv
<1>. QED
  BY MultiAssetStarts, MultiAssetKeeps, PTL DEF MultiAssetSpec

(* Whoever asks while days close, and whatever comes of a fetch: of        *)
(* symbols that close every day, correlations and rebased series are of    *)
(* the same latest days, a beta counts from the first day of each history, *)
(* volatilities are of the latest window, or of the one before when it has *)
(* a fraction, and ranks follow them (multiAssetEngine.js:150-403).        *)
THEOREM AssetsAreHonest ==
  MultiAssetSpec => []AssetsHonest
<1>1. MultiInv => AssetsHonest
  BY CorrelationIsByDays, BetaIsByDays, RanksFollow, SeriesMeet DEF AssetsHonest
<1>. QED
  BY <1>1, MultiAssetInductive, PTL

----------------------------------------------------------------------------
(* The analysis as a whole: each component keeps its own invariant while   *)
(* it moves, and rests while another one does.                             *)

AnalysisInv ==
  LedgerInv /\ FlowInv /\ ServiceInv /\ RegistryInv /\ PrepInv /\ AiInv /\ ToolkitInv /\ MultiInv

LEMMA AnalysisStarts == AnalysisInit => AnalysisInv
  BY LedgerStarts, FlowStarts, ServiceStarts, RegistryInit, PrepStarts, AiStarts, ToolkitStarts, MultiAssetStarts
  DEF AnalysisInit, AnalysisInv

LEMMA AnalysisStepKeeps ==
  ASSUME AnalysisInv, [AnalysisNext]_<<backtestVars, flowVars, serviceVars, signalVars, dataPrepVars, aiVars, toolkit, multiAsset, focus>>
  PROVE  AnalysisInv'
<1>1. [BacktestNext]_backtestVars => LedgerInv'
  BY LedgerKeeps DEF AnalysisInv
<1>2. [FlowNext]_flowVars => FlowInv'
  BY FlowStepKeeps DEF AnalysisInv
<1>3. [ServiceNext]_serviceVars => ServiceInv'
  BY ServiceStepKeeps DEF AnalysisInv
<1>4. [SignalNext]_signalVars => RegistryInv'
  BY RegistryStep DEF AnalysisInv
<1>5. [PrepNext]_dataPrepVars => PrepInv'
  BY PrepKeeps DEF AnalysisInv
<1>6. [AiNext]_aiVars => AiInv'
  BY AiStepKeeps DEF AnalysisInv
<1>7. [ToolkitNext]_toolkit => ToolkitInv'
  BY ToolkitStepKeeps DEF AnalysisInv
<1>8. [MultiAssetNext]_multiAsset => MultiInv'
  BY MultiAssetKeeps DEF AnalysisInv
<1>9. /\ [BacktestNext]_backtestVars /\ [FlowNext]_flowVars /\ [ServiceNext]_serviceVars
      /\ [SignalNext]_signalVars /\ [PrepNext]_dataPrepVars /\ [AiNext]_aiVars
      /\ [ToolkitNext]_toolkit /\ [MultiAssetNext]_multiAsset
  BY Zenon DEF AnalysisNext, SignalNext
<1>. QED
  BY <1>1, <1>2, <1>3, <1>4, <1>5, <1>6, <1>7, <1>8, <1>9 DEF AnalysisInv

(* The inductive invariants of the components of the analysis hold of the  *)
(* whole (server/backtest, charting, ai, institutional, multiAsset).       *)
THEOREM AnalysisInductive == AnalysisSpec => []AnalysisInv
<1>. QED
  BY AnalysisStarts, AnalysisStepKeeps, PTL DEF AnalysisSpec

(* Every variable of the analysis keeps to its type, for any number of     *)
(* callers, processes, trainings, jobs, candles and closes (server/ai,     *)
(* backtest, charting, institutional, multiAsset).                         *)
THEOREM AnalysisTypeCorrect == AnalysisSpec => []AnalysisTypeOK
<1>1. AnalysisInv => AnalysisTypeOK
  BY LedgerTypes, FlowTypes, ServiceTypes, RegistryTypes, PrepTypes, AiTypes, MultiAssetTypes
  DEF AnalysisInv, AnalysisTypeOK, ToolkitInv
<1>. QED
  BY <1>1, AnalysisInductive, PTL
=============================================================================
