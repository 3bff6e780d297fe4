----------------------------- MODULE MultiAsset -----------------------------
(***************************************************************************)
(* The multi-asset analytics (server/multiAsset/): correlations, betas,    *)
(* volatilities and rebased performance, computed from the closes that are *)
(* fetched for each symbol by itself, while the market goes on.  Closes    *)
(* are given by their logarithm, in whole steps, so that log returns are   *)
(* differences; they keep their day, which only the properties look at.  A *)
(* window is its whole part, with a flag when the request gave a fraction. *)
(* Roots, annual factors and the rounding of what is sent are left out.    *)
(* Nothing calls sectorRotation, and the routes over a stored dataset are  *)
(* computed by Macro.                                                      *)
(***************************************************************************)
EXTENDS Integers, Sequences, SequencesExt, FiniteSetsExt, Functions, Filter

CONSTANTS
  Symbols, Bad,    \* Bad: a close that is no positive number
  Missing,
  CloseLevels,     \* what a symbol may close at (a bound)
  Histories,       \* the closes of a symbol before the first request (a bound)
  Queries,         \* what clients ask for (a bound)
  Extra,           \* per kind, the closes asked for beyond the window: 60, 100
  Whole, Most,     \* closes of a query without a window (252), and of any (500)
  LastClose        \* bound: the market ends here

Analytics == {"correlation", "beta", "volatility", "relative"}
Fetched == {"correlation", "volatility"}   \* the parts of the combined heatmap

Close == [day : Int, level : CloseLevels]
PartsOf(q) == IF q.kind = "heatmap" THEN Fetched ELSE {q.kind}
Wanted(q) == Range(q.symbols) \cup (IF q.kind \in {"beta", "relative"} THEN {q.benchmark} ELSE {})

ASSUME MultiAssetAssumption ==
  /\ CloseLevels \subseteq Int /\ Bad \notin Int /\ {Whole, Most} \subseteq Nat \ {0}
  /\ Missing \notin Int \cup Queries
  /\ Extra \in [Analytics -> Nat] /\ LastClose \in Nat
  /\ \A h \in Histories : h \in Seq(CloseLevels \cup {Bad})
  /\ \A q \in Queries :
       /\ q.kind \in Analytics \cup {"heatmap"} /\ q.benchmark \in Symbols
       /\ q.symbols \in Seq(Symbols) /\ q.symbols # <<>>
       /\ q.window \in Nat \ {0, 1} \/ (q.kind = "relative" /\ q.window = Missing)
       /\ q.fractional \in BOOLEAN
       /\ Missing \notin [PartsOf(q) -> [Wanted(q) -> Seq(Close) \cup {Missing}]]

VARIABLES
  market,   \* per symbol, its candles, a day each
  today,
  query,    \* the request that waits for its fetches
  data,     \* per part of the request and symbol, the closes that came, Missing before
  answer    \* the answer to the latest request, with what it was computed from

multiAsset == <<market, today, query, data, answer>>

----------------------------------------------------------------------------
(* Math helpers *)

(* slice(-n), and slice(-0) is all of it. *)
LatestOf(s, n) == IF n = 0 \/ n >= Len(s) THEN s ELSE SubSeq(s, Len(s) - n + 1, Len(s))

LogReturns(closes) == [i \in 1 .. Len(closes) - 1 |-> closes[i + 1].level - closes[i].level]

Shorter(a, b) == Min({Len(a), Len(b)})

Sum1(a, n) == SumFunctionOnSet(a, 1 .. n)
Sum2(a, b, n) == SumFunction([i \in 1 .. n |-> a[i] * b[i]])

(* Covariance over the first observations of both, times their number squared. *)
Cov(a, b, n) == IF n < 2 THEN 0 ELSE n * Sum2(a, b, n) - Sum1(a, n) * Sum1(b, n)

Pearson(a, b) ==
  LET n == Shorter(a, b)
  IN  IF Cov(a, a, n) = 0 \/ Cov(b, b, n) = 0 THEN Missing
      ELSE [cov |-> Cov(a, b, n), va |-> Cov(a, a, n), vb |-> Cov(b, b, n)]

Beta(asset, bm) ==
  LET n == Shorter(asset, bm)
  IN  IF Cov(bm, bm, n) = 0 THEN Missing ELSE [cov |-> Cov(asset, bm, n), vb |-> Cov(bm, bm, n)]

----------------------------------------------------------------------------
(* The computations, on closes per symbol *)

\* Mutant: both are compared from their first observation.
UnalignedPair(closes, W, a, b) ==
  LET rA == LatestOf(LogReturns(closes[a]), W)
      rB == LatestOf(LogReturns(closes[b]), W)
  IN  IF Shorter(rA, rB) < 2 THEN Missing ELSE Pearson(rA, rB)

PairEntry(closes, W, a, b) ==
  LET rA == LatestOf(LogReturns(closes[a]), W)
      rB == LatestOf(LogReturns(closes[b]), W)
      n  == Shorter(rA, rB)
  IN  IF n < 2 THEN Missing ELSE Pearson(LatestOf(rA, n), LatestOf(rB, n))

CorrelationMatrix(q, closes) ==
  [ab \in Range(q.symbols) \X Range(q.symbols) |->
     IF ab[1] = ab[2] THEN 1 ELSE PairEntry(closes, q.window, ab[1], ab[2])]

(* Rolling windows of a fraction more than W end a fraction after an       *)
(* observation: the last observation is in none of them.                   *)
LeftOut(q) == IF q.fractional THEN 1 ELSE 0

\* Mutant: the window that ends with the last observation is left out.
RollingShort(n, W, k) == W .. n - k - 1

(* Where the windows end. *)
Rolling(n, W, k) == W .. n - k

Others(q) == {s \in Range(q.symbols) : s # q.benchmark}

BetaMetrics(q, closes) ==
  [s \in Others(q) |->
     LET asset == LogReturns(closes[s])
         bm    == LogReturns(closes[q.benchmark])
         n     == Shorter(asset, bm)
         W     == q.window
         k     == LeftOut(q)
         rolling == [i \in Rolling(n, W, k) |-> Beta(SubSeq(asset, i - W + 1, i), SubSeq(bm, i - W + 1, i))]
     IN  [beta        |-> IF DOMAIN rolling = {} THEN Missing ELSE rolling[Max(DOMAIN rolling)],
          correlation |-> IF n - k >= W THEN Pearson(LatestOf(asset, W), LatestOf(bm, W)) ELSE Missing,
          points      |-> n]]

CurrentVol(closes, W, k) ==
  LET returns == LogReturns(closes)
      ends    == Rolling(Len(returns), W, k)
      last(i) == SubSeq(returns, i - W + 1, i)
  IN  IF ends = {} THEN Missing ELSE Cov(last(Max(ends)), last(Max(ends)), W)

\* Mutant: what has no volatility comes first.
MissingBelow(u, v) == v # Missing /\ (u = Missing \/ u < v)

(* No volatility is as much as infinite. *)
Below(u, v) == u # Missing /\ (v = Missing \/ u < v)

Volatilities(q, closes) == [k \in DOMAIN q.symbols |-> CurrentVol(closes[q.symbols[k]], q.window, LeftOut(q))]
UpToPlace(vols, k) == {j \in DOMAIN vols : Below(vols[j], vols[k]) \/ (vols[j] = vols[k] /\ j <= k)}

(* A symbol that is asked for twice has the later of its ranks. *)
VolatilityHeatmap(q, closes) ==
  LET vols == Volatilities(q, closes)
  IN  [s \in Range(q.symbols) |->
         [vol  |-> CurrentVol(closes[s], q.window, LeftOut(q)),
          rank |-> Max({Cardinality(UpToPlace(vols, k)) : k \in {j \in DOMAIN vols : q.symbols[j] = s}})]]

\* Mutant: as many closes as the window has returns.
SliceLenShort(q, asset, bm) ==
  Min({Len(asset), Len(bm)} \cup (IF q.window = Missing THEN {} ELSE {q.window}))

SliceLen(q, asset, bm) ==
  Min({Len(asset), Len(bm)} \cup (IF q.window = Missing THEN {} ELSE {q.window + 1}))

TotalReturn(closes) == IF Len(closes) < 2 THEN 0 ELSE Last(closes).level - Head(closes).level

(* Rebased series are given by their distance from the start. *)
RelativePerformance(q, closes) ==
  [s \in Range(q.symbols) |->
     LET n     == SliceLen(q, closes[s], closes[q.benchmark])
         asset == LatestOf(closes[s], n)
         bm    == LatestOf(closes[q.benchmark], n)
         rA    == LogReturns(asset)
         rB    == LogReturns(bm)
     IN  [total |-> TotalReturn(asset), benchmark |-> TotalReturn(bm), from |-> bm,
          series |-> [i \in 1 .. Shorter(rA, rB) + 1 |->
                        [asset |-> Sum1(rA, i - 1), benchmark |-> Sum1(rB, i - 1)]]]]

----------------------------------------------------------------------------
(* Requests *)

Limit(q, part) == Min({Most, IF q.window = Missing THEN Whole ELSE q.window + Extra[part]})

Ask(q) ==
  /\ query = Missing
  /\ query' = q
  /\ data' = [p \in PartsOf(q) |-> [s \in Wanted(q) |-> Missing]]
  /\ answer' = Missing /\ UNCHANGED <<market, today>>

(* _fetchCloses: what fails gives no closes. *)
Fetch(part, s) ==
  /\ query # Missing /\ part \in PartsOf(query) /\ s \in Wanted(query) /\ data[part][s] = Missing
  /\ \E closes \in {<<>>,
                    Filtered(LatestOf(market[s], Limit(query, part)), Close)} :
       data' = [data EXCEPT ![part][s] = closes]
  /\ UNCHANGED <<market, today, query, answer>>

ResultOf(q, part, closes) ==
  CASE part = "correlation" -> CorrelationMatrix(q, closes)
    [] part = "beta"        -> BetaMetrics(q, closes)
    [] part = "volatility"  -> VolatilityHeatmap(q, closes)
    [] part = "relative"    -> RelativePerformance(q, closes)

Answer ==
  /\ query # Missing /\ \A p \in PartsOf(query) : \A s \in Wanted(query) : data[p][s] # Missing
  /\ answer' = [query |-> query, data |-> data,
                result |-> [p \in PartsOf(query) |-> ResultOf(query, p, data[p])]]
  /\ query' = Missing /\ data' = Missing
  /\ UNCHANGED <<market, today>>

(* Each symbol closes; a close may be unusable. *)
NewDay ==
  /\ today < LastClose /\ today' = today + 1
  /\ \E level \in [Symbols -> CloseLevels \cup {Bad}] :
       market' = [s \in Symbols |-> Append(market[s], [day |-> today', level |-> level[s]])]
  /\ UNCHANGED <<query, data, answer>>

MultiAssetInit ==
  /\ today = 0 /\ query = Missing /\ data = Missing /\ answer = Missing
  /\ \E h \in [Symbols -> Histories] :
       market = [s \in Symbols |-> [i \in DOMAIN h[s] |-> [day |-> i - Len(h[s]), level |-> h[s][i]]]]

MultiAssetNext ==
  \/ \E q \in Queries : Ask(q)
  \/ \E part \in Analytics, s \in Symbols : Fetch(part, s)
  \/ Answer \/ NewDay

MultiAssetSpec == MultiAssetInit /\ [][MultiAssetNext]_multiAsset

----------------------------------------------------------------------------
(* Properties *)

Answered(part) == answer # Missing /\ part \in DOMAIN answer.result
W0 == answer.query.window

(* A day each and no gap; and both end on the same day. *)
Gapless(closes) == \A i \in 1 .. Len(closes) - 1 : closes[i + 1].day = closes[i].day + 1
SameDays(x, y) == x # <<>> /\ y # <<>> /\ Gapless(x) /\ Gapless(y) /\ Last(x).day = Last(y).day

(* The return of a day, and sums over the latest days. *)
LevelOn(closes, d) == (CHOOSE c \in Range(closes) : c.day = d).level
DayReturn(closes, d) == LevelOn(closes, d) - LevelOn(closes, d - 1)
LatestDays(closes, n) == Last(closes).day - n + 1 .. Last(closes).day

(* Over the latest days of each: the same days when both end on one.       *)
DayCov(x, y, n) ==
  LET days == LatestDays(x, n)
      lag  == Last(y).day - Last(x).day
  IN  n * SumFunction([d \in days |-> DayReturn(x, d) * DayReturn(y, d + lag)])
        - SumFunction([d \in days |-> DayReturn(x, d)]) * SumFunction([d \in days |-> DayReturn(y, d + lag)])

DayCorrelation(x, y, n) ==
  IF n < 2 \/ DayCov(x, x, n) = 0 \/ DayCov(y, y, n) = 0 THEN Missing
  ELSE [cov |-> DayCov(x, y, n), va |-> DayCov(x, x, n), vb |-> DayCov(y, y, n)]

(* Types; one request at a time, whose fetches are its own. *)
MultiAssetTypeOK ==
  /\ today \in 0 .. LastClose /\ query \in Queries \cup {Missing}
  /\ (query = Missing) <=> (data = Missing)
  /\ query # Missing =>
       /\ DOMAIN data = PartsOf(query)
       /\ \A p \in PartsOf(query) : \A s \in Wanted(query) : data[p][s] # Missing =>
            Len(data[p][s]) <= Limit(query, p) /\ \A i \in DOMAIN data[p][s] : data[p][s][i].level # Bad

(* When two symbols closed every day up to the same one, the matrix pairs  *)
(* returns of the same days, the latest that both have                     *)
(* (multiAssetEngine.js:157-158, 170-184).                                 *)
CorrelationByDays ==
  Answered("correlation") =>
    \A a, b \in Range(answer.query.symbols) :
      LET x == answer.data["correlation"][a]
          y == answer.data["correlation"][b]
      IN  a # b /\ SameDays(x, y) =>
            answer.result["correlation"][<<a, b>>]
              = DayCorrelation(x, y, Min({W0, Len(x) - 1, Len(y) - 1}))

(* The correlation beside a beta is of the latest days.  The beta counts   *)
(* from the first day of each history, and stops where the shorter one     *)
(* does, or a day before with a window of a fraction: so it is of the same *)
(* days only when both histories begin on one                              *)
(* (multiAssetEngine.js:209-231).                                          *)
FirstCloses(x, n) == SubSeq(x, 1, n)
BetaByDays ==
  Answered("beta") =>
    \A s \in DOMAIN answer.result["beta"] :
      LET x == answer.data["beta"][s]
          y == answer.data["beta"][answer.query.benchmark]
          r == answer.result["beta"][s]
          n == r.points - LeftOut(answer.query)
          a == FirstCloses(x, n + 1)
          b == FirstCloses(y, n + 1)
      IN  Gapless(x) /\ Gapless(y) /\ n >= W0 =>
            /\ r.correlation = DayCorrelation(x, y, W0)
            /\ IF DayCov(b, b, W0) = 0 THEN r.beta = Missing
               ELSE r.beta = [cov |-> DayCov(a, b, W0), vb |-> DayCov(b, b, W0)]

(* Volatility is that of the latest window, or of the one a day before     *)
(* when the window has a fraction; less of it ranks lower, and a symbol    *)
(* without data ranks last (multiAssetEngine.js:311-345).                  *)
RanksFollowVolatility ==
  Answered("volatility") =>
    LET heat == answer.result["volatility"]
    IN  /\ \A s \in DOMAIN heat :
             LET x == answer.data["volatility"][s]
                 n == Len(x) - LeftOut(answer.query)
                 a == FirstCloses(x, n)
             IN  IF n <= W0 THEN heat[s].vol = Missing
                 ELSE Gapless(x) => heat[s].vol = DayCov(a, a, W0)
        /\ \A s, t \in DOMAIN heat :
             heat[s].vol # Missing /\ (heat[t].vol = Missing \/ heat[s].vol < heat[t].vol)
               => heat[s].rank < heat[t].rank

(* The rebased series end where the returns say, and cover the window of   *)
(* both, or all that the shorter has; day by day, when both closed every   *)
(* day up to the same one (multiAssetEngine.js:359-403).                   *)
SeriesMeetReturns ==
  Answered("relative") =>
    \A s \in DOMAIN answer.result["relative"] :
      LET x == answer.data["relative"][s]
          y == answer.data["relative"][answer.query.benchmark]
          r == answer.result["relative"][s]
      IN  x # <<>> /\ y # <<>> =>
            /\ Last(r.series) = [asset |-> r.total, benchmark |-> r.benchmark]
            /\ Len(r.series) = Min({Len(x), Len(y)} \cup (IF W0 = Missing THEN {} ELSE {W0 + 1}))
            /\ SameDays(x, y) => \A i \in DOMAIN r.series :
                 LET d == Last(x).day - Len(r.series) + i
                 IN  r.series[i].asset - r.series[i].benchmark
                       = (LevelOn(x, d) - LevelOn(x, Head(r.from).day))
                           - (LevelOn(y, d) - LevelOn(y, Head(r.from).day))

(* What is computed by position is what the days say, as far as symbols    *)
(* close every day.  Closes that are dropped (multiAssetEngine.js:122-124) *)
(* leave gaps, and then positions pair different days.                     *)
AssetsHonest == CorrelationByDays /\ BetaByDays /\ RanksFollowVolatility /\ SeriesMeetReturns

=============================================================================
