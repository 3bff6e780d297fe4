----------------------------- MODULE MCAnalysis -----------------------------
(***************************************************************************)
(* The analysis of signals in one run: backtests, the volume engines of    *)
(* the charts, the Python prediction service, the Python trainings with    *)
(* their data and registry, and the AI services; and the two analysis      *)
(* engines beside them, the institutional toolkit and the multi-asset      *)
(* analytics.  They share no state, so that a behaviour follows one of     *)
(* them, the focus, and the others rest.                                   *)
(***************************************************************************)
EXTENDS Backtest, OrderFlow, PredictionService, SignalRegistry, SignalData, AiServices,
        Institutional, MultiAsset

CONSTANTS c1, c2, pr1, pr2, f1, f2, j1, j2, sym, other, stock, bond, bench

VARIABLE focus

----------------------------------------------------------------------------
(* Backtests: candles that stop, reach or pass both levels, one without an *)
(* open; a demo history that wins and loses; candidates for either side.   *)

Candle(o, h, l, c) == [o |-> o, h |-> h, l |-> l, c |-> c]
Flat == Candle(10, 10, 10, 10)
Dip == Candle(10, 10, 8, 9)
Spike == Candle(10, 13, 10, 12)
Wide == Candle(0, 13, 8, 11)
SomeCandles == {Flat, Wide}
SomeDemo == <<Flat, Spike, Dip, Spike, Wide, Dip, Flat>>
OneConfig == {[stop |-> 10, target |-> 20, slippage |-> 1, commission |-> 0, holding |-> 1]}
OneSplit == {[train |-> 1, test |-> 2, step |-> 1]}
Reports(d, strong) == [direction |-> d, strong |-> strong, confidence |-> IF strong THEN 80 ELSE 20]
SomeSignals == {
  <<{Reports("bullish", FALSE)}, {}>>,
  <<{Reports("bullish", TRUE), Reports("bearish", FALSE)}, {Reports("bullish", FALSE), Reports("bearish", TRUE)}>>}

----------------------------------------------------------------------------
(* Order flow: trades at the ask and at the bid, inside the spread and     *)
(* without a quote; charts with two days, the hours before a session, and a*)
(* doji.                                                                   *)

Trade(v, b, a, p) == [volume |-> v, bid |-> b, ask |-> a, price |-> p]
SomeTicks ==
  {Trade(1, 10, 12, 12), Trade(2, 10, 12, 10), Trade(1, 10, 12, 11), Trade(1, 0, 0, 11)}
Bar(d, p, o, h, l, c, v) == [day |-> d, part |-> p, o |-> o, h |-> h, l |-> l, c |-> c, volume |-> v]
Monday == Bar(1, "session", 2, 7, 1, 6, 6)
Early == Bar(2, "before", 5, 8, 3, 4, 5)
Doji == Bar(2, "session", 4, 4, 4, 4, 3)
Late == Bar(2, "session", 2, 3, 1, 2, 8)
SomeCharts == (BoundedSeq({Monday, Early, Doji, Late}, 2) \cup {<<Monday, Late, Late>>, <<Early, Monday, Doji>>}) \ {<<>>}

\* While ticks are logged, one chart is enough, and nothing is pushed.
FlowBound == log' # <<>> => chart' \in {<<>>, <<Monday>>} /\ pushed' = <<>>

----------------------------------------------------------------------------
(* The service: an operator stops it while one call is under way, or two   *)
(* calls go on without one.  Once the reader of the first process crashes, *)
(* while that lives, there is no second one.  One call at most is refused  *)
(* a process; the last process there may be ends only when a thread stops  *)
(* it, and its watchdog starts no other.  Trainings: two of the three kinds.*)

Crashed == {r \in Workers : reader'[r] = "crashed"}

ServiceBound ==
  /\ (\E o \in Operators : at'[o] # "idle") => \E c \in Callers : at'[c] = "idle"
  /\ Crashed # {} => spawned' = 1 /\ \A o \in Operators : at'[o] = "idle"
  /\ \A r \in Crashed : reader[r] # "crashed" => Living(pipe[r])
  /\ Cardinality({c \in Callers : at'[c] = "raised"}) <= 1
  /\ Living(MaxWorkers) /\ life'[MaxWorkers] = "dead" => at' # at
  /\ watchdog'[MaxWorkers] # "spawning"

KindBound == \A i \in DOMAIN trainings' : trainings'[i].best # "lgb"

----------------------------------------------------------------------------
(* Data: files about as long as a split needs, prices missing at their     *)
(* ends and in the middle, features missing at the head; shares that leave *)
(* rows to test, too many, or are counted from the end.                    *)

FileBar(t, n, o, c, k, w) ==
  [open |-> IF t = o THEN NoPrice ELSE 100, close |-> IF t = c THEN k ELSE 100, features |-> IF t <= w THEN "some" ELSE "all"]
SomeFiles ==
  UNION {{[t \in 1 .. n |-> FileBar(t, n, o, c, k, w)] : w \in 0 .. 2, o, c \in {2, n \div 2, n - 1}, k \in {99, 101, NoPrice}} :
         n \in {3, 13, 20}}
SomeRatios ==
  {[train |-> 70, val |-> 15], [train |-> 60, val |-> 50], [train |-> -50, val |-> 30], [train |-> -40, val |-> 70]}
FirstFile == [t \in 1 .. 3 |-> FileBar(t, 3, 2, 2, 99, 0)]

----------------------------------------------------------------------------
(* The toolkit: fractions in tenths, and books of up to two positions.     *)

MCKellyInputs ==
  {[account |-> 7, p |-> p, win |-> 2, loss |-> 1, fraction |-> 5, cap |-> 3,
    price |-> 3, confidence |-> c] : p \in {3, 6, 9}, c \in {None, 4, NaN}}
MCVolatilityInputs ==
  {[account |-> 5, risk |-> 2, volatility |-> v, price |-> 2, days |-> d, confidence |-> IF d = 1 THEN 4 ELSE None] :
     v \in {2, 3}, d \in {1, 2}}
Position(s, q, short) == [symbol |-> s, quantity |-> q, price |-> 5, short |-> short]
MCBooks ==
  {<<Position(sym, 3, FALSE)>>, <<Position(sym, 3, FALSE), Position(other, 5, TRUE)>>}
MCShockSets == {(Wild :> -1), (sym :> -3) @@ (Wild :> 2), (sym :> 0)}

----------------------------------------------------------------------------
(* Assets: two and a benchmark, histories of up to five closes, windows of *)
(* two or three returns, or of a fraction more; a history may be too       *)
(* short, as long as the limit, or longer than it.                         *)

MCHistories == {<<>>, <<1, 0, 1>>, <<1, 0, 0, 1, 0>>, <<0, Bad, 1, 1, 0>>}
Asks(kind, symbols, W, fractional) ==
  [kind |-> kind, symbols |-> symbols, benchmark |-> bench, window |-> W, fractional |-> fractional]
MCQueries ==
  {Asks("correlation", <<stock, bond>>, 3, FALSE), Asks("beta", <<stock, bench>>, 2, FALSE),
   Asks("beta", <<stock>>, 2, TRUE), Asks("volatility", <<stock, bond, stock>>, 2, FALSE),
   Asks("relative", <<stock>>, 2, TRUE), Asks("relative", <<stock>>, Missing, FALSE),
   Asks("heatmap", <<stock>>, 2, TRUE)}
MCExtra == [k \in Analytics |-> IF k \in {"beta", "volatility"} THEN 3 ELSE 2]

(* A day that closes before the request gives but another history; one     *)
(* close of the day is unusable at most.                                   *)
CloseBound ==
  today' # today =>
    query # Missing /\ Cardinality({s \in Symbols : Last(market'[s]).level = Bad}) <= 1

----------------------------------------------------------------------------

AnalysisInit ==
  /\ focus \in {"backtests", "flow", "service", "trainings", "recordings", "data", "ai",
                "toolkit", "assets"}
  /\ BacktestInit /\ ServiceInit /\ SignalInit /\ AiInit
  /\ FlowInit /\ (focus # "flow" => now.part = "session")
  /\ PrepInit /\ (focus # "data" => file = FirstFile)
  /\ ToolkitInit
  /\ MultiAssetInit /\ (focus # "assets" => \A s \in Symbols : market[s] = <<>>)

AnalysisNext ==
  /\ UNCHANGED focus
  /\ \/ /\ focus = "backtests" /\ BacktestNext
        /\ UNCHANGED <<flowVars, serviceVars, signalVars, dataPrepVars, aiVars, toolkit, multiAsset>>
     \/ /\ focus = "flow" /\ FlowNext /\ FlowBound
        /\ UNCHANGED <<backtestVars, serviceVars, signalVars, dataPrepVars, aiVars, toolkit, multiAsset>>
     \/ /\ focus = "service" /\ ServiceNext /\ ServiceBound
        /\ UNCHANGED <<backtestVars, flowVars, signalVars, dataPrepVars, aiVars, toolkit, multiAsset>>
     \/ /\ focus = "trainings" /\ TrainingNext /\ SignalBound /\ KindBound
        /\ UNCHANGED <<backtestVars, flowVars, serviceVars, dataPrepVars, aiVars, toolkit, multiAsset>>
     \/ /\ focus = "recordings" /\ RecordingNext
        /\ UNCHANGED <<backtestVars, flowVars, serviceVars, dataPrepVars, aiVars, toolkit, multiAsset>>
     \/ /\ focus = "data" /\ PrepNext
        /\ UNCHANGED <<backtestVars, flowVars, serviceVars, signalVars, aiVars, toolkit, multiAsset>>
     \/ /\ focus = "ai" /\ AiNext
        /\ UNCHANGED <<backtestVars, flowVars, serviceVars, signalVars, dataPrepVars, toolkit, multiAsset>>
     \/ /\ focus = "toolkit" /\ ToolkitNext
        /\ UNCHANGED <<backtestVars, flowVars, serviceVars, signalVars, dataPrepVars, aiVars, multiAsset>>
     \/ /\ focus = "assets" /\ MultiAssetNext /\ CloseBound
        /\ UNCHANGED <<backtestVars, flowVars, serviceVars, signalVars, dataPrepVars, aiVars, toolkit>>

AnalysisSpec ==
  AnalysisInit /\ [][AnalysisNext]_
    <<backtestVars, flowVars, serviceVars, signalVars, dataPrepVars, aiVars, toolkit, multiAsset, focus>>

(* Callers, pipelines and records may change places, and so may jobs: what *)
(* is not in focus rests in a state that is the same for all.              *)
Swapped == c1 :> c2 @@ c2 :> c1 @@ pr1 :> pr2 @@ pr2 :> pr1 @@ f1 :> f2 @@ f2 :> f1
AnalysisSymmetry == {p \in Permutations(DOMAIN Swapped) : p = Swapped} \cup Permutations({j1, j2})

(* Every variable keeps to its type: candles and results, ticks and charts,*)
(* calls and processes, trainings and rows, files, jobs, rows of the log,  *)
(* requests and closes.                                                    *)
AnalysisTypeOK ==
  /\ BacktestTypeOK /\ FlowTypeOK /\ ServiceTypeOK /\ SignalTypeOK /\ PrepTypeOK /\ AiTypeOK
  /\ ToolkitTypeOK /\ MultiAssetTypeOK
=============================================================================
