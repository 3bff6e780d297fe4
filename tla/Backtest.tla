------------------------------ MODULE Backtest ------------------------------
(***************************************************************************)
(* Backtests (server/backtest): a strategy candidate is replayed over the  *)
(* candles of a dataset, or over demo candles where no dataset is named,   *)
(* and judged by the validation engine.  Results stand in memory and in    *)
(* SQLite.  Raw prices are small integers; entries, stops and exits carry  *)
(* the percents of the configuration and are kept in millionths.           *)
(***************************************************************************)
EXTENDS Strategies

CONSTANTS
  Candles,       \* o, h, l and c of a candle; 0 where the open is missing
  DemoSeries,    \* candles made up where no history is stored
  Configs,       \* stop, target, slippage (percents), commission, holding
  Signals,       \* pairs of alpha and pattern signals that the detectors report
  Splits,        \* train, test and step of a walk-forward run, in candles
  Bonuses,       \* points of the quality grades
  MaxCandles, MaxCandidates, MaxRuns   \* bounds

ASSUME ConfigAssumption ==
  \A g \in Configs : /\ g.holding \in Nat \ {0} /\ g.stop \in 1 .. 99 /\ g.target \in 1 .. 99
                     /\ g.slippage \in Nat /\ g.commission \in Nat
ASSUME CandleAssumption ==
  LET Candle == [o : Nat, h : Nat, l : Nat, c : Nat]
  IN  Candles \subseteq Candle /\ DemoSeries \in Seq(Candle)
ASSUME SignalAssumption ==
  /\ \A p \in Signals : \A k \in {1, 2} : IsFiniteSet(p[k]) /\ \A g \in p[k] : g.confidence \in 0 .. 100
  /\ Bonuses \subseteq Int /\ {MaxCandles, MaxCandidates} \subseteq Nat
ASSUME SplitAssumption == \A s \in Splits : s.step \in Nat \ {0} /\ s.train \in Nat /\ s.test \in Nat \ {0, 1}

VARIABLES
  series,      \* the candles of the dataset, oldest first
  candidates,  \* the strategy candidates of the symbol
  named,       \* candidates there have been: the next id
  results,     \* results of this process, oldest first
  runs,        \* rows of backtest_runs
  walks,       \* rows of backtest_walk_forward_runs
  resamples,   \* rows of backtest_monte_carlo_runs
  verdicts     \* validations of this process

memory == <<candidates, results, verdicts>>
tables == <<runs, walks, resamples>>
backtestVars == <<series, memory, named, tables>>

----------------------------------------------------------------------------
(* The simulation.  The first candle gives the signal, the second one the  *)
(* entry at its open; what is not short is long.                           *)

Sign(d) == IF d = "short" THEN -1 ELSE 1

EntryPrice(candle) == IF candle.o > 0 THEN candle.o ELSE candle.c

Entry(cs, d, g) == EntryPrice(cs[2]) * (100 + Sign(d) * g.slippage) * 10000
StopAt(cs, d, g) == (Entry(cs, d, g) \div 100) * (100 - Sign(d) * g.stop)
TargetAt(cs, d, g) == (Entry(cs, d, g) \div 100) * (100 + Sign(d) * g.target)

StopHit(candle, d, stop) ==
  IF d = "short" THEN candle.h * Million >= stop ELSE candle.l * Million <= stop
TargetHit(candle, d, target) ==
  IF d = "short" THEN candle.l * Million <= target ELSE candle.h * Million >= target

\* Mutant: the holding period is not counted, only the end of the data.
LastHeldAll(cs, g) == Len(cs)

(* The last candle the trade may be held over. *)
LastHeld(cs, g) == Min({Len(cs), 2 + g.holding})

(* The candles the trade is held over that reach its stop or its target. *)
Hits(cs, d, g) ==
  {i \in 3 .. LastHeld(cs, g) :
     StopHit(cs[i], d, StopAt(cs, d, g)) \/ TargetHit(cs[i], d, TargetAt(cs, d, g))}

(* The trade that ends on a candle: where both levels are hit, the stop    *)
(* counts; where none is, the close.                                       *)
ClosedOn(cs, d, g, exit, reached) ==
  LET reason == IF ~reached THEN "max_holding_period"
                ELSE IF StopHit(cs[exit], d, StopAt(cs, d, g)) THEN "stop_loss" ELSE "take_profit"
      raw    == CASE reason = "stop_loss" -> StopAt(cs, d, g)
                  [] reason = "take_profit" -> TargetAt(cs, d, g)
                  [] OTHER -> cs[exit].c * Million
      price  == (raw \div 100) * (100 - Sign(d) * g.slippage)
  IN [direction |-> d, exit |-> exit, reason |-> reason,
      pnl |-> Sign(d) * (price - Entry(cs, d, g)) - g.commission * Million]

\* The first candle that decides.
Simulate(cs, d, g) ==
  LET hits == Hits(cs, d, g)
  IN  IF hits # {} THEN ClosedOn(cs, d, g, Min(hits), TRUE)
      ELSE ClosedOn(cs, d, g, LastHeld(cs, g), FALSE)

(* One trade more: the equity, its peak, and the deepest fall below a peak. *)
FallAfter(state, pnl) ==
  LET equity == state.equity + pnl
      peak   == Max({state.peak, equity})
  IN [equity |-> equity, peak |-> peak, worst |-> Min({state.worst, equity - peak})]

WorstFall(pnls) ==
  LET after[k \in 0 .. Len(pnls)] ==
        IF k = 0 THEN [equity |-> 0, peak |-> 0, worst |-> 0] ELSE FallAfter(after[k - 1], pnls[k])
  IN  after[Len(pnls)].worst

Total(pnls) == FoldLeft(LAMBDA a, p : a + p, 0, pnls)
Wins(pnls) == SelectSeq(pnls, LAMBDA p : p > 0)
Losses(pnls) == SelectSeq(pnls, LAMBDA p : p < 0)

Metrics(pnls) ==
  LET gain == Total(Wins(pnls))
      loss == -Total(Losses(pnls))
  IN [trades |-> Len(pnls), total |-> gain - loss, wins |-> Len(Wins(pnls)),
      drawdown |-> WorstFall(pnls),
      factor |-> CASE loss > 0 /\ gain > loss -> "high"
                   [] loss = 0 /\ gain > 0 -> "none"
                   [] OTHER -> "low"]

Result(c, g, cs, source) ==
  LET trades == When(Len(cs) >= 2, <<Simulate(cs, c.direction, g)>>)
  IN [strategy |-> c.id, source |-> source, config |-> g, candles |-> Len(cs), trades |-> trades,
      metrics |-> Metrics([i \in DOMAIN trades |-> trades[i].pnl])]

----------------------------------------------------------------------------
(* The engine.  A result that SQLite refuses stays in memory alone.        *)

BacktestInit ==
  /\ series = <<>> /\ candidates = <<>> /\ named = 0 /\ results = <<>> /\ verdicts = <<>>
  /\ runs = {} /\ walks = {} /\ resamples = {}

Save(r) ==
  /\ Len(results) < MaxRuns /\ Cardinality(runs) < MaxRuns
  /\ results' = Append(results, r)
  /\ \E written \in BOOLEAN : runs' = IF written THEN runs \cup {r} ELSE runs

SeriesGrows(candle) ==
  /\ Len(series) < MaxCandles
  /\ series' = Append(series, candle)
  /\ UNCHANGED <<memory, named, tables>>

Generate(alpha, patterns) ==
  LET found == Candidates(alpha, patterns)
  IN /\ named + Len(found) <= MaxCandidates
     /\ candidates' = [i \in DOMAIN found |-> [id |-> named + i, status |-> found[i].status,
                          direction |-> found[i].direction, confidence |-> found[i].confidence]]
     /\ named' = named + Len(found)
     /\ UNCHANGED <<series, results, verdicts, tables>>

ClearCandidates ==
  /\ candidates' = <<>>
  /\ UNCHANGED <<series, named, results, verdicts, tables>>

\* What was made of results, counted for the bound.
Derived == Len(verdicts) + Cardinality(walks) + Cardinality(resamples)

Default == [id |-> 0, status |-> "generated", direction |-> "long", confidence |-> 0]

(* Whatever strategy the request names, the last candidate is taken. *)
RunDataset(g) ==
  /\ Save(Result(IF candidates = <<>> THEN Default ELSE Last(candidates), g, series, "dataset"))
  /\ UNCHANGED <<series, candidates, named, verdicts, walks, resamples>>

ClearResults ==
  /\ results' = <<>>
  /\ UNCHANGED <<series, candidates, named, verdicts, tables>>

OfStrategy(id) == SelectSeq(results, LAMBDA r : r.strategy = id)

(* The first result of the candidate, or one made now of the demo candles. *)
Validate(c, g, bonus) ==
  LET found == OfStrategy(c.id)
      r     == IF found = <<>> THEN Result(c, g, DemoSeries, "demo") ELSE found[1]
  IN /\ Derived < MaxRuns
     /\ IF found = <<>> THEN Save(r) ELSE UNCHANGED <<results, runs>>
     /\ verdicts' = Append(verdicts, [strategy |-> c.id, of |-> r,
                      status |-> Verdict(Score(c, r.metrics, bonus), Acceptable(r.metrics))])
     /\ UNCHANGED <<series, candidates, named, walks, resamples>>

(* Without a candidate there is nothing to score. *)
ValidateMissing ==
  /\ Derived < MaxRuns
  /\ verdicts' = Append(verdicts, [strategy |-> 0, of |-> [metrics |-> NoMetrics], status |-> "rejected"])
  /\ UNCHANGED <<series, candidates, named, results, tables>>

ClearVerdicts ==
  /\ verdicts' = <<>>
  /\ UNCHANGED <<series, candidates, named, results, tables>>

(* Windows of training and test candles that slide over the demo candles. *)
Tests(s) ==
  LET starts == {k \in 0 .. Len(DemoSeries) : k * s.step + s.train + s.test <= Len(DemoSeries)}
  IN [k \in 1 .. Cardinality(starts) |->
        SubSeq(DemoSeries, (k - 1) * s.step + s.train + 1, (k - 1) * s.step + s.train + s.test)]

WalkForward(c, s, g) ==
  LET pnls == [k \in DOMAIN Tests(s) |-> Simulate(Tests(s)[k], c.direction, g).pnl]
  IN /\ Derived < MaxRuns
     /\ walks' = walks \cup {[strategy |-> c.id, pnls |-> pnls, metrics |-> Metrics(pnls)]}
     /\ UNCHANGED <<series, memory, named, runs, resamples>>

(* Resampling a row with replacement; a row has one trade at most. *)
MonteCarlo(r) ==
  /\ Derived < MaxRuns
  /\ resamples' = resamples \cup {[base |-> r, totals |-> {Metrics(p).total :
                     p \in [DOMAIN r.trades -> {r.trades[i].pnl : i \in DOMAIN r.trades}]}]}
  /\ UNCHANGED <<series, memory, named, runs, walks>>

BacktestRestart ==
  /\ candidates' = <<>> /\ results' = <<>> /\ verdicts' = <<>>
  /\ UNCHANGED <<series, named, tables>>

BacktestNext ==
  \/ \E candle \in Candles : SeriesGrows(candle)
  \/ \E g \in Signals : Generate(g[1], g[2])
  \/ ClearCandidates \/ ClearResults \/ ClearVerdicts \/ ValidateMissing \/ BacktestRestart
  \/ \E g \in Configs : RunDataset(g)
  \/ \E i \in DOMAIN candidates, g \in Configs, bonus \in Bonuses : Validate(candidates[i], g, bonus)
  \/ \E c \in Range(candidates) \cup {Default}, s \in Splits, g \in Configs : WalkForward(c, s, g)
  \/ \E r \in runs : MonteCarlo(r)

BacktestSpec == BacktestInit /\ [][BacktestNext]_backtestVars

----------------------------------------------------------------------------
(* Properties *)

(* Candidates and results carry ids that were given out, a result covers   *)
(* the candles there are, and its trade ends on one of them.               *)
BacktestTypeOK ==
  /\ series \in Seq(Candles) /\ Len(series) <= MaxCandles
  /\ \A i \in DOMAIN candidates :
       /\ candidates[i].id \in 1 .. named /\ candidates[i].confidence \in 0 .. 99
       /\ candidates[i].direction \in {"long", "short", "neutral"}
  /\ named \in 0 .. MaxCandidates
  /\ \A r \in runs \cup Range(results) :
       /\ r.strategy \in 0 .. named /\ Len(r.trades) <= 1
       /\ \A i \in DOMAIN r.trades : r.trades[i].exit \in 2 .. r.candles
       /\ r.source = "dataset" => r.candles <= Len(series)
  /\ \A v \in Range(verdicts) : v.status \in {"validated", "watchlist", "weak", "rejected"}

(* A saved trade that was decided, by its stop, its target or the end of   *)
(* its holding period, is the trade the same run gives over all the        *)
(* candles there are now (BacktestEngine.simulateTrades): no decision      *)
(* looks ahead, whatever follows.                                          *)
DecidedStays ==
  \A r \in runs : \A i \in DOMAIN r.trades :
    /\ r.source = "dataset"
    /\ r.trades[i].reason # "max_holding_period" \/ r.candles >= 2 + r.config.holding
    => r.trades[i] = Simulate(series, r.trades[i].direction, r.config)

(* The drawdown of a walk-forward run (BacktestEngine.calculateMetrics) is *)
(* the worst fall of the equity, from the start or from after any trade,   *)
(* to after a later one.                                                   *)
DrawdownIsWorstFall ==
  \A w \in walks :
    LET equity[k \in 0 .. Len(w.pnls)] == IF k = 0 THEN 0 ELSE equity[k - 1] + w.pnls[k]
        falls == {equity[p[2]] - equity[p[1]] : p \in {q \in (DOMAIN equity) \X (DOMAIN equity) : q[1] <= q[2]}}
    IN w.metrics.drawdown = Min(falls)

(* What the engine says of a run, its trades and its drawdown, is what the *)
(* run was (BacktestEngine.simulateTrades, calculateMetrics).              *)
BacktestHonest == DecidedStays /\ DrawdownIsWorstFall
=============================================================================
