------------------------------ MODULE Strategies ------------------------------
(***************************************************************************)
(* What the strategy engine makes of a symbol's signals                    *)
(* (server/strategies/strategyEngine.js), and what the validation engine   *)
(* makes of a candidate and the metrics of its backtest                    *)
(* (server/validation/validationEngine.js).  Confidences are percents; a   *)
(* signal is a direction, whether it is strong, and its confidence.        *)
(***************************************************************************)
EXTENDS Integers, Sequences, FiniteSets, SequencesExt, FiniteSetsExt, Functions

Towards(signals, d) == {g \in signals : g.direction = d}

(* The mean of nothing is 0. *)
MeanConfidence(signals) ==
  IF signals = {} THEN 0
  ELSE SumFunction([g \in signals |-> g.confidence]) \div Cardinality(signals)

(* Alpha and pattern signals of one direction agree. *)
Aligned(alpha, patterns, d) == Towards(alpha, d) # {} /\ Towards(patterns, d) # {}

Conflicting(alpha, patterns) ==
  \E d, e \in {"bullish", "bearish"} : d # e /\ Towards(alpha, d) # {} /\ Towards(patterns, e) # {}

Side(d) == IF d = "bullish" THEN "long" ELSE "short"

(* Of conflicting signals, 20 points are taken off. *)
Alignment(alpha, patterns, d) ==
  LET mean == (MeanConfidence(Towards(alpha, d)) + MeanConfidence(Towards(patterns, d))) \div 2
  IN [status |-> "validated", direction |-> Side(d),
      confidence |-> Min({99, IF Conflicting(alpha, patterns) THEN Max({0, mean - 20}) ELSE mean})]

(* Strong alpha that no pattern confirms gives a provisional candidate. *)
Strong(alpha, d) == {g \in Towards(alpha, d) : g.strong}

Provisional(alpha, d) ==
  [status |-> "needs_confirmation", direction |-> Side(d),
   confidence |-> Max({30, Min({85, (MeanConfidence(Strong(alpha, d)) * 7) \div 10})})]

(* Weak signals only: the side with the greater weight, if any. *)
Research(alpha) ==
  LET Weight(g) == Max({g.confidence, 5})
      score == MapThenSumSet(Weight, Towards(alpha, "bullish")) - MapThenSumSet(Weight, Towards(alpha, "bearish"))
  IN [status |-> "research_only", confidence |-> 25,
      direction |-> IF score > 10 THEN "long" ELSE IF score < -10 THEN "short" ELSE "neutral"]

When(condition, s) == IF condition THEN s ELSE <<>>

Candidates(alpha, patterns) ==
  LET OfAlignment(d)   == When(Aligned(alpha, patterns, d), <<Alignment(alpha, patterns, d)>>)
      OfProvisional(d) == When(Towards(patterns, d) = {} /\ Strong(alpha, d) # {}, <<Provisional(alpha, d)>>)
      found == OfAlignment("bullish") \o OfAlignment("bearish")
               \o OfProvisional("bullish") \o OfProvisional("bearish")
  IN IF found = <<>> THEN When(alpha # {}, <<Research(alpha)>>) ELSE found

----------------------------------------------------------------------------
(* Validation.  Prices and gains are in millionths.  The factor is profit  *)
(* over loss: none when there is nothing lost and something won.           *)

Million == 1000000

NoMetrics == [trades |-> 0, total |-> 0, wins |-> 0, drawdown |-> 0, factor |-> "low"]

Acceptable(m) ==
  m.total > 0 /\ m.drawdown > -2 * Million /\ m.factor = "high" /\ 2 * m.wins >= m.trades /\ m.trades > 0

Points(condition, n) == IF condition THEN n ELSE 0

(* The bonus is the one of the best quality grade among the candidate's. *)
Score(c, m, bonus) ==
  LET sum == c.confidence + bonus
             + Points(m.total > 0, 12) - Points(m.total < 0, 16)
             + Points(m.factor = "high", 9) + Points(m.trades > 0 /\ 2 * m.wins >= m.trades, 8)
             - Points(m.drawdown <= -2 * Million, 12) - Points(c.confidence < 35, 12)
             - Points(c.status \in {"research_only", "needs_confirmation"}, 18)
  IN Max({0, Min({100, sum})})

Verdict(score, acceptable) ==
  CASE score >= 75 /\ acceptable -> "validated"
    [] score >= 60 /\ ~(score >= 75 /\ acceptable) -> "watchlist"
    [] score >= 40 /\ score < 60 -> "weak"
    [] score < 40 -> "rejected"
=============================================================================
