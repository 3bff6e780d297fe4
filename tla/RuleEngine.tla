----------------------------- MODULE RuleEngine -----------------------------
(***************************************************************************)
(* Rule sets of one symbol (server/ruleEngine, server/strategyTemplates,   *)
(* api/ruleEngineRoutes.js) and the session context they read              *)
(* (server/sessionContext).  Rule sets stand in memory.  An evaluation     *)
(* reads some sources at once and the rest after it has awaited the        *)
(* analysis history; meanwhile sources and rule sets change.               *)
(* What a source has is Absent, or a value for each field it has.          *)
(***************************************************************************)
EXTENDS Integers, Sequences, FiniteSets, SequencesExt

CONSTANTS
  RuleIds,
  NoRuleSet,
  Absent,          \* a source without data
  Null,            \* the value of a field that is there and holds none
  SentConditions,  \* lists of conditions that callers send
  SentGroups,      \* lists of condition groups they send with a validation
  Detections,      \* what the detectors may find
  CandleDays,      \* gap and distance from the VWAP, as signs, of a day's candles
  MaxChanges       \* bound: changes of what the sources hold during an evaluation

ASSUME ChangeAssumption == MaxChanges \in Nat

\* What a caller leaves out is sent as what the engine does not know.
ASSUME SentAssumption ==
  \A conditions \in SentConditions : \A i \in DOMAIN conditions : {"operator", "source"} \subseteq DOMAIN conditions[i]

VARIABLES
  ruleSets,     \* the rule sets, by id
  candles,      \* the candles of the moment
  session,      \* the session context that is stored: it stays until computed again
  detected,     \* latest entry of the alpha signals; other detectors are alike
  backtests,    \* latest backtest result
  evaluation,   \* the evaluation under way
  answer        \* the answer of an evaluation, validation or conversion

ruleData == <<candles, session, detected, backtests>>
ruleVars == <<ruleSets, ruleData, evaluation, answer>>

Operators == {">=", "<", "==", "!=", "exists"}
RuleSources == {"sessionContext", "alpha", "backtest", "strategy"}
RuleStatuses == {"draft", "research_only", "archived"}

----------------------------------------------------------------------------
(* The session context. *)

SessionBias(m) ==
  CASE m.gap > 0 /\ m.distance > 0 -> "gap_up_above_vwap"
    [] m.gap < 0 /\ m.distance < 0 -> "gap_down_below_vwap"
    [] m.gap * m.distance < 0 -> "mean_reversion_candidate"
    [] m.gap # 0 /\ m.distance = 0 -> "trend_continuation_candidate"
    [] OTHER -> "neutral"

Context(m) == [gap |-> m.gap, distance |-> m.distance, bias |-> SessionBias(m)]

----------------------------------------------------------------------------
(* Conditions.  "strategy" stands for the sources without data here. *)

\* An operator or a source the engine does not know is taken for these.
Normalised(c) ==
  [c EXCEPT !.operator = IF @ \in Operators THEN @ ELSE "exists",
            !.source = IF @ \in RuleSources THEN @ ELSE "strategy"]

\* Number(null) is 0.
AsNumber(v) == IF v = Null THEN 0 ELSE v

ApplyOperator(operator, actual, expected) ==
  CASE operator = ">=" -> AsNumber(actual) >= expected
    [] operator = "<" -> AsNumber(actual) < expected
    [] operator = "==" -> actual = expected
    [] operator = "!=" -> actual # expected
    [] operator = "exists" -> actual # Null

\* Mutant: nothing found is compared too, and is unequal to anything.
EvaluateUndefined(c, found) ==
  IF found = Absent \/ c.field \notin DOMAIN found THEN c.operator = "!="
  ELSE ApplyOperator(c.operator, found[c.field], c.value)

(* Whether a condition passes on what its source has. *)
EvaluateCondition(c, found) ==
  /\ found # Absent
  /\ c.field \in DOMAIN found
  /\ ApplyOperator(c.operator, found[c.field], c.value)

(* The errors of a validation.  Nothing but its own route asks for one. *)
DuplicateId(conditions) ==
  \E i, j \in DOMAIN conditions : i # j /\ conditions[i].id = conditions[j].id
Valid(set, groups) ==
  /\ ~DuplicateId(set.conditions \o FlattenSeq([g \in DOMAIN groups |-> groups[g].conditions]))
  /\ \A g \in DOMAIN groups : groups[g].logic \in {"AND", "OR"}

----------------------------------------------------------------------------
(* Rule sets. *)

RuleSet(conditions, direction, status, template) ==
  [conditions |-> [i \in DOMAIN conditions |-> Normalised(conditions[i])], direction |-> direction,
   status |-> IF status \in RuleStatuses THEN status ELSE "draft", template |-> template]

Template == <<
  [id |-> 1, source |-> "sessionContext", field |-> "gap", operator |-> ">=", value |-> 1, enabled |-> TRUE],
  [id |-> 2, source |-> "sessionContext", field |-> "bias", operator |-> "exists", value |-> Null, enabled |-> TRUE],
  [id |-> 3, source |-> "alpha", field |-> "direction", operator |-> "exists", value |-> Null, enabled |-> TRUE]>>

NoEvaluation == [at |-> "idle"]
NoAnswer == [to |-> "none"]

RuleInit ==
  /\ ruleSets = [id \in RuleIds |-> NoRuleSet] /\ candles \in CandleDays
  /\ session = Absent /\ detected = Absent /\ backtests = Absent
  /\ evaluation = NoEvaluation /\ answer = NoAnswer

Keep(id, set) ==
  /\ ruleSets' = [ruleSets EXCEPT ![id] = set]
  /\ UNCHANGED <<ruleData, evaluation, answer>>

CreateRuleSet(id, conditions, direction, status) ==
  /\ ruleSets[id] = NoRuleSet
  /\ Keep(id, RuleSet(conditions, direction, status, FALSE))

(* Those of the template, or what the caller overrides. *)
CreateRuleSetFromTemplate(id, overrides) ==
  /\ ruleSets[id] = NoRuleSet
  /\ Keep(id, RuleSet(IF overrides = <<>> THEN Template ELSE overrides,
                      "derived_from_gap_direction", "draft", TRUE))

(* What the update does not name stays. *)
UpdateRuleSet(id, conditions, status) ==
  LET old == ruleSets[id] IN
  /\ old # NoRuleSet
  /\ \/ Keep(id, RuleSet(conditions, old.direction, old.status, old.template))
     \/ Keep(id, RuleSet(old.conditions, old.direction, status, old.template))

DeleteRuleSet(id) == ruleSets[id] # NoRuleSet /\ Keep(id, NoRuleSet)

ClearRuleSets ==
  /\ ruleSets' = [id \in RuleIds |-> NoRuleSet]
  /\ UNCHANGED <<ruleData, evaluation, answer>>

Respond(a) == answer' = a /\ UNCHANGED <<ruleSets, ruleData, evaluation>>

(* Groups come with the request; a rule set never keeps any. *)
ValidateRuleSet(id, groups) ==
  /\ ruleSets[id] # NoRuleSet
  /\ Respond([to |-> "validate", valid |-> Valid(ruleSets[id], groups)])

(* The strategy that is returned, to nobody's store: what is not research  *)
(* is a draft, archived or not.                                            *)
ConvertRuleSet(id) ==
  /\ ruleSets[id] # NoRuleSet
  /\ LET set == ruleSets[id] IN
     Respond([to |-> "convert",
             status |-> IF set.status = "research_only" THEN set.status ELSE "draft",
             direction |-> IF set.direction \in {"long", "short"} THEN set.direction ELSE "neutral"])

----------------------------------------------------------------------------
(* Evaluation. *)

\* While an evaluation waits, what its sources hold goes on its record.
Since(source, found) ==
  evaluation' = IF evaluation = NoEvaluation THEN NoEvaluation ELSE [evaluation EXCEPT !.held[source] = @ \cup {found}]

(* Everything but the analysis, the backtests and the strategies is read   *)
(* before the await; a session context that is not stored is made.         *)
Evaluate(id) ==
  /\ evaluation = NoEvaluation /\ ruleSets[id] # NoRuleSet
  /\ LET context == IF session = Absent THEN Context(candles) ELSE session IN
     /\ session' = context
     /\ evaluation' =
          [at |-> "waiting", conditions |-> ruleSets[id].conditions, alpha |-> detected, session |-> context,
           held |-> [sessionContext |-> {context}, alpha |-> {detected}, backtest |-> {backtests},
                     strategy |-> {Absent}]]
  /\ UNCHANGED <<ruleSets, candles, detected, backtests, answer>>

(* The rule set is the one found by the request, changed since or not. *)
Evaluated ==
  /\ evaluation # NoEvaluation /\ evaluation' = NoEvaluation
  /\ LET found == [sessionContext |-> evaluation.session, alpha |-> evaluation.alpha,
                   backtest |-> backtests, strategy |-> Absent]
         asked == {c \in Range(evaluation.conditions) : c.enabled}
     IN answer' = [to |-> "evaluate", asked |-> asked, held |-> evaluation.held,
                   failed |-> {c \in asked : ~EvaluateCondition(c, found[c.source])}]
  /\ UNCHANGED <<ruleSets, ruleData>>

(* A preview, the disclaimer accepted, stores a backtest of the rule set's *)
(* name and direction, not of its conditions; what is not short is long.   *)
Preview(id, trades) ==
  /\ ruleSets[id] # NoRuleSet
  /\ backtests' = [trades |-> trades, direction |-> IF ruleSets[id].direction = "short" THEN "short" ELSE "long"]
  /\ Since("backtest", backtests')
  /\ UNCHANGED <<ruleSets, candles, session, detected, answer>>

ClearBacktests ==
  /\ backtests' = Absent /\ Since("backtest", Absent)
  /\ UNCHANGED <<ruleSets, candles, session, detected, answer>>

SetSession(context) ==
  /\ session' = context /\ Since("sessionContext", context)
  /\ UNCHANGED <<ruleSets, candles, detected, backtests, answer>>
ComputeSessionContext == SetSession(Context(candles))
ClearContext == SetSession(Absent)

Detect(found) ==
  /\ detected' = found /\ Since("alpha", found)
  /\ UNCHANGED <<ruleSets, candles, session, backtests, answer>>

CandlesCome(m) ==
  /\ candles' = m
  /\ UNCHANGED <<ruleSets, session, detected, backtests, evaluation, answer>>

(* An answer changes nothing; it is kept until something else happens. *)
Delivered ==
  /\ answer # NoAnswer /\ answer' = NoAnswer
  /\ UNCHANGED <<ruleSets, ruleData, evaluation>>

RuleRequest ==
  \/ \E id \in RuleIds, conditions \in SentConditions, status \in {"research_only", "archived", "live"} :
       \/ \E direction \in {"short", "neutral"} : CreateRuleSet(id, conditions, direction, status)
       \/ UpdateRuleSet(id, conditions, status)
  \/ \E id \in RuleIds, overrides \in SentConditions \cup {<<>>} : CreateRuleSetFromTemplate(id, overrides)
  \/ \E id \in RuleIds : DeleteRuleSet(id) \/ ConvertRuleSet(id) \/ Evaluate(id)
  \/ \E id \in RuleIds, groups \in SentGroups : ValidateRuleSet(id, groups)
  \/ \E id \in RuleIds, trades \in 0 .. 1 : Preview(id, trades)
  \/ \E found \in Detections : Detect(found)
  \/ \E m \in CandleDays : CandlesCome(m)
  \/ ClearRuleSets \/ Evaluated \/ ClearBacktests \/ ComputeSessionContext \/ ClearContext

ChangesInTime ==
  evaluation' # NoEvaluation =>
    MapThenSumSet(LAMBDA s : Cardinality(evaluation'.held[s]) - 1, RuleSources) <= MaxChanges

RuleNext == (answer = NoAnswer /\ RuleRequest /\ ChangesInTime) \/ Delivered

RuleSpec == RuleInit /\ [][RuleNext]_ruleVars

----------------------------------------------------------------------------
(* Properties *)

RuleTypeOK ==
  /\ \A id \in RuleIds : ruleSets[id] # NoRuleSet =>
       /\ ruleSets[id].status \in RuleStatuses
       /\ \A c \in Range(ruleSets[id].conditions) : c.operator \in Operators /\ c.source \in RuleSources
  /\ candles \in CandleDays /\ detected \in Detections \cup {Absent}
  /\ evaluation.at \in {"idle", "waiting"}
  /\ answer.to \in {"none", "validate", "convert", "evaluate"}

(* An evaluation finds a condition passed only on data: its source held,   *)
(* at some moment between the request and the answer, a value of the       *)
(* field that meets the condition, whatever its operator; a condition of   *)
(* which nothing is known never passes (RuleEngine.evaluateCondition).     *)
NoDataNeverPasses ==
  answer.to = "evaluate" =>
    \A c \in answer.asked \ answer.failed :
      \E found \in answer.held[c.source] :
        /\ found # Absent /\ c.field \in DOMAIN found
        /\ ApplyOperator(c.operator, found[c.field], c.value)
=============================================================================
