--------------------------- MODULE Institutional ---------------------------
(***************************************************************************)
(* The institutional toolkit (server/institutional/): position sizes, what *)
(* shocks do to a book, decision reports, and the audit log that each of   *)
(* them appends to.  A call runs without an await, but a scenario is two   *)
(* statements in the database, and the process may end between them.       *)
(* Amounts are in account currency, fractions (probabilities, shocks,      *)
(* quantities, confidence) in Units; what _r4 rounds is in Units.          *)
(***************************************************************************)
EXTENDS Integers, Sequences, FiniteSetsExt, Functions

CONSTANTS
  Unit,            \* 10^4, the digits _r4 keeps
  TradingDays,     \* 252
  Modes, None,
  NaN,             \* what is given as a number and is none
  Wild,            \* the '*' of shocks
  KellyInputs, VolatilityInputs,   \* inputs of sizing calls (a bound)
  Books,           \* lists of positions (a bound)
  ShockSets,       \* shocks of clients and of STRESS_PACKS (a bound)
  MaxRows          \* bound: the audit log ends here

Confidences == 0 .. Unit \cup {None, NaN}

ASSUME ToolkitAssumption ==
  /\ {Unit, TradingDays} \subseteq Nat \ {0} /\ MaxRows \in Nat
  /\ {None, NaN} \cap Int = {} /\ None # NaN
ASSUME InputAssumption ==
  /\ \A in \in KellyInputs :
       /\ {in.account, in.win, in.loss} \subseteq Nat \ {0}
       /\ {in.p, in.fraction, in.cap} \subseteq 0 .. Unit
       /\ in.price \in Nat \cup {None} /\ in.confidence \in Confidences
  /\ \A in \in VolatilityInputs :
       /\ {in.account, in.risk, in.volatility, in.price, in.days} \subseteq Nat \ {0}
       /\ in.risk <= Unit /\ in.confidence \in Confidences
  /\ \A book \in Books : book # <<>> /\
       book \in Seq([symbol : {book[i].symbol : i \in DOMAIN book}, quantity : Nat, price : Nat, short : BOOLEAN])
  /\ \A shocks \in ShockSets : \A s \in DOMAIN shocks : shocks[s] \in Int

VARIABLES
  audit,      \* institutional_audit, in the order of the inserts
  scenarios,  \* institutional_scenarios
  saving,     \* the scenario whose audit row is in and which is not yet
  answers,    \* the pairs of ids that clients have been given
  reports     \* the reports that clients have been given

toolkit == <<audit, scenarios, saving, answers, reports>>

----------------------------------------------------------------------------
(* Numbers: the quotient of n and d *)

Over(n, d) == [n |-> n, d |-> d]
Times(x, y) == Over(x.n * y.n, x.d * y.d)
Fraction(units) == Over(units, Unit)
Exceeds(x, y) == x.n * y.d > y.n * x.d

\* Mutant: halves are rounded upwards, also below zero.
RoundedUp(x) == (2 * Unit * x.n + x.d) \div (2 * x.d)

(* toFixed rounds the absolute value. *)
Rounded(x) ==
  LET magnitude(n) == (2 * Unit * n + x.d) \div (2 * x.d)
  IN  IF x.n < 0 THEN -magnitude(-x.n) ELSE magnitude(x.n)

(* The square root of n / d, rounded. *)
RootRounded(n, d) ==
  CHOOSE k \in 0 .. 2 * Unit * (n + 1) :
    /\ k > 0 => (2 * k - 1) * (2 * k - 1) * d <= 4 * Unit * Unit * n
    /\ 4 * Unit * Unit * n < (2 * k + 1) * (2 * k + 1) * d

----------------------------------------------------------------------------
(* Sizing *)

RawKelly(in) == Over(in.p * in.win - (Unit - in.p) * in.loss, Unit * in.win)

AdjustedKelly(in) ==
  LET fractional == Times(RawKelly(in), Fraction(in.fraction))
  IN  IF in.confidence = None THEN fractional ELSE Times(fractional, Fraction(in.confidence))

\* Mutant: the cap comes before the clamp at zero is applied.
UnclampedKelly(in) ==
  IF Exceeds(AdjustedKelly(in), Fraction(in.cap)) THEN Fraction(in.cap) ELSE AdjustedKelly(in)

CappedKelly(in) ==
  CASE AdjustedKelly(in).n < 0 -> Over(0, 1)
    [] Exceeds(AdjustedKelly(in), Fraction(in.cap)) -> Fraction(in.cap)
    [] OTHER -> AdjustedKelly(in)

(* A confidence that is not a number makes everything after it null. *)
KellySizing(in) ==
  LET position == Times(Over(in.account, 1), CappedKelly(in))
      priced   == in.price # None /\ in.price > 0
  IN  IF in.confidence = NaN
      THEN [edge |-> RawKelly(in).n > 0, capped |-> None, position |-> None, shares |-> None]
      ELSE [edge |-> RawKelly(in).n > 0, capped |-> Rounded(CappedKelly(in)),
            position |-> Rounded(position),
            shares |-> IF priced THEN Rounded(Times(position, Over(1, in.price))) ELSE None]

(* Shares are the dollar risk over the volatility of the horizon, a root;  *)
(* both factors of it are squared here.                                    *)
VolatilitySizing(in) ==
  LET n == in.account * in.account * in.risk * in.risk * TradingDays
      d == in.volatility * in.volatility * in.days
      c == IF in.confidence \in {None, NaN} THEN Unit ELSE in.confidence
      p == in.price * in.price
  IN  [unscaled |-> RootRounded(n, d * p),
       shares   |-> IF in.confidence = NaN THEN None
                    ELSE RootRounded(n * c * c, d * p * Unit * Unit),
       position |-> IF in.confidence = NaN THEN None
                    ELSE RootRounded(n * c * c, d * Unit * Unit)]

----------------------------------------------------------------------------
(* Shocks *)

ShockOf(symbol, shocks) ==
  IF symbol \in DOMAIN shocks THEN shocks[symbol]
  ELSE IF Wild \in DOMAIN shocks THEN shocks[Wild] ELSE 0

PnlImpact(pos, shocks) ==
  LET direction == IF pos.short THEN -1 ELSE 1
  IN  Rounded(Over(direction * pos.quantity * pos.price * ShockOf(pos.symbol, shocks),
                   Unit * Unit))

(* applyShocks, less its details *)
Impact(book, shocks) ==
  [pnl   |-> SumFunction([i \in DOMAIN book |-> PnlImpact(book[i], shocks)]),
   value |-> SumFunction([i \in DOMAIN book |-> book[i].quantity * book[i].price])]

----------------------------------------------------------------------------
(* The store *)

Row(type, mode, inputs, outputs) ==
  [type |-> type, mode |-> mode, inputs |-> inputs, outputs |-> outputs]

\* Mutant: the log keeps its latest rows.
AppendedLatest(row) == Append(IF Len(audit) > 1 THEN Tail(audit) ELSE audit, row)

Appended(row) == Append(audit, row)

Ready == saving = None /\ Len(audit) < MaxRows

Size(type, in, outputs, mode) ==
  /\ Ready
  /\ audit' = Appended(Row(type, mode, in, outputs))
  /\ UNCHANGED <<scenarios, saving, answers, reports>>

SizeKelly(in, mode) == Size("kelly_sizing", in, KellySizing(in), mode)
SizeVolatility(in, mode) == Size("volatility_sizing", in, VolatilitySizing(in), mode)

(* runScenario and runStressPack: the audit row comes first ... *)
RunScenario(book, shocks, mode) ==
  /\ Ready
  /\ LET row == Row("scenario", mode, [book |-> book, shocks |-> shocks], Impact(book, shocks))
     IN  /\ audit' = Appended(row)
         /\ saving' = [audit |-> Len(audit'), mode |-> mode, results |-> row.outputs]
  /\ UNCHANGED <<scenarios, answers, reports>>

\* Mutant: the scenario is saved once more.
SaveScenarioKept ==
  /\ saving # None
  /\ scenarios' = Append(scenarios, saving)
  /\ UNCHANGED <<audit, saving, answers, reports>>

(* ... then the scenario that refers to it, and the answer. *)
SaveScenario ==
  /\ saving # None
  /\ scenarios' = Append(scenarios, saving)
  /\ answers' = answers \cup
       {[audit |-> saving.audit, scenario |-> Len(scenarios'), results |-> saving.results]}
  /\ saving' = None
  /\ UNCHANGED <<audit, reports>>

(* The process ends between the two, or the second one fails. *)
Cut ==
  /\ saving # None
  /\ saving' = None
  /\ UNCHANGED <<audit, scenarios, answers, reports>>

----------------------------------------------------------------------------
(* Decision reports *)

Cited(ids, types) ==
  {k \in DOMAIN ids : ids[k] \in DOMAIN audit /\ audit[ids[k]].type \in types}

Sizings == {"kelly_sizing", "volatility_sizing"}

(* Ids that are not in the log are left out without a word, and one that is *)
(* given twice counts twice.                                                *)
Summary(ids) ==
  LET pnls == {audit[ids[k]].outputs.pnl : k \in Cited(ids, {"scenario"})}
  IN  [referenced |-> Cardinality({k \in DOMAIN ids : ids[k] \in DOMAIN audit}),
       sizing     |-> Cardinality(Cited(ids, Sizings)),
       scenario   |-> Cardinality(Cited(ids, {"scenario"})),
       worst      |-> IF pnls = {} THEN None ELSE Min(pnls),
       best       |-> IF pnls = {} THEN None ELSE Max(pnls)]

(* Clients name rows they have been told of; 0 is an id of no row. *)
ExportDecisionReport(ids, mode) ==
  /\ Ready
  /\ reports' = Append(reports, [ids |-> ids, summary |-> Summary(ids)])
  /\ audit' = Appended(Row("export", mode, ids, Len(reports')))
  /\ UNCHANGED <<scenarios, saving, answers>>

----------------------------------------------------------------------------
ToolkitInit ==
  /\ audit = <<>> /\ scenarios = <<>> /\ saving = None /\ answers = {} /\ reports = <<>>

ToolkitNext ==
  \/ \E in \in KellyInputs, mode \in Modes : SizeKelly(in, mode)
  \/ \E in \in VolatilityInputs, mode \in Modes : SizeVolatility(in, mode)
  \/ \E book \in Books, shocks \in ShockSets, mode \in Modes : RunScenario(book, shocks, mode)
  \/ SaveScenario \/ Cut
  \/ \E i, j \in 0 .. Len(audit), mode \in Modes : ExportDecisionReport(<<i, j>>, mode)

ToolkitSpec == ToolkitInit /\ [][ToolkitNext]_toolkit

----------------------------------------------------------------------------
(* Properties *)

RowOK(row) ==
  /\ row.mode \in Modes
  /\ \/ row.type = "kelly_sizing" /\ row.inputs \in KellyInputs
     \/ row.type = "volatility_sizing" /\ row.inputs \in VolatilityInputs
     \/ /\ row.type = "scenario" /\ row.inputs \in [book : Books, shocks : ShockSets]
        /\ row.outputs = Impact(row.inputs.book, row.inputs.shocks)
     \/ row.type = "export" /\ row.outputs \in 1 .. Len(reports)

(* Types; a scenario's row is what its inputs give, a report has been      *)
(* recorded and names rows of its own time or none, and the log holds a    *)
(* row for each scenario saved or being saved.                             *)
ToolkitTypeOK ==
  /\ \A i \in DOMAIN audit : RowOK(audit[i])
  /\ saving # None => saving.audit = Len(audit) /\ saving.mode \in Modes
  /\ \A i \in DOMAIN reports : \A k \in DOMAIN reports[i].ids :
       reports[i].ids[k] \in 0 .. Len(audit)
  /\ Len(scenarios) + (IF saving = None THEN 0 ELSE 1) <= Len(audit)

(* "Every computation appends an immutable row": a scenario refers to a row *)
(* of its own with its mode and totals, and the ids a client was given lead *)
(* to what it was told, also when the process ended between the statements  *)
(* (institutionalEngine.js:22, 372-381).                                     *)
AuditTrailHolds ==
  /\ \A i \in DOMAIN scenarios :
       /\ scenarios[i].audit \in DOMAIN audit
       /\ LET row == audit[scenarios[i].audit]
          IN  row.type = "scenario" /\ row.mode = scenarios[i].mode
                /\ row.outputs = scenarios[i].results
  /\ \A i, j \in DOMAIN scenarios : scenarios[i].audit = scenarios[j].audit => i = j
  /\ \A a \in answers :
       a.scenario \in DOMAIN scenarios /\ scenarios[a.scenario].audit = a.audit
         /\ scenarios[a.scenario].results = a.results

(* A report says what the rows it names say today, however long the log has *)
(* grown since: "designed to be reproducible in isolation"                  *)
(* (institutionalEngine.js:442).                                            *)
ReportsStand ==
  \A i \in DOMAIN reports : reports[i].summary = Summary(reports[i].ids)

(* What the audit log says of scenarios and reports stays true.            *)
ToolkitKept == AuditTrailHolds /\ ReportsStand

(* A Kelly position is within its cap and nothing without an edge; shares  *)
(* and position agree up to the rounding; less confidence, a longer horizon*)
(* or more volatility never make a position larger                         *)
(* (institutionalEngine.js:196-201, 278-285).                              *)
KellyHonest(in, out) ==
  out.position = None \/
    /\ 0 <= out.position /\ 2 * out.position <= 2 * in.account * in.cap + 1
    /\ ~out.edge => out.position = 0
    /\ out.shares # None =>
         /\ 2 * out.shares * in.price <= 2 * out.position + in.price + 1
         /\ 2 * out.shares * in.price >= 2 * out.position - in.price - 1

Riskier(a, b) ==
  /\ a.account = b.account /\ a.risk = b.risk /\ a.price = b.price
  /\ a.volatility >= b.volatility /\ a.days >= b.days
  /\ b.confidence = None \/ (None # a.confidence /\ a.confidence <= b.confidence)

SizingHonest ==
  \A i, j \in DOMAIN audit :
    /\ audit[i].type = "kelly_sizing" => KellyHonest(audit[i].inputs, audit[i].outputs)
    /\ /\ audit[i].type = "volatility_sizing" /\ audit[j].type = "volatility_sizing"
       /\ NaN \notin {audit[i].inputs.confidence, audit[j].inputs.confidence}
       /\ Riskier(audit[i].inputs, audit[j].inputs)
       => audit[i].outputs.shares <= audit[j].outputs.shares

(* What a book loses in a scenario, the same book with its sides turned    *)
(* wins: a hedged book comes out at nothing, whatever the rounding         *)
(* (institutionalEngine.js:128-151).                                       *)
Turned(book) == [i \in DOMAIN book |-> [book[i] EXCEPT !.short = ~@]]

HedgesCancel ==
  \A i \in DOMAIN audit :
    audit[i].type = "scenario" =>
      audit[i].outputs.pnl
        + Impact(Turned(audit[i].inputs.book), audit[i].inputs.shocks).pnl = 0

(* Sizes keep to their cap and order, and hedges cancel, whatever the      *)
(* rounding (institutionalEngine.js:123).                                  *)
AmountsHonest == SizingHonest /\ HedgesCancel

=============================================================================
