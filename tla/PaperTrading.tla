---------------------------- MODULE PaperTrading ----------------------------
(***************************************************************************)
(* The paper trading engine and its risk guard                             *)
(* (server/paperTrading/paperTradingEngine.js, riskGuard.js): positions in *)
(* memory, every accepted order filled in the call that places it.  Prices *)
(* and profits are left out, so a loss limit may refuse any order.         *)
(***************************************************************************)
EXTENDS Integers, FiniteSetsExt

CONSTANTS
  Symbols,
  Quantities,       \* quantities that arrive; one that is no number counts as zero
  MaxOrderSize,     \* the guard's limits, in units
  MaxPositionSize

ASSUME TradeAssumption == Quantities \subseteq Int
ASSUME GuardAssumption == MaxOrderSize \in Nat /\ MaxPositionSize \in Nat

VARIABLES
  positions,    \* signed quantity held of each symbol
  otherFills,   \* symbols with a fill on record that is neither a buy nor a sale
  paperKill     \* the guard's own kill switch

paperVars == <<positions, otherFills, paperKill>>

(* No caller checks a side: whatever is not a purchase is booked as a      *)
(* sale, and "short" stands for the words that are neither.                *)
Sides == {"buy", "sell", "short"}

PaperTypeOK ==
  /\ positions \in [Symbols -> Int]
  /\ otherFills \subseteq Symbols
  /\ paperKill \in BOOLEAN

PaperInit ==
  /\ positions = [s \in Symbols |-> 0]
  /\ otherFills = {}
  /\ paperKill = FALSE

Magnitude(n) == IF n < 0 THEN -n ELSE n

Projected(s, side, q) == IF side = "buy" THEN positions[s] + q ELSE positions[s] - q

\* Mutant: the guard compares a sale with its size limit only.
GuardAllowsShort(s, side, q) ==
  /\ ~paperKill
  /\ q > 0 /\ q <= MaxOrderSize
  /\ Magnitude(Projected(s, side, q)) <= MaxPositionSize

GuardAllows(s, side, q) ==
  /\ ~paperKill
  /\ q > 0 /\ q <= MaxOrderSize
  /\ side = "sell" => positions[s] >= q
  /\ Magnitude(Projected(s, side, q)) <= MaxPositionSize

(* An order the guard allows is filled at once. *)
PaperFill(s, side, q) ==
  /\ GuardAllows(s, side, q)
  /\ positions' = [positions EXCEPT ![s] = Projected(s, side, q)]
  /\ otherFills' = IF side \in {"buy", "sell"} THEN otherFills ELSE otherFills \cup {s}
  /\ UNCHANGED paperKill

(* Closing a position is an order for all of it, through the same guard. *)
ClosePosition(s) ==
  /\ positions[s] # 0
  /\ PaperFill(s, IF positions[s] > 0 THEN "sell" ELSE "buy", Magnitude(positions[s]))

ResetPaperAccount ==
  /\ positions' = [s \in Symbols |-> 0]
  /\ otherFills' = {}
  /\ UNCHANGED paperKill

PaperKillSwitch(on) ==
  /\ paperKill' = on
  /\ UNCHANGED <<positions, otherFills>>

PaperCall ==
  \/ \E s \in Symbols, side \in Sides, q \in Quantities : PaperFill(s, side, q)
  \/ \E s \in Symbols : ClosePosition(s)
  \/ ResetPaperAccount
  \/ \E on \in BOOLEAN : PaperKillSwitch(on)

----------------------------------------------------------------------------
(* Whoever trades, directly or through the execution engine, no position   *)
(* passes the guard's limit, and none is short unless an order whose side  *)
(* is neither a buy nor a sale has been filled (riskGuard.js:9).           *)
PositionsBounded ==
  \A s \in Symbols : /\ Magnitude(positions[s]) <= MaxPositionSize
                     /\ positions[s] < 0 => s \in otherFills
=============================================================================
