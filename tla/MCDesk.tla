------------------------------- MODULE MCDesk -------------------------------
(***************************************************************************)
(* The trading desk in one run: order execution over the paper engine, the *)
(* alert engine, the money of the paper account and its summaries, the     *)
(* correlation routes and the rule engine.  They share no state, so that a *)
(* behaviour follows one of them, the focus, and the others rest: their    *)
(* interleavings with each other would show nothing.                       *)
(***************************************************************************)
EXTENDS Execution, Alerts, Portfolio, Macro, RuleEngine, TLC

CONSTANTS spy, qqq, d1, d2, p1, p2, y1, y2, b1, b2

VARIABLE focus

----------------------------------------------------------------------------
(* Execution: purchases and sales, a side that is neither, a quantity of   *)
(* zero, on paper and live, with and without a clientOrderId.              *)

Orders(clients, mode, sides, quantities) ==
  [client : clients, mode : {mode}, symbol : Symbols, side : sides, quantity : quantities]
SomeRequests ==
  Orders(Clients \cup {NoClient}, "paper", Sides, {1})
  \cup Orders(Clients, "paper", {"buy", "sell"}, {2}) \cup Orders(Clients, "paper", {"short"}, {0})
  \cup Orders(Clients \cup {NoClient}, "live", {"buy"}, {2})
  \cup Orders(Clients, "live", {"sell", "short"}, {1})

----------------------------------------------------------------------------
(* The account: prices that do not divide evenly, a side that is neither,  *)
(* a negative price, a quantity of zero.                                   *)

Order(side, q, price) == [side |-> side, quantity |-> q, price |-> price]
SomeOrders == {Order("buy", 1, 4), Order("buy", 2, 9), Order("buy", 1, -4), Order("buy", 0, 9),
               Order("sell", 1, 9), Order("sell", 2, 4), Order("short", 2, 9)}

----------------------------------------------------------------------------
(* Alerts: the market is below or above the level they watch. *)

Quote(p) == [price |-> p, ema9 |-> 1, ema20 |-> 1, vwap |-> 1, poc |-> 1, vah |-> 1, val |-> 1,
             rsi14 |-> 50, volume |-> 1, volumeAvg |-> 1]
Low == Quote(0)
Quotes == {Low, Quote(2)}
AllButPrice == {Fields \ {"price"}}

AlertRule(type, mode, expires) ==
  [type |-> type, threshold |-> 1, emaPeriod |-> 9, tolerance |-> NoValue, expires |-> expires, mode |-> mode]
TwoRules == {AlertRule("price_cross", "cooldown_minutes", NoValue), AlertRule("price_above", "once", 0)}

----------------------------------------------------------------------------
(* Correlation: contents in and out of order, of two symbols, with candles *)
(* that do not parse, under the wrong label, or too few.                   *)

At(s, day, close) == [symbol |-> s, day |-> day, close |-> close]
Data(label, list) == [label |-> label, timeframe |-> "1d", candles |-> list]
SomeContents == {
  Data(spy, <<At(spy, 1, 2), At(spy, 2, 4), At(spy, 3, 1)>>),
  Data(qqq, <<At(qqq, 3, 4), At(qqq, 1, 1), At(qqq, 2, 2)>>),
  Data(qqq, <<At(qqq, 2, 1), At(qqq, 3, 2), At(spy, 3, 4), At(qqq, 0, 2), At(qqq, 1, 0)>>),
  Data(spy, <<At(qqq, 1, 4)>>)}

Asked(kind, ids, wanted) ==
  [kind |-> kind, ids |-> ids, wanted |-> wanted, order |-> IF Len(ids) = 2 THEN <<spy, qqq>> ELSE <<>>]
SomeQueries ==
  {Asked("correlation", ids, <<spy, qqq>>) : ids \in {<<>>, <<d1>>, <<d1, d2>>}}
  \cup {Asked("beta", ids, <<qqq, spy>>) : ids \in {<<d2>>, <<d2, d1>>}}
  \cup {Asked("volatility", <<d1>>, <<s>>) : s \in {spy, qqq}}

----------------------------------------------------------------------------
(* Rules: conditions on what is read before and after the await, unequal   *)
(* and missing values, an operator and a source nobody knows, an id twice. *)

Cond(id, source, field, operator, value) ==
  [id |-> id, source |-> source, field |-> field, operator |-> operator, value |-> value, enabled |-> TRUE]
SomeConditions == {
  <<Cond(1, "sessionContext", "gap", "<", 0), Cond(2, "backtest", "trades", ">=", 1)>>,
  <<Cond(1, "alpha", "direction", "!=", "up"), [Cond(1, "tape", "x", "like", Null) EXCEPT !.enabled = FALSE],
    Cond(3, "backtest", "direction", "==", "long")>>}
SomeGroups == {<<>>, <<[logic |-> "OR", conditions |-> <<Cond(3, "alpha", "direction", "exists", Null)>>]>>,
               <<[logic |-> "XOR", conditions |-> <<>>]>>}
SomeDetections == {[direction |-> "up"], [score |-> 1]}
GapUp == [gap |-> 1, distance |-> -1]
SomeDays == {GapUp, [gap |-> -1, distance |-> -1]}

----------------------------------------------------------------------------

DeskInit ==
  /\ focus \in {"execution", "alerts", "books", "macro", "rules"}
  /\ Init /\ AlertInit /\ BookInit /\ RuleInit
  /\ MacroInit /\ (focus # "macro" => stored = [id \in MacroIds |-> NoContent])
  /\ focus # "rules" => candles = GapUp

DeskNext ==
  /\ UNCHANGED focus
  /\ \/ focus = "execution" /\ Next /\ UNCHANGED <<alertVars, bookVars, macroVars, ruleVars>>
     \/ focus = "alerts" /\ AlertNext /\ UNCHANGED <<vars, bookVars, macroVars, ruleVars>>
     \/ focus = "books" /\ BookNext /\ UNCHANGED <<vars, alertVars, macroVars, ruleVars>>
     \/ focus = "macro" /\ MacroNext /\ UNCHANGED <<vars, alertVars, bookVars, ruleVars>>
     \/ focus = "rules" /\ RuleNext /\ UNCHANGED <<vars, alertVars, bookVars, macroVars>>

DeskSpec == DeskInit /\ [][DeskNext]_<<vars, alertVars, bookVars, macroVars, ruleVars, focus>>

(* Placements, cycles or held symbols change places; what is not in focus *)
(* rests in a state that is the same for both, so that all may do so at    *)
(* once.                                                                   *)
Swap == p1 :> p2 @@ p2 :> p1 @@ y1 :> y2 @@ y2 :> y1 @@ b1 :> b2 @@ b2 :> b1
DeskSymmetry == {f \in Permutations(DOMAIN Swap) : f = Swap \/ \A x \in DOMAIN f : f[x] = x}

(* Every variable of the five keeps to its type: placements and their rows,*)
(* alerts and cycles, positions and summaries, datasets and requests, rule *)
(* sets and evaluations.                                                   *)
DeskTypeOK == TypeOK /\ AlertTypeOK /\ BookTypeOK /\ MacroTypeOK /\ RuleTypeOK
=============================================================================
