----------------------------- MODULE Execution -----------------------------
(***************************************************************************)
(* Order execution (server/execution/executionEngine.js, riskChecker.js,   *)
(* executionStore.js) on the paper engine and the live gateway             *)
(* (ibkr/IBGatewayClient.js).  A placement waits for a price, and when it  *)
(* is live for the gateway; between those waits every handler may run.     *)
(* Each placement generates its orderId, so a placement names its order.   *)
(* All prices are 1 when they are known: values are quantities.            *)
(***************************************************************************)
EXTENDS PaperTrading

CONSTANTS
  Placements,            \* calls of placeOrder, and the orderIds they generate
  Clients, NoClient,     \* clientOrderIds, and a generated one
  Modes,                 \* "paper" and, when both environment flags are set, "live"
  MaxOrderValue,
  MaxPositionValue,
  MaxConcentrationPct,
  AllowShort,
  Requests               \* the orders that are asked for

ASSUME ClientAssumption == NoClient \notin Clients
ASSUME ModeAssumption   == Modes \subseteq {"paper", "live"}
ASSUME LimitAssumption  == /\ MaxOrderValue \in Nat /\ MaxPositionValue \in Nat
                           /\ MaxConcentrationPct \in Nat /\ AllowShort \in BOOLEAN

VARIABLES
  stage,       \* where each placement is: the await it is in
  request,     \* what each placement was asked
  rows,        \* the rows of execution_orders, by orderId
  fills,       \* the orderIds of the rows of execution_fills
  cancels,     \* orders whose cancel awaits the gateway
  killSwitch,  \* the global kill switch
  connected,   \* the gateway client believes it has a session
  sent,        \* placements whose order went to the gateway
  broker       \* what the gateway did with each of them

execVars == <<stage, request, rows, fills, cancels, killSwitch, connected, sent, broker>>
vars == <<positions, otherFills, paperKill, execVars>>

Stages == {"new", "pricing", "connecting", "sending", "done"}

Request == [client : Clients \cup {NoClient}, mode : Modes, symbol : Symbols,
            side : Sides, quantity : Quantities]

ASSUME RequestAssumption == Requests \subseteq Request

Column == {"null", "set"}    \* whether a nullable column has a value

RowStatuses == {"submitted", "acknowledged", "filled", "rejected", "canceled"}

Row == [client : Clients \cup {NoClient}, mode : Modes, brokerId : Column,
        status : RowStatuses]

TypeOK ==
  /\ PaperTypeOK
  /\ stage \in [Placements -> Stages]
  /\ DOMAIN request = {p \in Placements : stage[p] # "new"}
  /\ request \in [DOMAIN request -> Request]
  /\ rows \in [DOMAIN rows -> Row]
  /\ DOMAIN rows \subseteq DOMAIN request
  /\ fills \cup cancels \cup sent \subseteq DOMAIN request
  /\ killSwitch \in BOOLEAN /\ connected \in BOOLEAN
  /\ broker \in [sent -> {"unseen", "working", "canceled"}]

Init ==
  /\ PaperInit
  /\ stage = [p \in Placements |-> "new"]
  /\ request = [p \in {} |-> 0]
  /\ rows = [p \in {} |-> 0]
  /\ fills = {} /\ cancels = {} /\ sent = {}
  /\ killSwitch = FALSE /\ connected = FALSE
  /\ broker = [p \in {} |-> 0]

----------------------------------------------------------------------------
(* The store.  INSERT OR REPLACE removes the rows that conflict on the     *)
(* orderId or on the unique clientOrderId; removing a row that a fill      *)
(* references fails the statement, and the placement with it.              *)

Conflicts(p) ==
  {x \in DOMAIN rows \ {p} : rows[x].client = request[p].client /\ rows[x].client # NoClient}

\* Mutant: without foreign keys any row can be replaced.
SavableAlways(p) == TRUE

Savable(p) == Conflicts(p) \cap fills = {}

SaveOrder(p, status, link) ==
  rows' = [x \in (DOMAIN rows \ Conflicts(p)) \cup {p} |->
             IF x = p
             THEN [client |-> request[p].client, mode |-> request[p].mode,
                   brokerId |-> link, status |-> status]
             ELSE rows[x]]

Added(f, p, v) == [x \in DOMAIN f \cup {p} |-> IF x = p THEN v ELSE f[x]]

Step(p, from, to) == stage[p] = from /\ stage' = [stage EXCEPT ![p] = to]

----------------------------------------------------------------------------
(* Placing an order *)

(* A clientOrderId in use returns its order; a kill switch that is on and  *)
(* a quantity that is not positive refuse it before the wait for a price.  *)
Known(c) == c # NoClient /\ \E x \in DOMAIN rows : rows[x].client = c

PlaceOrder(p, r) ==
  /\ request' = Added(request, p, r)
  /\ \/ Known(r.client) /\ Step(p, "new", "done") /\ UNCHANGED rows
     \/ /\ ~Known(r.client) /\ ~killSwitch /\ r.quantity > 0
        /\ Step(p, "new", "pricing") /\ UNCHANGED rows
     \/ /\ ~Known(r.client) /\ (killSwitch \/ r.quantity <= 0) /\ Step(p, "new", "done")
        /\ rows' = Added(rows, p, [client |-> r.client, mode |-> r.mode,
                                   brokerId |-> "null", status |-> "rejected"])
  /\ UNCHANGED <<paperVars, fills, cancels, killSwitch, connected, sent, broker>>

GrossValue == MapThenSumSet(LAMBDA s : Magnitude(positions[s]), Symbols)

(* The checks take for a purchase what is not a sale, unlike the engine.   *)
RiskProjected(r) ==
  IF r.side = "sell" THEN positions[r.symbol] - r.quantity ELSE positions[r.symbol] + r.quantity

Concentrated(r) ==
  /\ GrossValue > 0
  /\ 100 * Magnitude(RiskProjected(r))
       > MaxConcentrationPct * (GrossValue + r.quantity)

(* The checks read the paper positions after the price has come, for live  *)
(* orders too; those on values need a price above zero.                    *)
RiskAllows(r, priced) ==
  /\ ~AllowShort /\ r.side = "sell" => positions[r.symbol] >= r.quantity
  /\ priced => /\ r.quantity <= MaxOrderValue
               /\ Magnitude(RiskProjected(r)) <= MaxPositionValue
               /\ ~Concentrated(r)

(* Refused by a check, or by the limits the model leaves out. *)
RejectByRisk(p) ==
  /\ Step(p, "pricing", "done")
  /\ Savable(p) /\ SaveOrder(p, "rejected", "null")
  /\ UNCHANGED <<paperVars, request, fills, cancels, killSwitch, connected, sent, broker>>

(* The row cannot be saved: the placement ends in an error. *)
FailToSave(p) ==
  /\ Step(p, "pricing", "done")
  /\ ~Savable(p)
  /\ UNCHANGED <<paperVars, request, rows, fills, cancels, killSwitch, connected, sent, broker>>

(* Submitted, filled by the paper engine and recorded, without a wait. *)
FillOnPaper(p, priced) ==
  LET r == request[p] IN
  /\ r.mode = "paper" /\ Step(p, "pricing", "done")
  /\ RiskAllows(r, priced)
  /\ Savable(p) /\ SaveOrder(p, "filled", "set")
  /\ PaperFill(r.symbol, r.side, r.quantity)
  /\ fills' = fills \cup {p}
  /\ UNCHANGED <<request, cancels, killSwitch, connected, sent, broker>>

(* Refused by the guard, or by its loss limit. *)
RejectOnPaper(p, priced) ==
  /\ request[p].mode = "paper" /\ Step(p, "pricing", "done")
  /\ RiskAllows(request[p], priced)
  /\ Savable(p) /\ SaveOrder(p, "rejected", "null")
  /\ UNCHANGED <<paperVars, request, fills, cancels, killSwitch, connected, sent, broker>>

\* Mutant: the order goes out unrecorded.
SendUnrecorded(p) ==
  /\ broker' = Added(broker, p, "unseen")
  /\ UNCHANGED sent

Send(p) ==
  /\ sent' = sent \cup {p}
  /\ broker' = Added(broker, p, "unseen")

SubmitLive(p, priced) ==
  /\ request[p].mode = "live"
  /\ RiskAllows(request[p], priced)
  /\ Savable(p) /\ SaveOrder(p, "submitted", "null")
  /\ \/ connected /\ Step(p, "pricing", "sending") /\ Send(p)
     \/ ~connected /\ Step(p, "pricing", "connecting") /\ UNCHANGED <<sent, broker>>
  /\ UNCHANGED <<paperVars, request, fills, cancels, killSwitch, connected>>

(* The answer to a connection attempt is what the client believes next.    *)
Connected(p) ==
  /\ Step(p, "connecting", "sending")
  /\ connected' = TRUE
  /\ Send(p)
  /\ UNCHANGED <<paperVars, request, rows, fills, cancels, killSwitch>>

NotConnected(p) ==
  /\ Step(p, "connecting", "done")
  /\ connected' = FALSE
  /\ IF Savable(p) THEN SaveOrder(p, "rejected", "null") ELSE UNCHANGED rows
  /\ UNCHANGED <<paperVars, request, fills, cancels, killSwitch, sent, broker>>

(* The gateway accepted the order, and the answer arrived. *)
Accepted(p) ==
  /\ Step(p, "sending", "done")
  /\ broker[p] # "unseen"
  /\ IF Savable(p) THEN SaveOrder(p, "acknowledged", "set") ELSE UNCHANGED rows
  /\ UNCHANGED <<paperVars, request, fills, cancels, killSwitch, connected, sent, broker>>

(* The gateway refused it, or the answer was lost or late: the order may   *)
(* be working there all the same.                                          *)
NotAccepted(p) ==
  /\ Step(p, "sending", "done")
  /\ IF Savable(p) THEN SaveOrder(p, "rejected", "null") ELSE UNCHANGED rows
  /\ UNCHANGED <<paperVars, request, fills, cancels, killSwitch, connected, sent, broker>>

----------------------------------------------------------------------------
(* Canceling an order *)

\* Mutant: only what is already canceled cannot be canceled.
CancelableLoose == {"submitted", "acknowledged", "filled", "rejected"}

Cancelable == {"submitted", "acknowledged"}

Canceled(o) ==
  rows' = IF o \in DOMAIN rows THEN [rows EXCEPT ![o].status = "canceled"] ELSE rows

(* An order the gateway has not acknowledged is canceled in the table      *)
(* only; the others when the gateway has answered.                         *)
CancelOrder(o) ==
  /\ o \in DOMAIN rows /\ rows[o].status \in Cancelable
  /\ IF rows[o].mode = "live" /\ rows[o].brokerId = "set"
     THEN cancels' = cancels \cup {o} /\ UNCHANGED rows
     ELSE Canceled(o) /\ UNCHANGED cancels
  /\ UNCHANGED <<paperVars, stage, request, fills, killSwitch, connected, sent, broker>>

CancelConfirmed(o) ==
  /\ o \in cancels
  /\ Canceled(o)
  /\ broker' = [broker EXCEPT ![o] = "canceled"]
  /\ cancels' = cancels \ {o}
  /\ UNCHANGED <<paperVars, stage, request, fills, killSwitch, connected, sent>>

CancelFailed(o) ==
  /\ o \in cancels
  /\ cancels' = cancels \ {o}
  /\ UNCHANGED <<paperVars, stage, request, rows, fills, killSwitch, connected, sent, broker>>

----------------------------------------------------------------------------
(* The kill switch, the gateway and the process *)

SetKillSwitch(on) ==
  /\ killSwitch' = on
  /\ UNCHANGED <<paperVars, stage, request, rows, fills, cancels, connected, sent, broker>>

BrokerAccepts(p) ==
  /\ p \in sent /\ broker[p] = "unseen"
  /\ broker' = [broker EXCEPT ![p] = "working"]
  /\ UNCHANGED <<paperVars, stage, request, rows, fills, cancels, killSwitch, connected, sent>>

(* The tables survive; what was awaited, the paper account, both kill      *)
(* switches and the session do not.                                        *)
Restart ==
  /\ stage' = [p \in Placements |-> IF stage[p] = "new" THEN "new" ELSE "done"]
  /\ positions' = [s \in Symbols |-> 0] /\ otherFills' = {} /\ paperKill' = FALSE
  /\ cancels' = {} /\ killSwitch' = FALSE /\ connected' = FALSE
  /\ UNCHANGED <<request, rows, fills, sent, broker>>

----------------------------------------------------------------------------

Resume(p) ==
  \/ RejectByRisk(p) \/ FailToSave(p)
  \/ \E priced \in BOOLEAN :
       FillOnPaper(p, priced) \/ RejectOnPaper(p, priced) \/ SubmitLive(p, priced)
  \/ Connected(p) \/ NotConnected(p) \/ Accepted(p) \/ NotAccepted(p)

Next ==
  \/ \E p \in Placements, r \in Requests : PlaceOrder(p, r)
  \/ \E p \in DOMAIN request : Resume(p)
  \/ \E o \in DOMAIN rows : CancelOrder(o)
  \/ \E o \in cancels : CancelConfirmed(o) \/ CancelFailed(o)
  \/ \E on \in BOOLEAN : SetKillSwitch(on)
  \/ \E p \in sent : BrokerAccepts(p)
  \/ PaperCall /\ UNCHANGED execVars
  \/ Restart

Spec == Init /\ [][Next]_vars

----------------------------------------------------------------------------
(* Properties *)

(* A fill belongs to an order that is still there, still filled and on     *)
(* paper, whatever else was placed under its clientOrderId.                *)
FillsHaveOrders ==
  \A p \in fills : p \in DOMAIN rows /\ rows[p].status = "filled" /\ rows[p].mode = "paper"

(* Placements that overlap under one clientOrderId fill at most one paper  *)
(* order between them.                                                     *)
FilledOnce ==
  \A p, x \in fills :
    request[p].client = request[x].client /\ request[p].client # NoClient => p = x

(* The fills of the paper engine rest on orders of their own               *)
(* (executionEngine.js:215, executionStore.js:68).                         *)
FillsKept == FillsHaveOrders /\ FilledOnce

(* What is filled, or was canceled at the gateway, stays so: no answer     *)
(* that arrives later brings the order back.                               *)
FinalStays ==
  [][\A p \in DOMAIN rows :
       /\ rows[p].status = "filled" => p \in DOMAIN rows' /\ rows'[p] = rows[p]
       /\ rows[p].status = "canceled" /\ rows[p].brokerId = "set" /\ p \in DOMAIN rows'
            => rows'[p].status = "canceled"]_vars

(* "the existing order is returned without re-routing (dedup)": one        *)
(* clientOrderId is routed once.                                           *)
RoutedOnce ==
  \A p, x \in sent \cup fills :
    request[p].client = request[x].client /\ request[p].client # NoClient => p = x

(* "Kill switch enabled. All execution blocked.": with the switch on,      *)
(* nothing is filled and nothing goes to the gateway.                      *)
KillSwitchBlocks ==
  [][killSwitch /\ killSwitch' => sent' = sent /\ fills' = fills]_vars
=============================================================================
