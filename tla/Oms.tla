-------------------------------- MODULE Oms --------------------------------
(***************************************************************************)
(* The order management system: server/oms/omsEngine.js over the tables of *)
(* server/oms/omsStore.js.  Node runs each handler to its next await, so a *)
(* handler that never awaits is one action.  Only the live reconciliation  *)
(* awaits: it works through a snapshot of the open orders, one broker      *)
(* request at a time, while every other handler may run in between.        *)
(***************************************************************************)
EXTENDS OrderStatus, Integers, Sequences

CONSTANTS
  OrderIds,       \* primary keys of oms_orders
  ClientIds,      \* clientOrderIds
  NoParent,       \* the null parentOrderId
  Families,       \* pairs <<child, parent>> the callers create
  Modes,          \* "paper" and/or "live"
  Quantities,     \* quantities of orders
  Amounts,        \* quantities of fills
  NaN,            \* the quantity of a fill that is no number
  Runs,           \* overlapping live reconciliations
  ReuseOrderIds,  \* may a caller supply the orderId of an existing order?
  MaxEvents       \* bound: callers leave an order alone from this many events on

ASSUME FamilyAssumption   == Families \subseteq OrderIds \X OrderIds /\ NoParent \notin OrderIds
ASSUME ModeAssumption     == Modes \subseteq {"paper", "live"}
(* The routes refuse an order without a quantity or with zero, and a fill  *)
(* without one: an order for less than nothing, and a fill of any amount,  *)
(* zero and negative ones included, reach the engine.  An order whose      *)
(* quantity is no number fails on its NOT NULL column, a fill does not.    *)
ASSUME QuantityAssumption == Quantities \subseteq Int \ {0}
ASSUME AmountAssumption   == Amounts \subseteq Int /\ NaN \notin Int
ASSUME ReuseAssumption    == ReuseOrderIds \in BOOLEAN
ASSUME EventAssumption    == MaxEvents \in Nat

VARIABLES
  orders,      \* the rows of oms_orders, by orderId
  journal,     \* the rows of oms_events, by orderId, oldest first
  snapshots,   \* per live reconciliation: the open orders it has still to ask about
  replies,     \* per live reconciliation: the broker's reply being delivered, if any
  hung,        \* the live reconciliations whose request will never settle
  broker,      \* what the broker knows of the order linked to each orderId
  paperFills   \* orders whose paper order is in the paper engine (always filled there)

vars == <<orders, journal, snapshots, replies, hung, broker, paperFills>>

----------------------------------------------------------------------------
(* Types *)

Column == {"null", "set"}    \* whether a nullable column has a value

Order == [client : ClientIds, parent : OrderIds \cup {NoParent}, mode : Modes,
          quantity : Int, status : Statuses, filled : Int, leaves : Int,
          brokerId : Column, completedAt : Column]

Event == [type : Statuses \cup {"order_created", "reconciled"},
          from : Statuses \cup {"none"}, to : Statuses,
          qty : Int, cum : Int, client : ClientIds]

Row == [order : OrderIds, status : Open, filled : Int]

BrokerStatuses == {"ApiPending", "Submitted", "PendingCancel", "Filled", "Cancelled", "Inactive"}

Reply == [row : Row, status : BrokerStatuses, filled : Nat]

(* Every variable ranges over what the tables, the run-local data and the  *)
(* broker can hold: statuses the system knows, amounts of either sign, and *)
(* rows of a snapshot that were open when it was taken.                    *)
TablesOK ==
  /\ DOMAIN orders \subseteq OrderIds
  /\ orders \in [DOMAIN orders -> Order]
  /\ journal \in [OrderIds -> Seq(Event)]

RunsOK ==
  /\ snapshots \in [Runs -> SUBSET Row]
  /\ replies \in [Runs -> SUBSET Reply]
  /\ hung \subseteq Runs

TypeOK ==
  /\ TablesOK
  /\ RunsOK
  /\ broker \in [OrderIds -> [status : BrokerStatuses, filled : Nat]]
  /\ paperFills \subseteq OrderIds

Init ==
  /\ orders = [o \in {} |-> 0]
  /\ journal = [o \in OrderIds |-> <<>>]
  /\ snapshots = [r \in Runs |-> {}]
  /\ replies = [r \in Runs |-> {}]
  /\ hung = {}
  /\ broker = [o \in OrderIds |-> [status |-> "ApiPending", filled |-> 0]]
  /\ paperFills = {}

----------------------------------------------------------------------------
(* Writes to the tables *)

Room(o) == Len(journal[o]) < MaxEvents

\* Mutant: an overfill leaves less than nothing.
LeavesUnclamped(quantity, filled) == quantity - filled

Leaves(quantity, filled) == IF filled < quantity THEN quantity - filled ELSE 0

Coalesce(new, old) == IF new = "set" THEN "set" ELSE old   \* new ?? old

(* The row after a transition, and the event that records it.  The event   *)
(* of a fill that is no number is called filled, whatever the status.      *)
Patched(ord, to, q, link) ==
  [ord EXCEPT !.status = to, !.filled = @ + q,
              !.leaves = Leaves(ord.quantity, ord.filled + q),
              !.brokerId = Coalesce(link, @),
              !.completedAt = IF to \in Terminal THEN "set" ELSE @]

\* Mutant: the cumulative fill is taken before the fill is added.
RecordedBefore(ord, type, to, q) ==
  [type |-> type, from |-> ord.status, to |-> to, qty |-> q,
   cum |-> ord.filled, client |-> ord.client]

Recorded(ord, type, to, q) ==
  [type |-> type, from |-> ord.status, to |-> to, qty |-> q,
   cum |-> ord.filled + q, client |-> ord.client]

(* The same transition of every order of a set, each with its event. *)
ApplyTransition(S, to, q, link) ==
  /\ \A o \in S : CanTransition(orders[o].status, to)
  /\ orders' = [o \in DOMAIN orders |->
                  IF o \in S THEN Patched(orders[o], to, q, link) ELSE orders[o]]
  /\ journal' = [o \in OrderIds |->
                  IF o \in S THEN Append(journal[o], Recorded(orders[o], to, to, q)) ELSE journal[o]]

(* A correction overwrites the row as it is now, whatever its status. *)
\* Mutant: a reopened order stays completed.
ReconciledCompleted(ord, b) ==
  [ord EXCEPT !.status = b.status, !.filled = b.filled,
              !.leaves = Leaves(ord.quantity, b.filled),
              !.brokerId = Coalesce(b.brokerId, @),
              !.completedAt = IF b.status \in Terminal THEN "set" ELSE @]

Reconciled(ord, b) ==
  [ord EXCEPT !.status = b.status, !.filled = b.filled,
              !.leaves = Leaves(ord.quantity, b.filled),
              !.brokerId = Coalesce(b.brokerId, @),
              !.completedAt = IF b.status \in Terminal THEN "set" ELSE "null"]

ReconcileOrders(found) ==
  /\ orders' = [o \in DOMAIN orders |->
                  IF o \in DOMAIN found THEN Reconciled(orders[o], found[o]) ELSE orders[o]]
  /\ journal' = [o \in OrderIds |->
                  IF o \in DOMAIN found
                  THEN Append(journal[o], [type |-> "reconciled", from |-> orders[o].status,
                                           to |-> found[o].status, qty |-> 0,
                                           cum |-> found[o].filled, client |-> orders[o].client])
                  ELSE journal[o]]

----------------------------------------------------------------------------
(* Handlers that run without an await *)

\* Mutant: only the open orders are looked through.
UsedOpen(c) == \E x \in DOMAIN orders : orders[x].client = c /\ orders[x].status \in Open

Used(c) == \E x \in DOMAIN orders : orders[x].client = c

(* A clientOrderId in use returns the existing order and changes nothing.  *)
(* INSERT OR REPLACE lets a supplied orderId take over an existing row.    *)
CreateOrder(o, c, p, m, q, link) ==
  /\ ~Used(c)
  /\ o \in DOMAIN orders => ReuseOrderIds
  /\ Room(o)
  /\ orders' = [x \in DOMAIN orders \cup {o} |->
                  IF x = o
                  THEN [client |-> c, parent |-> p, mode |-> m, quantity |-> q,
                        status |-> "pending", filled |-> 0, leaves |-> q,
                        brokerId |-> link, completedAt |-> "null"]
                  ELSE orders[x]]
  /\ journal' = [journal EXCEPT ![o] =
                  Append(@, [type |-> "order_created", from |-> "none", to |-> "pending",
                             qty |-> 0, cum |-> 0, client |-> c])]
  /\ UNCHANGED <<snapshots, replies, hung, broker, paperFills>>

Submit(o, link) ==
  /\ Room(o)
  /\ ApplyTransition({o}, "submitted", 0, link)
  /\ UNCHANGED <<snapshots, replies, hung, broker, paperFills>>

Acknowledge(o, link) ==
  /\ Room(o)
  /\ ApplyTransition({o}, "acknowledged", 0, link)
  /\ UNCHANGED <<snapshots, replies, hung, broker, paperFills>>

(* A fill of a submitted order acknowledges it first: two transitions.     *)
\* Mutant: the fill goes on with the row it read before the acknowledgement.
AckedStale(ord, link) == ord

Acked(ord, link) ==
  IF ord.status = "submitted" THEN Patched(ord, "acknowledged", 0, link) ELSE ord

(* What is no number completes nothing and counts for nothing.             *)
Counted(q) == IF q = NaN THEN 0 ELSE q

FillTarget(ord, q) ==
  IF q # NaN /\ ord.filled + q >= ord.quantity THEN "filled" ELSE "partially_filled"

FillType(ord, q) == IF q = NaN THEN "filled" ELSE FillTarget(ord, q)

\* Mutant: a late fill of a canceled order is accepted.
FillAllowedLate(ord, q) ==
  ord.status = "canceled" \/ CanTransition(Acked(ord, "null").status, FillTarget(ord, q))

FillAllowed(ord, q) == CanTransition(Acked(ord, "null").status, FillTarget(ord, q))

Fill(o, q, link) ==
  LET ord == orders[o]
      to  == FillTarget(ord, q)
      ack == IF ord.status = "submitted"
             THEN Append(journal[o], Recorded(ord, "acknowledged", "acknowledged", 0))
             ELSE journal[o]
  IN
  /\ Room(o)
  /\ FillAllowed(ord, q)
  /\ orders' = [orders EXCEPT ![o] = Patched(Acked(ord, link), to, Counted(q), link)]
  /\ journal' = [journal EXCEPT ![o] =
                  Append(ack, Recorded(Acked(ord, link), FillType(ord, q), to, Counted(q)))]
  /\ UNCHANGED <<snapshots, replies, hung, broker, paperFills>>

\* Mutant: children that are still pending are forgotten.
SentChildren(o) ==
  {x \in DOMAIN orders \ {o} : orders[x].parent = o /\ orders[x].status \in Open \ {"pending"}}

OpenChildren(o) ==
  {x \in DOMAIN orders \ {o} : orders[x].parent = o /\ orders[x].status \in Open}

(* Canceling an order cancels its open children, and only those. *)
Cancel(o) ==
  /\ Room(o)
  /\ ApplyTransition({o} \cup OpenChildren(o), "canceled", 0, "null")
  /\ UNCHANGED <<snapshots, replies, hung, broker, paperFills>>

Reject(o, link) ==
  /\ Room(o)
  /\ ApplyTransition({o}, "rejected", 0, link)
  /\ UNCHANGED <<snapshots, replies, hung, broker, paperFills>>

Expire(o) ==
  /\ Room(o)
  /\ ApplyTransition({o}, "expired", 0, "null")
  /\ UNCHANGED <<snapshots, replies, hung, broker, paperFills>>

MarkError(o) ==
  /\ Room(o)
  /\ ApplyTransition({o}, "error", 0, "null")
  /\ UNCHANGED <<snapshots, replies, hung, broker, paperFills>>

----------------------------------------------------------------------------
(* Reconciliation *)

OpenOrders(m) == {o \in DOMAIN orders : orders[o].mode = m /\ orders[o].status \in Open}

(* Paper: the engine holds the linked paper order, filled, or has lost it. *)
\* Mutant: whatever the paper engine has lost is in error.
PaperStateLost(ord, o) ==
  IF o \in paperFills
  THEN [status |-> "filled", filled |-> ord.quantity, brokerId |-> "set"]
  ELSE [status |-> "error", filled |-> ord.filled, brokerId |-> "null"]

PaperState(ord, o) ==
  IF o \in paperFills
  THEN [status |-> "filled", filled |-> ord.quantity, brokerId |-> "set"]
  ELSE [status |-> IF ord.status \in {"submitted", "acknowledged"} THEN "error" ELSE ord.status,
        filled |-> ord.filled, brokerId |-> "null"]

ReconcilePaper ==
  LET divergent == {o \in OpenOrders("paper") :
                      \/ PaperState(orders[o], o).status # orders[o].status
                      \/ PaperState(orders[o], o).filled # orders[o].filled}
  IN
  /\ \A o \in DOMAIN orders : Room(o)
  /\ divergent # {}
  /\ ReconcileOrders([o \in divergent |-> PaperState(orders[o], o)])
  /\ UNCHANGED <<snapshots, replies, hung, broker, paperFills>>

(* Live: the snapshot, then for each of its orders a request to the broker *)
(* and, when the reply arrives, the comparison with the snapshot's row.    *)
StartReconcileLive(r) ==
  /\ \A o \in DOMAIN orders : Room(o)
  /\ snapshots[r] = {}
  /\ snapshots' = [snapshots EXCEPT ![r] =
       {[order |-> o, status |-> orders[o].status, filled |-> orders[o].filled] :
          o \in {x \in OpenOrders("live") : orders[x].brokerId = "set"}}]
  /\ UNCHANGED <<orders, journal, replies, hung, broker, paperFills>>

(* The broker answers with what it knows at this moment. *)
BrokerReplies(r, row) ==
  /\ r \notin hung /\ replies[r] = {}
  /\ replies' = [replies EXCEPT ![r] =
       {[row |-> row, status |-> broker[row.order].status, filled |-> broker[row.order].filled]}]
  /\ UNCHANGED <<orders, journal, snapshots, hung, broker, paperFills>>

(* Disconnected, timed out or without a status: the order is left as it is. *)
BrokerUnknown(r, row) ==
  /\ r \notin hung /\ replies[r] = {}
  /\ snapshots' = [snapshots EXCEPT ![r] = @ \ {row}]
  /\ UNCHANGED <<orders, journal, replies, hung, broker, paperFills>>

(* The connection closes in the middle of the response: the client listens *)
(* for the end of the response only, so the request never settles.         *)
BrokerCuts(r) ==
  /\ r \notin hung /\ snapshots[r] # {} /\ replies[r] = {}
  /\ hung' = hung \cup {r}
  /\ UNCHANGED <<orders, journal, snapshots, replies, broker, paperFills>>

(* A status the table does not list keeps the snapshot's status; a filled  *)
(* quantity of zero is null in the reply and keeps the snapshot's.         *)
StatusMap ==
  [Filled |-> "filled", Cancelled |-> "canceled", Submitted |-> "submitted",
   ApiPending |-> "pending", Inactive |-> "expired"]

\* Mutant: a status the table does not list is taken as it is.
StatusOfRaw(reply) ==
  IF reply.status \in DOMAIN StatusMap THEN StatusMap[reply.status] ELSE reply.status

StatusOf(reply) ==
  IF reply.status \in DOMAIN StatusMap THEN StatusMap[reply.status] ELSE reply.row.status

BrokerState(reply) ==
  [status |-> StatusOf(reply),
   filled |-> IF reply.filled = 0 THEN reply.row.filled ELSE reply.filled,
   brokerId |-> "set"]

\* Mutant: an order found in agreement is asked about again.
ReconcileAgain(r) ==
  \E reply \in replies[r] :
    LET b == BrokerState(reply)
        row == reply.row
    IN
    /\ replies' = [replies EXCEPT ![r] = {}]
    /\ IF b.status # row.status \/ b.filled # row.filled
       THEN /\ ReconcileOrders([o \in {row.order} |-> b])
            /\ snapshots' = [snapshots EXCEPT ![r] = @ \ {row}]
       ELSE UNCHANGED <<orders, journal, snapshots>>
    /\ UNCHANGED <<hung, broker, paperFills>>

ReconcileNext(r) ==
  \E reply \in replies[r] :
    LET b == BrokerState(reply)
        row == reply.row
    IN
    /\ snapshots' = [snapshots EXCEPT ![r] = @ \ {row}]
    /\ replies' = [replies EXCEPT ![r] = {}]
    /\ IF b.status # row.status \/ b.filled # row.filled
       THEN ReconcileOrders([o \in {row.order} |-> b])
       ELSE UNCHANGED <<orders, journal>>
    /\ UNCHANGED <<hung, broker, paperFills>>

----------------------------------------------------------------------------
(* The broker, the paper engine and the process *)

BrokerUpdates(o, s, n) ==
  /\ o \in DOMAIN orders
  /\ orders[o].mode = "live" /\ orders[o].brokerId = "set"
  /\ broker' = [broker EXCEPT ![o] = [status |-> s, filled |-> n]]
  /\ UNCHANGED <<orders, journal, snapshots, replies, hung, paperFills>>

BrokerAccepts(o) ==
  /\ broker[o].status = "ApiPending"
  /\ BrokerUpdates(o, "Submitted", 0)

BrokerFills(o, n) ==
  /\ broker[o].status \in {"Submitted", "PendingCancel"}
  /\ n > broker[o].filled
  /\ o \in DOMAIN orders => n <= orders[o].quantity
  /\ BrokerUpdates(o, IF n = orders[o].quantity THEN "Filled" ELSE broker[o].status, n)

BrokerStops(o, s) ==
  /\ s # broker[o].status
  /\ \/ broker[o].status = "ApiPending" /\ s = "Inactive"
     \/ broker[o].status = "Submitted" /\ s \in {"Inactive", "PendingCancel", "Cancelled"}
     \/ broker[o].status = "PendingCancel" /\ s = "Cancelled"
  /\ BrokerUpdates(o, s, broker[o].filled)

PaperTrade(o) ==
  /\ "paper" \in Modes
  /\ o \notin paperFills
  /\ paperFills' = paperFills \cup {o}
  /\ UNCHANGED <<orders, journal, snapshots, replies, hung, broker>>

PaperReset ==
  /\ paperFills # {}
  /\ paperFills' = {}
  /\ UNCHANGED <<orders, journal, snapshots, replies, hung, broker>>

(* The tables survive a restart; reconciliations and the paper engine do not. *)
Restart ==
  /\ snapshots' = [r \in Runs |-> {}]
  /\ replies' = [r \in Runs |-> {}]
  /\ hung' = {}
  /\ paperFills' = {}
  /\ UNCHANGED <<orders, journal, broker>>

----------------------------------------------------------------------------

Parents(o) == {NoParent} \cup {p \in OrderIds : <<o, p>> \in Families}

ClientCall ==
  \/ \E o \in OrderIds, c \in ClientIds, m \in Modes, q \in Quantities, link \in Column :
       \E p \in Parents(o) : CreateOrder(o, c, p, m, q, link)
  \/ \E o \in DOMAIN orders, link \in Column :
       \/ Submit(o, link) \/ Acknowledge(o, link) \/ Reject(o, link)
       \/ \E q \in Amounts \cup {NaN} : Fill(o, q, link)
  \/ \E o \in DOMAIN orders : Cancel(o) \/ Expire(o) \/ MarkError(o)
  \/ ReconcilePaper
  \/ \E r \in Runs : StartReconcileLive(r)

RunStep(r) ==
  \/ \E row \in snapshots[r] : BrokerReplies(r, row) \/ BrokerUnknown(r, row)
  \/ ReconcileNext(r)

Environment ==
  \/ \E o \in OrderIds :
       \/ BrokerAccepts(o)
       \/ \E n \in Amounts : BrokerFills(o, n)
       \/ \E s \in BrokerStatuses : BrokerStops(o, s)
       \/ PaperTrade(o)
  \/ \E r \in Runs : BrokerCuts(r)
  \/ PaperReset
  \/ Restart

Next == ClientCall \/ (\E r \in Runs : RunStep(r)) \/ Environment

(* A request that gets no answer is given up after ten idle seconds and    *)
(* the event loop resumes the handler that awaits it.  Nothing is assumed  *)
(* of a request whose response was cut: a hung run takes no more steps.    *)
Fairness == \A r \in Runs : WF_vars(RunStep(r))

Spec == Init /\ [][Next]_vars /\ Fairness

----------------------------------------------------------------------------
(* Properties *)

(* The derived columns follow the others on every path that writes a row:  *)
(* leavesQuantity is what is left of the quantity and, once a transition   *)
(* or a correction wrote it, never less than nothing (a new order for a    *)
(* negative quantity leaves that quantity); completedAt is set exactly     *)
(* when the status is terminal, also after a correction reopens or closes  *)
(* an order.                                                               *)
IsLeft(n, ord) ==
  \/ n = ord.quantity - ord.filled /\ n >= 0
  \/ n = 0 /\ ord.filled >= ord.quantity

Coherent(ord, last) ==
  /\ IF last.type = "order_created" THEN ord.leaves = ord.quantity /\ ord.filled = 0
     ELSE IsLeft(ord.leaves, ord)
  /\ ord.completedAt = "set" <=> ord.status \in Terminal

LastOf(events) == events[Len(events)]

OrderCoherent == \A o \in DOMAIN orders : Coherent(orders[o], LastOf(journal[o]))

(* The journal's last event of an order tells the order's current status   *)
(* and cumulative fill, whatever handlers, cascades and overlapping        *)
(* reconciliations wrote them.                                             *)
Tells(events, ord) ==
  /\ events # <<>>
  /\ LastOf(events).to = ord.status
  /\ LastOf(events).cum = ord.filled

JournalAgrees == \A o \in DOMAIN orders : Tells(journal[o], orders[o])

(* Each event of an order continues the one before: it starts from the     *)
(* status that one reached and, unless it is a correction, is a move of    *)
(* the transition table that adds its fill to the cumulative quantity.     *)
Continues(d, e) ==
  \/ e.type = "order_created"
  \/ e.type = "reconciled" /\ e.from = d.to
  \/ e.from = d.to /\ CanTransition(e.from, e.to) /\ e.cum = d.cum + e.qty

Chained(events) == \A i \in 1 .. Len(events) - 1 : Continues(events[i], events[i + 1])

JournalChained == \A o \in OrderIds : Chained(journal[o])

(* The row and the journal of an order tell the same story, whatever       *)
(* transitions, cascades, reused ids and overlapping corrections wrote     *)
(* them (omsEngine.js patchOrder, appendEvent, reconcileOrder).            *)
OrdersTold == OrderCoherent /\ JournalAgrees /\ JournalChained

(* An order the system calls filled has been filled to its quantity. *)
FilledIsComplete ==
  \A o \in DOMAIN orders : orders[o].status = "filled" => orders[o].filled >= orders[o].quantity

(* Reconciliation (or a caller reusing the orderId) is the only way out of *)
(* a terminal status, and the journal says so.                             *)
LeavesTerminal(o) ==
  LET e == journal'[o][Len(journal'[o])]
  IN  e.type \in {"reconciled", "order_created"} /\ e.from \in {orders[o].status, "none"}

TerminalLeftOnlyByReconcile ==
  [][\A o \in DOMAIN orders :
       orders[o].status \in Terminal /\ orders'[o].status # orders[o].status
         => LeavesTerminal(o)]_vars

(* "filled (terminal) ... expired (terminal)": a terminal status is final. *)
TerminalIsFinal ==
  [][\A o \in DOMAIN orders :
       orders[o].status \in Terminal => orders'[o].status = orders[o].status]_vars

(* "When parent moves to 'canceled' -> all OPEN children are               *)
(* cascade-canceled": no step cancels an order and leaves a child open.    *)
CancelCascades ==
  [][\A p \in DOMAIN orders :
       orders[p].status # "canceled" /\ orders'[p].status = "canceled" =>
         \A o \in DOMAIN orders : orders[o].parent = p => orders'[o].status \notin Open]_vars

(* "Idempotency: return existing order if clientOrderId already used": one *)
(* clientOrderId is never used for two creations.                          *)
CreatedOnce ==
  \A o, x \in OrderIds : \A i \in DOMAIN journal[o], j \in DOMAIN journal[x] :
    /\ journal[o][i].type = "order_created" /\ journal[x][j].type = "order_created"
    /\ journal[o][i].client = journal[x][j].client
    => o = x /\ i = j

(* What a client sees of its order is what it asked for, once: one order,  *)
(* and filled only when all of it is (createOrder, recordFill).            *)
ClientsServed == FilledIsComplete /\ CreatedOnce

(* "Record a fill - handles partial and full fills automatically": a fill  *)
(* of some of what is left of a working order is accepted.                 *)
WorkingFillsAccepted ==
  \A o \in DOMAIN orders : \A q \in Amounts :
    /\ orders[o].status \in {"submitted", "acknowledged", "partially_filled"}
    /\ q \in 1 .. orders[o].leaves
    => FillAllowed(orders[o], q)

(* A reconciliation that started ends, whatever the broker answers, leaves *)
(* unanswered or refuses; the one thing that keeps it for ever is a        *)
(* response that was cut, which nothing notices (IBGatewayClient._request).*)
RunsEnd == \A r \in Runs : snapshots[r] # {} ~> (snapshots[r] = {} \/ r \in hung)

(* Without live orders the system keeps the lifecycle it promises, and the *)
(* only move outside the table is a poll that finds a pending order filled. *)
Lifecycle == INSTANCE OrderLifecycle WITH
  status <- [o \in DOMAIN orders |-> orders[o].status], Corrections <- {"filled"}

KeepsLifecycle == Lifecycle!Spec
=============================================================================
