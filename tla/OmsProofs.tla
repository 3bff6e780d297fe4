------------------------------ MODULE OmsProofs ------------------------------
(***************************************************************************)
(* The invariants of the order management system, for all orders, callers, *)
(* quantities and overlapping reconciliations.                             *)
(***************************************************************************)
EXTENDS Oms, SequenceTheorems, TLAPS

(* What the tables keep true of each other.  The journal's agreement with  *)
(* the orders makes its chaining inductive: a new event starts from the    *)
(* order's status, which is where the last one ended.                      *)
TablesInv == TablesOK /\ OrderCoherent /\ JournalAgrees /\ JournalChained

(* A reconciliation only holds rows of orders that exist: nothing deletes  *)
(* an order while the broker is asked about it.                            *)
RowsExist ==
  \A r \in Runs :
    /\ \A row \in snapshots[r] : row.order \in DOMAIN orders
    /\ \A reply \in replies[r] : reply.row.order \in DOMAIN orders

IInv == TypeOK /\ TablesInv /\ RowsExist

BrokerStates == [status : Statuses, filled : Int, brokerId : Column]

(* What one write makes of a row, and what the next one relies on.         *)
Dated(ord) == ord.completedAt = "set" <=> ord.status \in Terminal

Settled(ord) == IsLeft(ord.leaves, ord) /\ Dated(ord)

----------------------------------------------------------------------------
(* The helpers *)

(* The transition table relates statuses, and never leaves a terminal one. *)
LEMMA TransitionFacts ==
  ASSUME NEW from, NEW to, CanTransition(from, to)
  PROVE  from \in Statuses /\ from \notin Terminal /\ to \in Statuses /\ to # "pending"
BY DEF CanTransition, Transitions, Statuses, Open, Terminal

(* A write changes the status it is given and no parent.                   *)
LEMMA WritesKeepParents ==
  ASSUME NEW ord \in Order
  PROVE  /\ \A to, q, link : Patched(ord, to, q, link).parent = ord.parent /\ Patched(ord, to, q, link).status = to
         /\ \A b : Reconciled(ord, b).parent = ord.parent /\ Reconciled(ord, b).status = b.status
<1>1. ASSUME NEW to, NEW q, NEW link
      PROVE  Patched(ord, to, q, link).parent = ord.parent /\ Patched(ord, to, q, link).status = to
  BY DEF Patched, Order
<1>2. ASSUME NEW b
      PROVE  Reconciled(ord, b).parent = ord.parent /\ Reconciled(ord, b).status = b.status
  BY DEF Reconciled, Order
<1>. QED
  BY <1>1, <1>2

(* A settled row whose last event is no creation is coherent.              *)
LEMMA SettledIsCoherent ==
  ASSUME NEW ord, Settled(ord), NEW last, last.type # "order_created"
  PROVE  Coherent(ord, last)
BY DEF Settled, Dated, Coherent

(* A transition settles an order. *)
LEMMA PatchedFacts ==
  ASSUME NEW ord \in Order, NEW to, NEW q \in Int, NEW link \in Column,
         CanTransition(ord.status, to),
         Dated(ord)
  PROVE  LET new == Patched(ord, to, q, link)
         IN  /\ new \in Order
             /\ Settled(new)
             /\ new.status = to
             /\ new.filled = ord.filled + q
             /\ new.client = ord.client
<1>1. to \in Statuses /\ ord.status \notin Terminal
  BY TransitionFacts
<1> DEFINE n == Leaves(ord.quantity, ord.filled + q)
<1>2. n \in Int /\ ((n = ord.quantity - (ord.filled + q) /\ n >= 0) \/ (n = 0 /\ ord.filled + q >= ord.quantity))
  <2>1. ord.quantity \in Int /\ ord.filled + q \in Int
    BY DEF Order
  <2>. QED
    BY <2>1 DEF Leaves
<1> DEFINE new == Patched(ord, to, q, link)
<1>3. /\ new.status = to /\ new.filled = ord.filled + q
      /\ new.leaves = Leaves(ord.quantity, ord.filled + q)
      /\ new.quantity = ord.quantity /\ new.client = ord.client
      /\ new.completedAt = IF to \in Terminal THEN "set" ELSE ord.completedAt
  BY DEF Patched, Order, Column, Coalesce
<1>4. new \in Order
  <2>1. new.completedAt \in Column /\ new.brokerId \in Column
    BY <1>3 DEF Patched, Order, Column, Coalesce
  <2>2. new = [ord EXCEPT !.status = to, !.filled = new.filled, !.leaves = new.leaves,
                          !.brokerId = new.brokerId, !.completedAt = new.completedAt]
    BY DEF Patched, Order
  <2>3. new.filled \in Int /\ new.leaves \in Int
    BY <1>2, <1>3 DEF Order
  <2>. HIDE DEF new
  <2>. QED
    BY <1>1, <2>1, <2>2, <2>3 DEF Order
<1>5. IsLeft(new.leaves, new) /\ Dated(new)
  <2>. HIDE DEF new
  <2>. QED
    BY <1>1, <1>2, <1>3 DEF IsLeft, Dated
<1>. QED
  BY <1>1, <1>3, <1>4, <1>5 DEF Settled

(* So does a correction, whatever the status it overwrites. *)
LEMMA ReconciledFacts ==
  ASSUME NEW ord \in Order, NEW b \in BrokerStates
  PROVE  LET new == Reconciled(ord, b)
         IN  /\ new \in Order
             /\ Settled(new)
             /\ new.status = b.status
             /\ new.filled = b.filled
<1> DEFINE n == Leaves(ord.quantity, b.filled)
<1>1. n \in Int /\ ((n = ord.quantity - b.filled /\ n >= 0) \/ (n = 0 /\ b.filled >= ord.quantity))
  <2>1. ord.quantity \in Int /\ b.filled \in Int
    BY DEF Order, BrokerStates
  <2>. QED
    BY <2>1 DEF Leaves
<1>. QED
  BY <1>1 DEF Reconciled, Order, BrokerStates, Column, Coalesce, Settled, IsLeft, Dated

(* Appending an event that continues the last one keeps a journal chained. *)
LEMMA AppendChained ==
  ASSUME NEW s \in Seq(Event), NEW e \in Event, Chained(s),
         s = <<>> \/ Continues(s[Len(s)], e)
  PROVE  /\ Append(s, e) \in Seq(Event)
         /\ Append(s, e) # <<>>
         /\ Append(s, e)[Len(Append(s, e))] = e
         /\ Chained(Append(s, e))
<1> DEFINE t == Append(s, e)
<1>1. /\ t \in Seq(Event) /\ t # <<>> /\ Len(t) = Len(s) + 1 /\ t[Len(s) + 1] = e
      /\ \A i \in 1 .. Len(s) : t[i] = s[i]
  BY AppendProperties
<1>2. t # <<>> /\ t[Len(t)] = e
  BY <1>1
<1>3. ASSUME NEW i \in 1 .. Len(t) - 1
      PROVE  Continues(t[i], t[i + 1])
  <2>1. CASE i = Len(s)
    <3>1. s # <<>> /\ t[i] = s[Len(s)] /\ t[i + 1] = e
      BY <1>1, <2>1
    <3>. QED
      BY <3>1
  <2>2. CASE i # Len(s)
    <3>1. i \in 1 .. Len(s) - 1 /\ t[i] = s[i] /\ t[i + 1] = s[i + 1]
      BY <1>1, <2>2
    <3>. QED
      BY <3>1 DEF Chained
  <2>. QED
    BY <2>1, <2>2
<1>. QED
  BY <1>1, <1>2, <1>3 DEF Chained

(* A write of some orders and of their journals keeps the tables' invariant *)
(* when every written order is coherent and its journal, still chained,     *)
(* ends with an event that tells its new state.                             *)
LEMMA WriteKeepsTables ==
  ASSUME TablesInv, NEW S \in SUBSET OrderIds,
         NEW new \in [S -> Order], NEW events \in [S -> Seq(Event)],
         orders' = [o \in DOMAIN orders \cup S |-> IF o \in S THEN new[o] ELSE orders[o]],
         journal' = [o \in OrderIds |-> IF o \in S THEN events[o] ELSE journal[o]],
         \A o \in S : /\ Coherent(new[o], LastOf(events[o]))
                      /\ Tells(events[o], new[o]) /\ Chained(events[o])
  PROVE  TablesInv'
<1>1. TablesOK'
  BY DEF TablesInv, TablesOK
<1>2. OrderCoherent'
  BY DEF TablesInv, TablesOK, OrderCoherent
<1>3. JournalAgrees'
  BY DEF TablesInv, TablesOK, JournalAgrees
<1>4. JournalChained'
  BY DEF TablesInv, JournalChained
<1>. QED
  BY <1>1, <1>2, <1>3, <1>4 DEF TablesInv

----------------------------------------------------------------------------
(* The writes *)

(* The event of a transition continues a journal that tells the order.     *)
LEMMA RecordedFacts ==
  ASSUME NEW ord \in Order, NEW type \in Statuses, NEW to, NEW q \in Int, CanTransition(ord.status, to),
         NEW s \in Seq(Event), Tells(s, ord), Chained(s)
  PROVE  LET t == Append(s, Recorded(ord, type, to, q))
         IN  t \in Seq(Event) /\ Chained(t) /\ t # <<>>
             /\ LastOf(t).to = to /\ LastOf(t).cum = ord.filled + q
             /\ LastOf(t).type # "order_created"
<1> DEFINE e == Recorded(ord, type, to, q)
<1>1. e \in Event
  BY TransitionFacts DEF Recorded, Event, Order
<1>2. e.from = ord.status /\ e.to = to /\ e.cum = ord.filled + q /\ e.qty = q /\ e.type # "order_created"
  BY DEF Recorded, Statuses, Open, Terminal
<1>3. s # <<>> /\ Continues(s[Len(s)], e)
  BY <1>2 DEF Tells, LastOf, Continues
<1>4. /\ Append(s, e) \in Seq(Event) /\ Append(s, e) # <<>> /\ Chained(Append(s, e))
      /\ Append(s, e)[Len(Append(s, e))] = e
  BY <1>1, <1>3, AppendChained
<1>. QED
  BY <1>2, <1>4 DEF LastOf

(* Transitions of existing orders keep the tables' invariant. *)
LEMMA ApplyTransitionKeepsTables ==
  ASSUME TablesInv, NEW S \in SUBSET DOMAIN orders, NEW to, NEW q \in Int, NEW link \in Column,
         ApplyTransition(S, to, q, link)
  PROVE  TablesInv' /\ DOMAIN orders' = DOMAIN orders
<1> DEFINE new == [o \in S |-> Patched(orders[o], to, q, link)]
           events == [o \in S |-> Append(journal[o], Recorded(orders[o], to, to, q))]
<1>1. ASSUME NEW o \in S
      PROVE  /\ new[o] \in Order /\ Coherent(new[o], LastOf(events[o]))
             /\ events[o] \in Seq(Event) /\ Chained(events[o]) /\ Tells(events[o], new[o])
  <2>1. /\ orders[o] \in Order /\ Dated(orders[o]) /\ CanTransition(orders[o].status, to)
        /\ journal[o] \in Seq(Event) /\ Tells(journal[o], orders[o]) /\ Chained(journal[o])
    BY DEF TablesInv, TablesOK, OrderCoherent, Coherent, Dated, JournalAgrees, JournalChained, ApplyTransition
  <2>2. /\ new[o] \in Order /\ Settled(new[o])
        /\ new[o].status = to /\ new[o].filled = orders[o].filled + q
    BY <2>1, PatchedFacts
  <2>3. /\ events[o] \in Seq(Event) /\ Chained(events[o]) /\ events[o] # <<>>
        /\ LastOf(events[o]).to = to
        /\ LastOf(events[o]).cum = orders[o].filled + q
        /\ LastOf(events[o]).type # "order_created"
    BY <2>1, RecordedFacts, TransitionFacts
  <2>. HIDE DEF new, events
  <2>. QED
    BY <2>2, <2>3, SettledIsCoherent DEF Tells
<1>2. new \in [S -> Order] /\ events \in [S -> Seq(Event)] /\ S \in SUBSET OrderIds
  BY <1>1 DEF TablesInv, TablesOK
<1>3. /\ orders' = [o \in DOMAIN orders \cup S |-> IF o \in S THEN new[o] ELSE orders[o]]
      /\ journal' = [o \in OrderIds |-> IF o \in S THEN events[o] ELSE journal[o]]
  BY DEF ApplyTransition
<1>. HIDE DEF new, events
<1>4. TablesInv'
  BY <1>1, <1>2, <1>3, WriteKeepsTables
<1>. QED
  BY <1>4 DEF ApplyTransition

(* Corrections of existing orders keep it too. *)
LEMMA ReconcileOrdersKeepsTables ==
  ASSUME TablesInv, NEW S \in SUBSET DOMAIN orders, NEW found \in [S -> BrokerStates],
         ReconcileOrders(found)
  PROVE  TablesInv' /\ DOMAIN orders' = DOMAIN orders
<1> DEFINE new == [o \in S |-> Reconciled(orders[o], found[o])]
           event(o) == [type |-> "reconciled", from |-> orders[o].status,
                        to |-> found[o].status, qty |-> 0,
                        cum |-> found[o].filled, client |-> orders[o].client]
           events == [o \in S |-> Append(journal[o], event(o))]
<1>1. ASSUME NEW o \in S
      PROVE  /\ new[o] \in Order /\ Coherent(new[o], LastOf(events[o]))
             /\ events[o] \in Seq(Event) /\ Chained(events[o]) /\ Tells(events[o], new[o])
  <2>1. /\ orders[o] \in Order /\ found[o] \in BrokerStates
        /\ journal[o] \in Seq(Event) /\ Tells(journal[o], orders[o]) /\ Chained(journal[o])
    BY DEF TablesInv, TablesOK, JournalAgrees, JournalChained
  <2>2. /\ new[o] \in Order /\ Settled(new[o])
        /\ new[o].status = found[o].status /\ new[o].filled = found[o].filled
    BY <2>1, ReconciledFacts
  <2>3. event(o) \in Event
    BY <2>1 DEF Event, Order, BrokerStates
  <2>4. journal[o] # <<>> /\ Continues(journal[o][Len(journal[o])], event(o))
    BY <2>1 DEF Tells, LastOf, Continues
  <2>5. /\ events[o] \in Seq(Event) /\ events[o] # <<>> /\ Chained(events[o])
        /\ events[o][Len(events[o])] = event(o)
    BY <2>1, <2>3, <2>4, AppendChained
  <2>6. /\ event(o).to = found[o].status /\ event(o).cum = found[o].filled
        /\ event(o).type # "order_created"
    OBVIOUS
  <2>. HIDE DEF new, events, event
  <2>. QED
    BY <2>2, <2>5, <2>6, SettledIsCoherent DEF Tells, LastOf
<1>2. new \in [S -> Order] /\ events \in [S -> Seq(Event)] /\ S \in SUBSET OrderIds
  BY <1>1 DEF TablesInv, TablesOK
<1>3. /\ orders' = [o \in DOMAIN orders \cup S |-> IF o \in S THEN new[o] ELSE orders[o]]
      /\ journal' = [o \in OrderIds |-> IF o \in S THEN events[o] ELSE journal[o]]
  BY DEF ReconcileOrders
<1>. HIDE DEF new, events
<1>4. TablesInv'
  BY <1>1, <1>2, <1>3, WriteKeepsTables
<1>. QED
  BY <1>4 DEF ReconcileOrders

(* Creating an order, new or in the place of another, keeps it. *)
LEMMA CreateOrderKeepsTables ==
  ASSUME TablesInv, NEW o \in OrderIds, NEW c \in ClientIds, NEW p \in OrderIds \cup {NoParent},
         NEW m \in Modes, NEW q \in Int, NEW link \in Column, CreateOrder(o, c, p, m, q, link)
  PROVE  TablesInv' /\ DOMAIN orders \subseteq DOMAIN orders'
<1> DEFINE ord == [client |-> c, parent |-> p, mode |-> m, quantity |-> q,
                   status |-> "pending", filled |-> 0, leaves |-> q,
                   brokerId |-> link, completedAt |-> "null"]
           e == [type |-> "order_created", from |-> "none", to |-> "pending",
                 qty |-> 0, cum |-> 0, client |-> c]
           new == [x \in {o} |-> ord]
           events == [x \in {o} |-> Append(journal[x], e)]
<1>1. ord \in Order /\ e \in Event
  BY DEF Order, Event, Statuses, Open, Column
<1>2. Coherent(ord, e)
  BY DEF Coherent, Terminal
<1>3. journal[o] \in Seq(Event) /\ Chained(journal[o])
  BY DEF TablesInv, TablesOK, JournalChained
<1>4. /\ Append(journal[o], e) \in Seq(Event) /\ Append(journal[o], e) # <<>>
      /\ Chained(Append(journal[o], e))
      /\ Append(journal[o], e)[Len(Append(journal[o], e))] = e
  <2>1. Continues(journal[o][Len(journal[o])], e)
    BY DEF Continues
  <2>. QED
    BY <1>1, <1>3, <2>1, AppendChained
<1>5. Tells(Append(journal[o], e), ord) /\ LastOf(Append(journal[o], e)) = e
  BY <1>4 DEF Tells, LastOf
<1>6. new \in [{o} -> Order] /\ events \in [{o} -> Seq(Event)] /\ {o} \in SUBSET OrderIds
  BY <1>1, <1>4
<1>7. \A x \in {o} : /\ Coherent(new[x], LastOf(events[x]))
                    /\ Tells(events[x], new[x]) /\ Chained(events[x])
  BY <1>2, <1>4, <1>5
<1>8. /\ orders' = [x \in DOMAIN orders \cup {o} |-> IF x \in {o} THEN new[x] ELSE orders[x]]
      /\ journal' = [x \in OrderIds |-> IF x \in {o} THEN events[x] ELSE journal[x]]
  BY DEF CreateOrder, TablesInv, TablesOK
<1>. HIDE DEF new, events
<1>9. TablesInv'
  BY <1>6, <1>7, <1>8, WriteKeepsTables
<1>. QED
  BY <1>9 DEF CreateOrder

(* What a fill counts for is a number, and its target and its event's type *)
(* are statuses.                                                           *)
LEMMA FillFacts ==
  ASSUME NEW q \in Amounts \cup {NaN}, NEW ord
  PROVE  /\ Counted(q) \in Int
         /\ FillTarget(ord, q) \in {"filled", "partially_filled"}
         /\ FillType(ord, q) \in {"filled", "partially_filled"}
         /\ FillTarget(ord, q) = "filled" => ord.filled + Counted(q) >= ord.quantity
BY AmountAssumption DEF Counted, FillTarget, FillType

(* A fill keeps it: of a submitted order, through the acknowledgement. *)
LEMMA FillKeepsTables ==
  ASSUME TablesInv, NEW o \in DOMAIN orders, NEW q \in Amounts \cup {NaN}, NEW link \in Column, Fill(o, q, link)
  PROVE  TablesInv' /\ DOMAIN orders' = DOMAIN orders
<1> DEFINE ord == orders[o]
           to == FillTarget(ord, q)
           ack == IF ord.status = "submitted"
                  THEN Append(journal[o], Recorded(ord, "acknowledged", "acknowledged", 0)) ELSE journal[o]
           n == Counted(q)
           type == FillType(ord, q)
           end == Append(ack, Recorded(Acked(ord, link), type, to, n))
           new == [x \in {o} |-> Patched(Acked(ord, link), to, n, link)]
           events == [x \in {o} |-> end]
<1>1. /\ ord \in Order /\ Dated(ord) /\ o \in OrderIds
      /\ journal[o] \in Seq(Event) /\ Tells(journal[o], ord) /\ Chained(journal[o])
  BY DEF TablesInv, TablesOK, OrderCoherent, Coherent, Dated, JournalAgrees, JournalChained
<1>0. n \in Int /\ type \in Statuses
  BY FillFacts DEF Statuses, Open, Terminal
<1>2. CanTransition(Acked(ord, link).status, to)
  <2>1. ord.status = "submitted" => /\ Acked(ord, link).status = "acknowledged"
                                    /\ Acked(ord, "null").status = "acknowledged"
    BY <1>1 DEF Acked, Patched, Order
  <2>. QED
    BY <1>1, <2>1 DEF Fill, FillAllowed, Acked
<1>3. /\ Acked(ord, link) \in Order /\ Dated(Acked(ord, link))
      /\ ack \in Seq(Event) /\ Tells(ack, Acked(ord, link)) /\ Chained(ack)
  <2>1. CASE ord.status = "submitted"
    <3>1. CanTransition(ord.status, "acknowledged") /\ 0 \in Int /\ "acknowledged" \in Statuses
      BY <2>1 DEF CanTransition, Transitions, Terminal, Statuses, Open
    <3>2. /\ Acked(ord, link) \in Order /\ Dated(Acked(ord, link))
          /\ Acked(ord, link).status = "acknowledged" /\ Acked(ord, link).filled = ord.filled + 0
      BY <1>1, <2>1, <3>1, PatchedFacts DEF Acked, Settled
    <3>3. /\ ack \in Seq(Event) /\ Chained(ack) /\ ack # <<>>
          /\ LastOf(ack).to = "acknowledged" /\ LastOf(ack).cum = ord.filled + 0
      BY <1>1, <2>1, <3>1, RecordedFacts
    <3>. HIDE DEF ord, ack
    <3>. QED
      BY <3>2, <3>3 DEF Tells
  <2>2. CASE ord.status # "submitted"
    BY <1>1, <2>2 DEF Acked
  <2>. QED
    BY <2>1, <2>2
<1>4. /\ Patched(Acked(ord, link), to, n, link) \in Order
      /\ Settled(Patched(Acked(ord, link), to, n, link))
      /\ Patched(Acked(ord, link), to, n, link).status = to
      /\ Patched(Acked(ord, link), to, n, link).filled = Acked(ord, link).filled + n
  <2>. HIDE DEF ord, to, n
  <2>. QED
    BY <1>0, <1>2, <1>3, PatchedFacts
<1>5. /\ end \in Seq(Event) /\ Chained(end) /\ end # <<>>
      /\ LastOf(end).to = to /\ LastOf(end).cum = Acked(ord, link).filled + n
      /\ LastOf(end).type # "order_created"
  <2>. HIDE DEF ord, to, ack, n, type
  <2>. QED
    BY <1>0, <1>2, <1>3, RecordedFacts
<1>6. Tells(end, Patched(Acked(ord, link), to, n, link))
  <2>. HIDE DEF ord, to, end, n
  <2>. QED
    BY <1>4, <1>5 DEF Tells
<1>7. new \in [{o} -> Order] /\ events \in [{o} -> Seq(Event)] /\ {o} \in SUBSET OrderIds
  BY <1>1, <1>4, <1>5
<1>8. \A x \in {o} : /\ Coherent(new[x], LastOf(events[x]))
                    /\ Tells(events[x], new[x]) /\ Chained(events[x])
  <2>1. Coherent(Patched(Acked(ord, link), to, n, link), LastOf(end))
    <3>. HIDE DEF ord, to, end, n
    <3>. QED
      BY <1>4, <1>5, SettledIsCoherent
  <2>. QED
    BY <1>5, <1>6, <2>1
<1>9. /\ orders' = [x \in DOMAIN orders \cup {o} |-> IF x \in {o} THEN new[x] ELSE orders[x]]
      /\ journal' = [x \in OrderIds |-> IF x \in {o} THEN events[x] ELSE journal[x]]
  BY DEF Fill, TablesInv, TablesOK
<1>10. DOMAIN orders' = DOMAIN orders
  BY DEF Fill
<1>. HIDE DEF new, events
<1>. QED
  BY <1>7, <1>8, <1>9, <1>10, WriteKeepsTables

----------------------------------------------------------------------------
(* The steps *)

(* What a reply stands for is a status and amounts an order can have. *)
LEMMA BrokerStateFacts ==
  ASSUME NEW reply \in Reply
  PROVE  BrokerState(reply) \in BrokerStates
<1>1. reply.row.status \in Statuses /\ reply.row.filled \in Int /\ reply.filled \in Nat
  BY DEF Reply, Row, Statuses
<1>2. BrokerState(reply).status \in Statuses
  <2>1. \A k \in DOMAIN StatusMap : StatusMap[k] \in Statuses
    BY DEF StatusMap, Statuses, Open, Terminal
  <2>. QED
    BY <1>1, <2>1 DEF BrokerState, StatusOf
<1>3. BrokerState(reply).filled \in Int
  BY <1>1 DEF BrokerState
<1>. QED
  BY <1>2, <1>3 DEF BrokerState, BrokerStates, Column

(* What the paper engine tells of an order is, too. *)
LEMMA PaperStateFacts ==
  ASSUME NEW ord \in Order, NEW o
  PROVE  PaperState(ord, o) \in BrokerStates
BY DEF PaperState, BrokerStates, Order, Column, Statuses, Open, Terminal

(* Every caller's handler keeps the tables and deletes no order. *)
LEMMA ClientCallKeepsTables ==
  ASSUME IInv, ClientCall
  PROVE  TablesInv' /\ DOMAIN orders \subseteq DOMAIN orders'
<1>. USE QuantityAssumption
<1>0. TablesInv /\ DOMAIN orders \subseteq OrderIds /\ "null" \in Column /\ 0 \in Int
  BY DEF IInv, TablesInv, TablesOK, Column
<1>1. ASSUME NEW o \in OrderIds, NEW c \in ClientIds, NEW m \in Modes, NEW q \in Quantities,
             NEW link \in Column, NEW p \in Parents(o), CreateOrder(o, c, p, m, q, link)
      PROVE  TablesInv' /\ DOMAIN orders \subseteq DOMAIN orders'
  <2>1. p \in OrderIds \cup {NoParent} /\ q \in Int
    BY DEF Parents
  <2>. QED
    BY <1>0, <1>1, <2>1, CreateOrderKeepsTables
<1>2. ASSUME NEW S \in SUBSET DOMAIN orders, NEW to, NEW link \in Column,
             ApplyTransition(S, to, 0, link)
      PROVE  TablesInv' /\ DOMAIN orders \subseteq DOMAIN orders'
  BY <1>0, <1>2, ApplyTransitionKeepsTables
<1>3. ASSUME NEW o \in DOMAIN orders, NEW link \in Column, Submit(o, link)
      PROVE  TablesInv' /\ DOMAIN orders \subseteq DOMAIN orders'
  BY <1>2, <1>3 DEF Submit
<1>4. ASSUME NEW o \in DOMAIN orders, NEW link \in Column, Acknowledge(o, link)
      PROVE  TablesInv' /\ DOMAIN orders \subseteq DOMAIN orders'
  BY <1>2, <1>4 DEF Acknowledge
<1>5. ASSUME NEW o \in DOMAIN orders, NEW q \in Amounts \cup {NaN}, NEW link \in Column, Fill(o, q, link)
      PROVE  TablesInv' /\ DOMAIN orders \subseteq DOMAIN orders'
  BY <1>0, <1>5, FillKeepsTables
<1>6. ASSUME NEW o \in DOMAIN orders, Cancel(o)
      PROVE  TablesInv' /\ DOMAIN orders \subseteq DOMAIN orders'
  <2>1. {o} \cup OpenChildren(o) \in SUBSET DOMAIN orders
    BY DEF OpenChildren
  <2>. QED
    BY <1>0, <1>2, <1>6, <2>1 DEF Cancel
<1>7. ASSUME NEW o \in DOMAIN orders, NEW link \in Column,
             Reject(o, link) \/ Expire(o) \/ MarkError(o)
      PROVE  TablesInv' /\ DOMAIN orders \subseteq DOMAIN orders'
  BY <1>0, <1>2, <1>7 DEF Reject, Expire, MarkError
<1>8. CASE ReconcilePaper
  <2> DEFINE S == {o \in OpenOrders("paper") :
                     \/ PaperState(orders[o], o).status # orders[o].status
                     \/ PaperState(orders[o], o).filled # orders[o].filled}
             found == [o \in S |-> PaperState(orders[o], o)]
  <2>1. S \in SUBSET DOMAIN orders
    BY DEF OpenOrders
  <2>2. \A o \in S : orders[o] \in Order
    BY <1>0, <2>1 DEF TablesInv, TablesOK
  <2>3. found \in [S -> BrokerStates]
    BY <2>2, PaperStateFacts
  <2>4. ReconcileOrders(found)
    BY <1>8 DEF ReconcilePaper
  <2>. HIDE DEF S, found
  <2>. QED
    BY <1>0, <2>1, <2>3, <2>4, ReconcileOrdersKeepsTables
<1>9. ASSUME NEW r \in Runs, StartReconcileLive(r)
      PROVE  TablesInv' /\ DOMAIN orders \subseteq DOMAIN orders'
  BY <1>0, <1>9 DEF StartReconcileLive, TablesInv, TablesOK, OrderCoherent, JournalAgrees, JournalChained
<1>. QED
  BY <1>1, <1>3, <1>4, <1>5, <1>6, <1>7, <1>8, <1>9 DEF ClientCall, Column

(* So does a reconciliation, at each of its steps. *)
LEMMA RunStepKeepsTables ==
  ASSUME IInv, NEW r \in Runs, RunStep(r)
  PROVE  TablesInv' /\ DOMAIN orders' = DOMAIN orders
<1>1. ASSUME UNCHANGED <<orders, journal>>
      PROVE  TablesInv' /\ DOMAIN orders' = DOMAIN orders
  BY <1>1 DEF IInv, TablesInv, TablesOK, OrderCoherent, JournalAgrees, JournalChained
<1>2. ASSUME NEW row \in snapshots[r], BrokerReplies(r, row) \/ BrokerUnknown(r, row)
      PROVE  TablesInv' /\ DOMAIN orders' = DOMAIN orders
  BY <1>1, <1>2 DEF BrokerReplies, BrokerUnknown
<1>3. CASE ReconcileNext(r)
  <2>1. PICK reply \in replies[r] :
          \/ ReconcileOrders([o \in {reply.row.order} |-> BrokerState(reply)])
          \/ UNCHANGED <<orders, journal>>
    BY <1>3 DEF ReconcileNext
  <2>2. CASE UNCHANGED <<orders, journal>>
    BY <1>1, <2>2
  <2>3. CASE ReconcileOrders([o \in {reply.row.order} |-> BrokerState(reply)])
    <3>1. reply \in Reply /\ reply.row.order \in DOMAIN orders
      BY DEF IInv, TypeOK, RunsOK, RowsExist
    <3>2. BrokerState(reply) \in BrokerStates
      BY <3>1, BrokerStateFacts
    <3>3. /\ [o \in {reply.row.order} |-> BrokerState(reply)] \in [{reply.row.order} -> BrokerStates]
          /\ {reply.row.order} \in SUBSET DOMAIN orders
      BY <3>1, <3>2
    <3>. QED
      BY <2>3, <3>3, ReconcileOrdersKeepsTables DEF IInv
  <2>. QED
    BY <2>1, <2>2, <2>3
<1>. QED
  BY <1>2, <1>3 DEF RunStep

(* What the runs hold stays rows of existing orders through caller's calls. *)
LEMMA ClientCallKeepsRuns ==
  ASSUME IInv, ClientCall
  PROVE  /\ RunsOK' /\ RowsExist'
         /\ UNCHANGED <<hung, broker, paperFills>>
<1>1. TablesInv' /\ DOMAIN orders \subseteq DOMAIN orders'
  BY ClientCallKeepsTables
<1>2. UNCHANGED <<hung, broker, paperFills, replies>>
  BY DEF ClientCall, CreateOrder, Submit, Acknowledge, Fill, Cancel, Reject, Expire, MarkError,
         ReconcilePaper, StartReconcileLive
<1>3. CASE UNCHANGED snapshots
  BY <1>1, <1>2, <1>3 DEF IInv, TypeOK, RunsOK, RowsExist
<1>4. ASSUME NEW r \in Runs, StartReconcileLive(r)
      PROVE  RunsOK' /\ RowsExist'
  <2> DEFINE rows == {[order |-> o, status |-> orders[o].status, filled |-> orders[o].filled] :
                        o \in {x \in OpenOrders("live") : orders[x].brokerId = "set"}}
  <2>1. \A row \in rows : row \in Row /\ row.order \in DOMAIN orders
    BY DEF IInv, TypeOK, TablesOK, OpenOrders, Order, Row
  <2>2. snapshots' = [snapshots EXCEPT ![r] = rows]
    BY <1>4 DEF StartReconcileLive
  <2>. HIDE DEF rows
  <2>. QED
    BY <1>1, <1>2, <2>1, <2>2 DEF IInv, TypeOK, RunsOK, RowsExist
<1>5. UNCHANGED snapshots \/ \E r \in Runs : StartReconcileLive(r)
  BY DEF ClientCall, CreateOrder, Submit, Acknowledge, Fill, Cancel, Reject, Expire, MarkError,
         ReconcilePaper
<1>. QED
  BY <1>2, <1>3, <1>4, <1>5

(* A reconciliation's own steps only take rows and replies it may hold. *)
LEMMA RunStepKeepsRuns ==
  ASSUME IInv, NEW r \in Runs, RunStep(r)
  PROVE  /\ RunsOK' /\ RowsExist'
         /\ UNCHANGED <<hung, broker, paperFills>>
<1>1. DOMAIN orders' = DOMAIN orders
  BY RunStepKeepsTables
<1>2. RunsOK /\ RowsExist /\ broker \in [OrderIds -> [status : BrokerStatuses, filled : Nat]]
  BY DEF IInv, TypeOK
<1>3. ASSUME NEW row \in snapshots[r], BrokerReplies(r, row)
      PROVE  RunsOK' /\ RowsExist' /\ UNCHANGED <<hung, broker, paperFills>>
  <2> DEFINE reply == [row |-> row, status |-> broker[row.order].status,
                       filled |-> broker[row.order].filled]
  <2>1. reply \in Reply /\ reply.row.order \in DOMAIN orders
    BY <1>2 DEF RunsOK, RowsExist, Row, Reply
  <2>2. replies' = [replies EXCEPT ![r] = {reply}] /\ UNCHANGED <<snapshots, hung, broker, paperFills>>
    BY <1>3 DEF BrokerReplies
  <2>. HIDE DEF reply
  <2>. QED
    BY <1>1, <1>2, <2>1, <2>2 DEF RunsOK, RowsExist
<1>4. ASSUME NEW row \in snapshots[r], BrokerUnknown(r, row)
      PROVE  RunsOK' /\ RowsExist' /\ UNCHANGED <<hung, broker, paperFills>>
  BY <1>1, <1>2, <1>4 DEF BrokerUnknown, RunsOK, RowsExist
<1>5. CASE ReconcileNext(r)
  <2>1. PICK reply \in replies[r] :
          /\ snapshots' = [snapshots EXCEPT ![r] = @ \ {reply.row}]
          /\ replies' = [replies EXCEPT ![r] = {}]
          /\ UNCHANGED <<hung, broker, paperFills>>
    BY <1>5 DEF ReconcileNext
  <2>. QED
    BY <1>1, <1>2, <2>1 DEF RunsOK, RowsExist
<1>. QED
  BY <1>3, <1>4, <1>5 DEF RunStep

(* The broker, the paper engine and a restart write no table. *)
LEMMA EnvironmentKeeps ==
  ASSUME IInv, Environment
  PROVE  IInv'
<1>. USE QuantityAssumption
<1>1. UNCHANGED <<orders, journal>>
  BY DEF Environment, BrokerAccepts, BrokerFills, BrokerStops, BrokerUpdates, BrokerCuts, PaperTrade,
         PaperReset, Restart
<1>2. TablesInv' /\ DOMAIN orders' = DOMAIN orders
  BY <1>1 DEF IInv, TablesInv, TablesOK, OrderCoherent, JournalAgrees, JournalChained
<1>3. ASSUME NEW o \in OrderIds, NEW s \in BrokerStatuses, NEW n \in Nat, BrokerUpdates(o, s, n)
      PROVE  TypeOK' /\ RowsExist'
  BY <1>2, <1>3 DEF BrokerUpdates, IInv, TypeOK, TablesInv, RunsOK, RowsExist
<1>4. ASSUME NEW o \in OrderIds, BrokerAccepts(o)
      PROVE  TypeOK' /\ RowsExist'
  BY <1>3, <1>4 DEF BrokerAccepts, BrokerStatuses
<1>5. ASSUME NEW o \in OrderIds, NEW n \in Amounts, BrokerFills(o, n)
      PROVE  TypeOK' /\ RowsExist'
  <2>1. broker[o].status \in BrokerStatuses /\ "Filled" \in BrokerStatuses /\ n \in Nat
    BY <1>5, AmountAssumption DEF IInv, TypeOK, BrokerStatuses, BrokerFills
  <2>. QED
    BY <1>3, <1>5, <2>1 DEF BrokerFills
<1>6. ASSUME NEW o \in OrderIds, NEW s \in BrokerStatuses, BrokerStops(o, s)
      PROVE  TypeOK' /\ RowsExist'
  <2>1. broker[o].filled \in Nat
    BY DEF IInv, TypeOK
  <2>. QED
    BY <1>3, <1>6, <2>1 DEF BrokerStops
<1>7. ASSUME \E o \in OrderIds : PaperTrade(o)
      PROVE  TypeOK' /\ RowsExist'
  BY <1>2, <1>7 DEF PaperTrade, IInv, TypeOK, TablesInv, RunsOK, RowsExist
<1>8. ASSUME PaperReset
      PROVE  TypeOK' /\ RowsExist'
  BY <1>2, <1>8 DEF PaperReset, IInv, TypeOK, TablesInv, RunsOK, RowsExist
<1>9. ASSUME Restart
      PROVE  TypeOK' /\ RowsExist'
  BY <1>2, <1>9 DEF Restart, IInv, TypeOK, TablesInv, RunsOK, RowsExist
<1>10. \/ \E o \in OrderIds :
            \/ BrokerAccepts(o)
            \/ \E n \in Amounts : BrokerFills(o, n)
            \/ \E s \in BrokerStatuses : BrokerStops(o, s)
       \/ \E o \in OrderIds : PaperTrade(o)
       \/ \E r \in Runs : BrokerCuts(r)
       \/ PaperReset
       \/ Restart
  BY DEF Environment
<1>12. ASSUME NEW r \in Runs, BrokerCuts(r)
      PROVE  TypeOK' /\ RowsExist'
  BY <1>2, <1>12 DEF BrokerCuts, IInv, TypeOK, TablesInv, RunsOK, RowsExist
<1>11. TypeOK' /\ RowsExist'
  BY <1>12, <1>4, <1>5, <1>6, <1>7, <1>8, <1>9, <1>10
<1>. QED
  BY <1>2, <1>11 DEF IInv

LEMMA InitInv ==
  ASSUME Init
  PROVE  IInv
<1>1. DOMAIN orders = {} /\ \A o \in OrderIds : journal[o] = <<>>
  BY DEF Init
<1>2. TypeOK
  BY DEF Init, TypeOK, TablesOK, RunsOK, BrokerStatuses
<1>3. OrderCoherent /\ JournalAgrees /\ RowsExist
  BY <1>1 DEF Init, OrderCoherent, JournalAgrees, RowsExist
<1>4. JournalChained
  BY <1>1 DEF JournalChained, Chained
<1>. QED
  BY <1>2, <1>3, <1>4 DEF IInv, TypeOK, TablesInv

LEMMA NextInv ==
  ASSUME IInv, [Next]_vars
  PROVE  IInv'
<1>1. CASE ClientCall
  <2>1. TablesInv' /\ RunsOK' /\ RowsExist' /\ UNCHANGED <<hung, broker, paperFills>>
    BY <1>1, ClientCallKeepsTables, ClientCallKeepsRuns
  <2>. QED
    BY <2>1 DEF IInv, TypeOK, TablesInv
<1>2. ASSUME NEW r \in Runs, RunStep(r)
      PROVE  IInv'
  <2>1. TablesInv' /\ RunsOK' /\ RowsExist' /\ UNCHANGED <<hung, broker, paperFills>>
    BY <1>2, RunStepKeepsTables, RunStepKeepsRuns
  <2>. QED
    BY <2>1 DEF IInv, TypeOK, TablesInv
<1>3. CASE Environment
  BY <1>3, EnvironmentKeeps
<1>4. CASE UNCHANGED vars
  BY <1>4 DEF vars, IInv, TypeOK, TablesInv, TablesOK, RunsOK, OrderCoherent, JournalAgrees,
              JournalChained, RowsExist
<1>. QED
  BY <1>1, <1>2, <1>3, <1>4 DEF Next

----------------------------------------------------------------------------
(* The invariants *)

(* Whatever callers, brokers and restarts do, the strengthened invariant   *)
(* holds in every reachable state.                                         *)
THEOREM Inductive == Spec => []IInv
BY InitInv, NextInv, PTL DEF Spec

(* Tables, runs and broker keep their types, for orders and fills of any   *)
(* sign: a correction, too, only writes statuses the system knows.         *)
THEOREM TypeCorrect == Spec => []TypeOK
<1>1. IInv => TypeOK
  BY DEF IInv
<1>. QED
  BY <1>1, Inductive, PTL

(* leavesQuantity and completedAt follow the rest of the row on every path *)
(* that writes it: transitions, cascades, replaced rows, corrections.      *)
THEOREM Coherence == Spec => []OrderCoherent
<1>1. IInv => OrderCoherent
  BY DEF IInv, TablesInv
<1>. QED
  BY <1>1, Inductive, PTL

(* The journal's last event always tells the order's status and fill, also *)
(* when overlapping reconciliations apply answers that have gone stale.    *)
THEOREM JournalTells == Spec => []JournalAgrees
<1>1. IInv => JournalAgrees
  BY DEF IInv, TablesInv
<1>. QED
  BY <1>1, Inductive, PTL

(* Every journal is a chain: the history of an order has no gap.           *)
THEOREM JournalLinks == Spec => []JournalChained
<1>1. IInv => JournalChained
  BY DEF IInv, TablesInv
<1>. QED
  BY <1>1, Inductive, PTL

(* Rows and journals tell one story, for any orders, quantities, modes and *)
(* clients, however many reconciliations overlap.                          *)
THEOREM RowsTellEvents == Spec => []OrdersTold
<1>1. OrderCoherent /\ JournalAgrees /\ JournalChained => OrdersTold
  BY DEF OrdersTold
<1>. QED
  BY <1>1, Coherence, JournalTells, JournalLinks, PTL

----------------------------------------------------------------------------
(* Terminal statuses *)

(* A transition moves no terminal order. *)
LEMMA ApplyTransitionSparesTerminal ==
  ASSUME TablesInv, NEW S, NEW to, NEW q, NEW link, ApplyTransition(S, to, q, link),
         NEW o \in DOMAIN orders, orders[o].status \in Terminal
  PROVE  orders'[o] = orders[o]
<1>1. o \notin S
  BY TransitionFacts DEF ApplyTransition
<1>. QED
  BY <1>1 DEF ApplyTransition

(* Neither does a fill. *)
LEMMA FillSparesTerminal ==
  ASSUME TablesInv, NEW x \in DOMAIN orders, NEW q \in Amounts \cup {NaN}, NEW link \in Column, Fill(x, q, link),
         NEW o \in DOMAIN orders, orders[o].status \in Terminal
  PROVE  orders'[o] = orders[o]
<1>1. CASE x = o
  <2>1. Acked(orders[o], "null") = orders[o]
    BY DEF Acked, Terminal
  <2>2. CanTransition(orders[o].status, FillTarget(orders[o], q))
    BY <1>1, <2>1 DEF Fill, FillAllowed
  <2>. QED
    BY <2>2, TransitionFacts
<1>2. CASE x # o
  BY <1>2 DEF Fill
<1>. QED
  BY <1>1, <1>2

(* A correction that moves a terminal order is the last thing its journal  *)
(* tells, and tells the status it overwrote.                               *)
LEMMA ReconcileOrdersLeavesTerminal ==
  ASSUME TablesInv, NEW S \in SUBSET DOMAIN orders, NEW found \in [S -> BrokerStates],
         ReconcileOrders(found), NEW o \in DOMAIN orders, orders'[o] # orders[o]
  PROVE  LeavesTerminal(o)
<1> DEFINE e == [type |-> "reconciled", from |-> orders[o].status, to |-> found[o].status,
                 qty |-> 0, cum |-> found[o].filled, client |-> orders[o].client]
<1>1. o \in S
  BY DEF ReconcileOrders
<1>2. orders[o] \in Order /\ journal[o] \in Seq(Event) /\ found[o] \in BrokerStates /\ o \in OrderIds
  BY <1>1 DEF TablesInv, TablesOK
<1>3. e \in Event
  BY <1>2 DEF Event, Order, BrokerStates
<1>4. journal'[o] = Append(journal[o], e)
  BY <1>1, <1>2 DEF ReconcileOrders
<1>5. journal'[o][Len(journal'[o])] = e
  <2>. HIDE DEF e
  <2>. QED
    BY <1>2, <1>3, <1>4, AppendProperties
<1>. QED
  BY <1>5 DEF LeavesTerminal

LEMMA TerminalStep ==
  ASSUME IInv, Next, NEW o \in DOMAIN orders, orders[o].status \in Terminal,
         orders'[o].status # orders[o].status
  PROVE  LeavesTerminal(o)
<1>. USE QuantityAssumption
<1>0. TablesInv /\ o \in OrderIds /\ orders[o] \in Order /\ journal[o] \in Seq(Event)
  BY DEF IInv, TablesInv, TablesOK
<1>1. ASSUME NEW x \in OrderIds, NEW c \in ClientIds, NEW m \in Modes, NEW q \in Quantities,
             NEW link \in Column, NEW p \in Parents(x), CreateOrder(x, c, p, m, q, link)
      PROVE  LeavesTerminal(o)
  <2> DEFINE e == [type |-> "order_created", from |-> "none", to |-> "pending",
                   qty |-> 0, cum |-> 0, client |-> c]
  <2>1. x = o
    BY <1>1 DEF CreateOrder
  <2>2. journal'[o] = Append(journal[o], e) /\ e \in Event
    BY <1>0, <1>1, <2>1 DEF CreateOrder, IInv, TypeOK, TablesOK, Event, Statuses, Open
  <2>3. journal'[o][Len(journal'[o])] = e
    <3>. HIDE DEF e
    <3>. QED
      BY <1>0, <2>2, AppendProperties
  <2>. QED
    BY <2>3 DEF LeavesTerminal
<1>2. ASSUME NEW x \in DOMAIN orders, NEW link \in Column, Submit(x, link) \/ Acknowledge(x, link)
      PROVE  FALSE
  BY <1>0, <1>2, ApplyTransitionSparesTerminal DEF Submit, Acknowledge
<1>3. ASSUME NEW x \in DOMAIN orders, NEW q \in Amounts \cup {NaN}, NEW link \in Column, Fill(x, q, link)
      PROVE  FALSE
  BY <1>0, <1>3, FillSparesTerminal
<1>4. ASSUME NEW x \in DOMAIN orders, NEW link \in Column,
             Cancel(x) \/ Reject(x, link) \/ Expire(x) \/ MarkError(x)
      PROVE  FALSE
  BY <1>0, <1>4, ApplyTransitionSparesTerminal DEF Cancel, Reject, Expire, MarkError
<1>5. ASSUME ReconcilePaper
      PROVE  FALSE
  <2>1. o \notin OpenOrders("paper")
    BY DEF OpenOrders, Open, Terminal
  <2>. QED
    BY <1>5, <2>1 DEF ReconcilePaper, ReconcileOrders
<1>6. ASSUME NEW r \in Runs, StartReconcileLive(r)
      PROVE  FALSE
  BY <1>6 DEF StartReconcileLive
<1>7. ASSUME NEW r \in Runs, RunStep(r)
      PROVE  LeavesTerminal(o)
  <2>1. PICK reply \in replies[r] :
          ReconcileOrders([x \in {reply.row.order} |-> BrokerState(reply)])
    BY <1>7 DEF RunStep, BrokerReplies, BrokerUnknown, ReconcileNext
  <2>2. reply \in Reply /\ reply.row.order \in DOMAIN orders
    BY DEF IInv, TypeOK, RunsOK, RowsExist
  <2>3. BrokerState(reply) \in BrokerStates
    BY <2>2, BrokerStateFacts
  <2>4. /\ [x \in {reply.row.order} |-> BrokerState(reply)] \in [{reply.row.order} -> BrokerStates]
        /\ {reply.row.order} \in SUBSET DOMAIN orders
    BY <2>2, <2>3
  <2>. QED
    BY <1>0, <2>1, <2>4, ReconcileOrdersLeavesTerminal
<1>8. ASSUME Environment
      PROVE  FALSE
  BY <1>8 DEF Environment, BrokerAccepts, BrokerFills, BrokerStops, BrokerUpdates, BrokerCuts, PaperTrade,
              PaperReset, Restart
<1>. QED
  BY <1>1, <1>2, <1>3, <1>4, <1>5, <1>6, <1>7, <1>8 DEF Next, ClientCall, Column

(* No handler takes an order out of a terminal status: only a correction   *)
(* does, or a caller that reuses the orderId, and the journal says so.     *)
THEOREM TerminalLeft == Spec => TerminalLeftOnlyByReconcile
<1>1. IInv /\ [Next]_vars =>
        [\A o \in DOMAIN orders :
           orders[o].status \in Terminal /\ orders'[o].status # orders[o].status
             => LeavesTerminal(o)]_vars
  BY TerminalStep
<1>. QED
  BY <1>1, Inductive, PTL DEF Spec, TerminalLeftOnlyByReconcile

----------------------------------------------------------------------------
(* The lifecycle without live orders *)

(* Without live orders a reconciliation has nothing to ask a broker about. *)
NoLiveRows == \A r \in Runs : snapshots[r] = {} /\ replies[r] = {}

LEMMA NoLiveRowsStep ==
  ASSUME "live" \notin Modes, IInv, NoLiveRows, [Next]_vars
  PROVE  NoLiveRows'
<1>1. CASE UNCHANGED <<snapshots, replies>>
  BY <1>1 DEF NoLiveRows
<1>2. ASSUME NEW r \in Runs, StartReconcileLive(r)
      PROVE  NoLiveRows'
  <2>1. OpenOrders("live") = {}
    BY DEF OpenOrders, IInv, TypeOK, TablesOK, Order
  <2>. QED
    BY <1>2, <2>1 DEF StartReconcileLive, NoLiveRows, IInv, TypeOK, RunsOK
<1>3. CASE Restart
  BY <1>3 DEF Restart, NoLiveRows
<1>4. ASSUME NEW r \in Runs, RunStep(r)
      PROVE  FALSE
  BY <1>4 DEF RunStep, ReconcileNext, NoLiveRows
<1>5. \/ UNCHANGED <<snapshots, replies>>
      \/ \E r \in Runs : StartReconcileLive(r) \/ RunStep(r)
      \/ Restart
  <2>1. ClientCall => UNCHANGED <<snapshots, replies>> \/ \E r \in Runs : StartReconcileLive(r)
    BY DEF ClientCall, CreateOrder, Submit, Acknowledge, Fill, Cancel, Reject, Expire, MarkError, ReconcilePaper
  <2>2. Environment => UNCHANGED <<snapshots, replies>> \/ Restart
    BY DEF Environment, BrokerAccepts, BrokerFills, BrokerStops, BrokerUpdates, BrokerCuts, PaperTrade, PaperReset
  <2>. QED
    BY <2>1, <2>2 DEF Next, vars
<1>. QED
  BY <1>1, <1>2, <1>3, <1>4, <1>5

(* What one step of the lifecycle allows, said of the orders. *)
Moves ==
  /\ DOMAIN orders \subseteq DOMAIN orders'
  /\ \A o \in DOMAIN orders : Lifecycle!Allowed(orders[o].status, orders'[o].status)
  /\ \A o \in DOMAIN orders' \ DOMAIN orders : o \in OrderIds /\ orders'[o].status = "pending"

LEMMA MovesStep ==
  ASSUME Moves
  PROVE  Lifecycle!Step
BY DEF Moves, Lifecycle!Step

LEMMA ApplyTransitionMoves ==
  ASSUME TablesInv, NEW S \in SUBSET DOMAIN orders, NEW to, NEW q \in Int, NEW link \in Column,
         ApplyTransition(S, to, q, link)
  PROVE  Moves
<1>1. DOMAIN orders' = DOMAIN orders
  BY DEF ApplyTransition
<1>2. ASSUME NEW o \in DOMAIN orders
      PROVE  Lifecycle!Allowed(orders[o].status, orders'[o].status)
  <2>1. CASE o \in S
    <3>1. CanTransition(orders[o].status, to) /\ orders[o] \in Order
      BY <2>1 DEF ApplyTransition, TablesInv, TablesOK
    <3>2. orders'[o].status = to
      BY <2>1, <3>1, WritesKeepParents DEF ApplyTransition
    <3>. QED
      BY <3>1, <3>2 DEF Lifecycle!Allowed, Lifecycle!CanTransition, CanTransition,
                        Lifecycle!Terminal, Terminal, Lifecycle!Transitions, Transitions
  <2>2. CASE o \notin S
    BY <2>2 DEF ApplyTransition, Lifecycle!Allowed
  <2>. QED
    BY <2>1, <2>2
<1>. QED
  BY <1>1, <1>2 DEF Moves

(* A fill that acknowledges on the way makes the one move from submitted.  *)
LEMMA FillMoves ==
  ASSUME TablesInv, NEW x \in DOMAIN orders, NEW q \in Amounts \cup {NaN}, NEW link \in Column, Fill(x, q, link)
  PROVE  Moves
<1> DEFINE ord == orders[x]
           to == FillTarget(ord, q)
<1>1. ord \in Order /\ DOMAIN orders' = DOMAIN orders
  BY DEF Fill, TablesInv, TablesOK
<1>2. to \in {"filled", "partially_filled"}
  BY DEF FillTarget
<1>3. CanTransition(ord.status, to)
  <2>1. CASE ord.status = "submitted"
    BY <1>2, <2>1 DEF CanTransition, Transitions, Terminal
  <2>2. CASE ord.status # "submitted"
    BY <2>2 DEF Fill, FillAllowed, Acked
  <2>. QED
    BY <2>1, <2>2
<1>4. orders'[x].status = to
  <2>1. orders'[x] = Patched(Acked(ord, link), to, Counted(q), link)
    BY DEF Fill
  <2>. QED
    BY <1>1, <2>1 DEF Patched, Acked, Order
<1>5. Lifecycle!Allowed(ord.status, orders'[x].status)
  BY <1>3, <1>4 DEF Lifecycle!Allowed, Lifecycle!CanTransition, CanTransition,
                    Lifecycle!Terminal, Terminal, Lifecycle!Transitions, Transitions
<1>6. \A o \in DOMAIN orders \ {x} : orders'[o] = orders[o]
  BY DEF Fill
<1>. QED
  BY <1>1, <1>5, <1>6 DEF Moves, Lifecycle!Allowed

(* A paper poll closes open orders as filled, or marks a lost one in error. *)
LEMMA ReconcilePaperMoves ==
  ASSUME TablesInv, ReconcilePaper
  PROVE  Moves
<1> DEFINE S == {o \in OpenOrders("paper") :
                   \/ PaperState(orders[o], o).status # orders[o].status
                   \/ PaperState(orders[o], o).filled # orders[o].filled}
<1>1. DOMAIN orders' = DOMAIN orders
  BY DEF ReconcilePaper, ReconcileOrders
<1>2. ASSUME NEW o \in DOMAIN orders
      PROVE  Lifecycle!Allowed(orders[o].status, orders'[o].status)
  <2>1. CASE o \in S
    <3>1. orders[o] \in Order /\ orders[o].status \in Open
      BY <2>1 DEF OpenOrders, TablesInv, TablesOK
    <3>2. orders'[o].status = PaperState(orders[o], o).status
      BY <2>1, <3>1, WritesKeepParents DEF ReconcilePaper, ReconcileOrders
    <3>3. \/ PaperState(orders[o], o).status = "filled"
          \/ PaperState(orders[o], o).status = orders[o].status
          \/ /\ PaperState(orders[o], o).status = "error"
             /\ orders[o].status \in {"submitted", "acknowledged"}
      BY DEF PaperState
    <3>. QED
      BY <3>1, <3>2, <3>3 DEF Lifecycle!Allowed, Lifecycle!CanTransition, Lifecycle!Terminal,
                              Lifecycle!Transitions, Lifecycle!Open, Open
  <2>2. CASE o \notin S
    BY <2>2 DEF ReconcilePaper, ReconcileOrders, Lifecycle!Allowed
  <2>. QED
    BY <2>1, <2>2
<1>. QED
  BY <1>1, <1>2 DEF Moves

LEMMA StepMoves ==
  ASSUME ~ReuseOrderIds, IInv, NoLiveRows, Next
  PROVE  Moves \/ UNCHANGED orders
<1>0. TablesInv /\ DOMAIN orders \subseteq OrderIds /\ "null" \in Column /\ 0 \in Int
  BY DEF IInv, TablesInv, TablesOK, Column
<1>1. ASSUME NEW x \in OrderIds, NEW c \in ClientIds, NEW m \in Modes, NEW q \in Quantities,
             NEW link \in Column, NEW p \in Parents(x), CreateOrder(x, c, p, m, q, link)
      PROVE  Moves
  BY <1>1 DEF CreateOrder, Moves, Lifecycle!Allowed
<1>2. ASSUME NEW S \in SUBSET DOMAIN orders, NEW to, NEW link \in Column,
             ApplyTransition(S, to, 0, link)
      PROVE  Moves
  BY <1>0, <1>2, ApplyTransitionMoves
<1>3. ASSUME NEW x \in DOMAIN orders, NEW link \in Column, Submit(x, link) \/ Acknowledge(x, link)
      PROVE  Moves
  BY <1>2, <1>3 DEF Submit, Acknowledge
<1>4. ASSUME NEW x \in DOMAIN orders, NEW q \in Amounts \cup {NaN}, NEW link \in Column, Fill(x, q, link)
      PROVE  Moves
  BY <1>0, <1>4, FillMoves
<1>5. ASSUME NEW x \in DOMAIN orders, NEW link \in Column,
             Cancel(x) \/ Reject(x, link) \/ Expire(x) \/ MarkError(x)
      PROVE  Moves
  <2>1. {x} \cup OpenChildren(x) \in SUBSET DOMAIN orders
    BY DEF OpenChildren
  <2>. QED
    BY <1>0, <1>2, <1>5, <2>1 DEF Cancel, Reject, Expire, MarkError
<1>6. ASSUME ReconcilePaper
      PROVE  Moves
  BY <1>0, <1>6, ReconcilePaperMoves
<1>7. ASSUME NEW r \in Runs, StartReconcileLive(r)
      PROVE  UNCHANGED orders
  BY <1>7 DEF StartReconcileLive
<1>8. ASSUME NEW r \in Runs, RunStep(r)
      PROVE  FALSE
  BY <1>8 DEF RunStep, ReconcileNext, NoLiveRows
<1>9. ASSUME Environment
      PROVE  UNCHANGED orders
  BY <1>9 DEF Environment, BrokerAccepts, BrokerFills, BrokerStops, BrokerUpdates, BrokerCuts, PaperTrade,
              PaperReset, Restart
<1>. QED
  BY <1>1, <1>3, <1>4, <1>5, <1>6, <1>7, <1>8, <1>9 DEF Next, ClientCall, Column

(* Without live orders and reused orderIds the system implements the       *)
(* lifecycle it promises: every order is created pending, follows the      *)
(* table, and stays in the terminal status it reaches.                     *)
THEOREM ImplementsLifecycle ==
  ASSUME "live" \notin Modes, ~ReuseOrderIds
  PROVE  Spec => KeepsLifecycle
<1>1. Init => Lifecycle!Init /\ NoLiveRows
  BY DEF Init, Lifecycle!Init, NoLiveRows
<1>2. IInv /\ NoLiveRows /\ [Next]_vars => NoLiveRows'
  BY NoLiveRowsStep
<1>3. IInv /\ NoLiveRows /\ [Next]_vars
        => [Lifecycle!Step]_[o \in DOMAIN orders |-> orders[o].status]
  BY StepMoves, MovesStep DEF vars
<1>. QED
  BY <1>1, <1>2, <1>3, Inductive, PTL DEF Spec, KeepsLifecycle, Lifecycle!Spec

----------------------------------------------------------------------------
(* What clients asked for *)

(* An order has one journal and one client, who asked for no other order;  *)
(* its journal begins with the only creation it has.                       *)
AskedOnce ==
  /\ \A o \in OrderIds \ DOMAIN orders : journal[o] = <<>>
  /\ \A o \in DOMAIN orders : \A i \in DOMAIN journal[o] :
       journal[o][i].client = orders[o].client /\ (journal[o][i].type = "order_created" => i = 1)
  /\ \A o, x \in DOMAIN orders : orders[o].client = orders[x].client => o = x

(* What the broker calls filled, or has called filled in a reply under     *)
(* way, is filled to the quantity of the order.                            *)
BrokerFillsWhole ==
  /\ \A o \in DOMAIN orders : orders[o].quantity # 0
  /\ \A o \in OrderIds : broker[o].status = "Filled" =>
       o \in DOMAIN orders /\ broker[o].filled = orders[o].quantity
  /\ \A r \in Runs : \A reply \in replies[r] : reply.status = "Filled" =>
       reply.filled = orders[reply.row.order].quantity

ServedInv == AskedOnce /\ BrokerFillsWhole /\ FilledIsComplete

(* A write to an order that exists: it stays what its client asked for,    *)
(* the journal grows in the client's name and by no creation, and an order *)
(* that becomes filled is filled whole.                                    *)
Served(ord, new) ==
  /\ new.client = ord.client /\ new.quantity = ord.quantity
  /\ new.status = "filled" => new = ord \/ new.filled >= new.quantity

Grown(client, before, after) ==
  \A i \in DOMAIN after :
    \/ i \in DOMAIN before /\ after[i] = before[i]
    \/ after[i].client = client /\ after[i].type # "order_created"

Serves ==
  /\ DOMAIN orders' = DOMAIN orders
  /\ \A o \in DOMAIN orders : Served(orders[o], orders'[o]) /\ Grown(orders[o].client, journal[o], journal'[o])
  /\ \A o \in OrderIds \ DOMAIN orders : journal'[o] = journal[o]

LEMMA AppendGrows ==
  ASSUME NEW s \in Seq(Event), NEW e \in Event, e.type # "order_created"
  PROVE  Append(s, e) \in Seq(Event) /\ Grown(e.client, s, Append(s, e))
<1>1. /\ Append(s, e) \in Seq(Event) /\ Len(Append(s, e)) = Len(s) + 1 /\ Append(s, e)[Len(s) + 1] = e
      /\ \A i \in 1 .. Len(s) : Append(s, e)[i] = s[i]
  BY AppendProperties
<1>2. Len(s) \in Nat /\ DOMAIN s = 1 .. Len(s) /\ DOMAIN Append(s, e) = 1 .. Len(s) + 1
  BY <1>1
<1>. QED
  BY <1>1, <1>2 DEF Grown

LEMMA GrownIsTransitive ==
  ASSUME NEW client, NEW s, NEW t, NEW u, Grown(client, s, t), Grown(client, t, u)
  PROVE  Grown(client, s, u)
BY DEF Grown

(* A step that writes nothing serves. *)
LEMMA IdleServes ==
  ASSUME UNCHANGED <<orders, journal>>
  PROVE  Serves
BY DEF Serves, Served, Grown

LEMMA ApplyTransitionServes ==
  ASSUME TablesInv, NEW S \in SUBSET DOMAIN orders, NEW to, to # "filled", NEW link \in Column,
         ApplyTransition(S, to, 0, link)
  PROVE  Serves
<1>1. DOMAIN orders' = DOMAIN orders /\ DOMAIN orders \subseteq OrderIds
  BY DEF ApplyTransition, TablesInv, TablesOK
<1>2. ASSUME NEW o \in S
      PROVE  Served(orders[o], orders'[o]) /\ Grown(orders[o].client, journal[o], journal'[o])
  <2>1. /\ orders[o] \in Order /\ journal[o] \in Seq(Event) /\ o \in OrderIds
        /\ CanTransition(orders[o].status, to)
    BY <1>1, <1>2 DEF ApplyTransition, TablesInv, TablesOK
  <2>2. orders'[o] = Patched(orders[o], to, 0, link) /\ journal'[o] = Append(journal[o], Recorded(orders[o], to, to, 0))
    BY <2>1, <1>2 DEF ApplyTransition
  <2>3. Served(orders[o], orders'[o])
    BY <2>1, <2>2 DEF Served, Patched, Order
  <2>4. /\ Recorded(orders[o], to, to, 0) \in Event /\ Recorded(orders[o], to, to, 0).client = orders[o].client
        /\ Recorded(orders[o], to, to, 0).type # "order_created"
    BY <2>1, TransitionFacts DEF Recorded, Event, Order, Statuses, Open, Terminal
  <2>. QED
    BY <2>1, <2>2, <2>3, <2>4, AppendGrows
<1>3. ASSUME NEW o \in DOMAIN orders, o \notin S
      PROVE  Served(orders[o], orders'[o]) /\ Grown(orders[o].client, journal[o], journal'[o])
  BY <1>1, <1>3 DEF ApplyTransition, Served, Grown
<1>4. \A o \in OrderIds \ DOMAIN orders : journal'[o] = journal[o]
  BY DEF ApplyTransition
<1>. QED
  BY <1>1, <1>2, <1>3, <1>4 DEF Serves

(* A fill calls an order filled when its quantity is reached.              *)
LEMMA FillServes ==
  ASSUME TablesInv, NEW x \in DOMAIN orders, NEW q \in Amounts \cup {NaN}, NEW link \in Column, Fill(x, q, link)
  PROVE  Serves
<1>. DEFINE ord == orders[x]
            to  == FillTarget(ord, q)
            n == Counted(q)
            type == FillType(ord, q)
            ackd == Acked(ord, link)
            ack == IF ord.status = "submitted"
                   THEN Append(journal[x], Recorded(ord, "acknowledged", "acknowledged", 0)) ELSE journal[x]
<1>1. /\ ord \in Order /\ journal[x] \in Seq(Event) /\ x \in OrderIds /\ n \in Int
      /\ DOMAIN orders \subseteq OrderIds /\ journal \in [OrderIds -> Seq(Event)]
  BY FillFacts DEF TablesInv, TablesOK
<1>2. /\ orders' = [orders EXCEPT ![x] = Patched(ackd, to, n, link)]
      /\ journal' = [journal EXCEPT ![x] = Append(ack, Recorded(ackd, type, to, n))]
  BY DEF Fill
<1>3. /\ ackd.client = ord.client /\ ackd.quantity = ord.quantity /\ ackd.filled = ord.filled
      /\ ackd.status \in Statuses /\ DOMAIN ackd = DOMAIN ord
  BY <1>1 DEF Acked, Patched, Order, Statuses, Open
<1>4. /\ to \in {"filled", "partially_filled"} /\ type \in {"filled", "partially_filled"}
      /\ to = "filled" => ord.filled + n >= ord.quantity
  BY FillFacts
<1>5. Served(ord, orders'[x])
  <2>1. orders'[x] = Patched(ackd, to, n, link)
    BY <1>2
  <2>2. orders'[x].client = ord.client /\ orders'[x].quantity = ord.quantity /\ orders'[x].filled = ord.filled + n /\ orders'[x].status = to
    BY <1>1, <1>3, <2>1 DEF Patched, Order
  <2>. QED
    BY <1>4, <2>2 DEF Served
<1>6. ack \in Seq(Event) /\ Grown(ord.client, journal[x], ack)
  <2>1. CASE ord.status = "submitted"
    <3>1. /\ Recorded(ord, "acknowledged", "acknowledged", 0) \in Event /\ Recorded(ord, "acknowledged", "acknowledged", 0).client = ord.client
          /\ Recorded(ord, "acknowledged", "acknowledged", 0).type # "order_created"
      BY <1>1 DEF Recorded, Event, Order, Statuses, Open
    <3>. QED
      BY <1>1, <2>1, <3>1, AppendGrows
  <2>2. CASE ord.status # "submitted"
    BY <1>1, <2>2 DEF Grown
  <2>. QED
    BY <2>1, <2>2
<1>7. /\ Recorded(ackd, type, to, n) \in Event /\ Recorded(ackd, type, to, n).client = ord.client
      /\ Recorded(ackd, type, to, n).type # "order_created"
  <2>1. ackd.filled + n \in Int
    BY <1>1, <1>3 DEF Order
  <2>. QED
    BY <1>1, <1>3, <1>4, <2>1 DEF Recorded, Event, Order, Statuses, Open, Terminal
<1>8. Grown(ord.client, journal[x], journal'[x])
  <2>1. Grown(ord.client, ack, Append(ack, Recorded(ackd, type, to, n)))
    BY <1>6, <1>7, AppendGrows
  <2>2. journal'[x] = Append(ack, Recorded(ackd, type, to, n))
    BY <1>1, <1>2
  <2>. HIDE DEF ack, ackd, to, ord, n, type
  <2>. QED
    BY <1>6, <2>1, <2>2, GrownIsTransitive
<1>9. \A o \in DOMAIN orders : o # x => Served(orders[o], orders'[o]) /\ Grown(orders[o].client, journal[o], journal'[o])
  BY <1>1, <1>2 DEF Served, Grown
<1>10. DOMAIN orders' = DOMAIN orders /\ \A o \in OrderIds \ DOMAIN orders : journal'[o] = journal[o]
  BY <1>1, <1>2
<1>. QED
  BY <1>5, <1>8, <1>9, <1>10 DEF Serves

(* A correction serves if what it calls filled is filled.                  *)
LEMMA ReconcileOrdersServes ==
  ASSUME TablesInv, NEW S \in SUBSET DOMAIN orders, NEW found \in [S -> BrokerStates],
         \A o \in S : found[o].status = "filled" => found[o].filled >= orders[o].quantity,
         ReconcileOrders(found)
  PROVE  Serves
<1>1. DOMAIN orders' = DOMAIN orders /\ DOMAIN orders \subseteq OrderIds
  BY DEF ReconcileOrders, TablesInv, TablesOK
<1>2. ASSUME NEW o \in S
      PROVE  Served(orders[o], orders'[o]) /\ Grown(orders[o].client, journal[o], journal'[o])
  <2>. DEFINE e == [type |-> "reconciled", from |-> orders[o].status, to |-> found[o].status, qty |-> 0,
                    cum |-> found[o].filled, client |-> orders[o].client]
  <2>1. orders[o] \in Order /\ journal[o] \in Seq(Event) /\ o \in OrderIds /\ found[o] \in BrokerStates
    BY <1>1, <1>2 DEF TablesInv, TablesOK
  <2>2. orders'[o] = Reconciled(orders[o], found[o]) /\ journal'[o] = Append(journal[o], e)
    BY <1>1, <1>2 DEF ReconcileOrders
  <2>3. Served(orders[o], orders'[o])
    BY <1>2, <2>1, <2>2 DEF Served, Reconciled, Order
  <2>4. e \in Event /\ e.client = orders[o].client /\ e.type # "order_created"
    BY <2>1 DEF Event, Order, BrokerStates
  <2>. HIDE DEF e
  <2>. QED
    BY <2>1, <2>2, <2>3, <2>4, AppendGrows
<1>3. ASSUME NEW o \in DOMAIN orders, o \notin S
      PROVE  Served(orders[o], orders'[o]) /\ Grown(orders[o].client, journal[o], journal'[o])
  BY <1>1, <1>3 DEF ReconcileOrders, Served, Grown
<1>4. \A o \in OrderIds \ DOMAIN orders : journal'[o] = journal[o]
  BY DEF ReconcileOrders
<1>. QED
  BY <1>1, <1>2, <1>3, <1>4 DEF Serves

(* Every call but a creation, every step of a reconciliation and whatever  *)
(* the world does serves.                                                  *)
LEMMA CallServes ==
  ASSUME IInv, ClientCall,
         \A o \in OrderIds, c \in ClientIds, m \in Modes, q \in Quantities, link \in Column : \A p \in Parents(o) :
           ~CreateOrder(o, c, p, m, q, link)
  PROVE  Serves
<1>0. TablesInv /\ DOMAIN orders \subseteq OrderIds /\ "null" \in Column
  BY DEF IInv, TablesInv, TablesOK, Column
<1>1. ASSUME NEW x \in DOMAIN orders, NEW link \in Column,
             Submit(x, link) \/ Acknowledge(x, link) \/ Reject(x, link) \/ Expire(x) \/ MarkError(x)
      PROVE  Serves
  <2>1. {x} \in SUBSET DOMAIN orders
    OBVIOUS
  <2>. QED
    BY <1>0, <1>1, <2>1, ApplyTransitionServes DEF Submit, Acknowledge, Reject, Expire, MarkError
<1>2. ASSUME NEW x \in DOMAIN orders, Cancel(x)
      PROVE  Serves
  <2>1. {x} \cup OpenChildren(x) \in SUBSET DOMAIN orders
    BY DEF OpenChildren
  <2>. QED
    BY <1>0, <1>2, <2>1, ApplyTransitionServes DEF Cancel
<1>3. ASSUME NEW x \in DOMAIN orders, NEW q \in Amounts \cup {NaN}, NEW link \in Column, Fill(x, q, link)
      PROVE  Serves
  BY <1>0, <1>3, FillServes
<1>4. ASSUME ReconcilePaper
      PROVE  Serves
  <2>. DEFINE S == {o \in OpenOrders("paper") :
                      \/ PaperState(orders[o], o).status # orders[o].status
                      \/ PaperState(orders[o], o).filled # orders[o].filled}
              found == [o \in S |-> PaperState(orders[o], o)]
  <2>1. S \in SUBSET DOMAIN orders
    BY DEF OpenOrders
  <2>2. ASSUME NEW o \in S
        PROVE  PaperState(orders[o], o) \in BrokerStates /\ (PaperState(orders[o], o).status = "filled"
                 => PaperState(orders[o], o).filled >= orders[o].quantity)
    <3>1. orders[o] \in Order /\ orders[o].status \in Open
      BY <2>2, <1>0 DEF OpenOrders, TablesInv, TablesOK
    <3>. QED
      BY <3>1, PaperStateFacts DEF PaperState, Open, Order
  <2>3. found \in [S -> BrokerStates] /\ \A o \in S : found[o].status = "filled" => found[o].filled >= orders[o].quantity
    BY <2>2
  <2>4. ReconcileOrders(found)
    BY <1>4 DEF ReconcilePaper
  <2>. HIDE DEF S, found
  <2>. QED
    BY <1>0, <2>1, <2>3, <2>4, ReconcileOrdersServes
<1>5. ASSUME NEW r \in Runs, StartReconcileLive(r)
      PROVE  Serves
  BY <1>5, IdleServes DEF StartReconcileLive
<1>. QED
  BY <1>0, <1>1, <1>2, <1>3, <1>4, <1>5 DEF ClientCall

LEMMA RunServes ==
  ASSUME IInv, BrokerFillsWhole, NEW r \in Runs, RunStep(r)
  PROVE  Serves
<1>1. CASE UNCHANGED <<orders, journal>>
  BY <1>1, IdleServes
<1>2. CASE ~UNCHANGED <<orders, journal>>
  <2>1. PICK reply \in replies[r] :
          ReconcileOrders([x \in {reply.row.order} |-> BrokerState(reply)])
    BY <1>2 DEF RunStep, BrokerReplies, BrokerUnknown, ReconcileNext
  <2>2. /\ reply \in Reply /\ reply.row.order \in DOMAIN orders /\ TablesInv
        /\ orders[reply.row.order] \in Order /\ orders[reply.row.order].quantity # 0
        /\ reply.status = "Filled" => reply.filled = orders[reply.row.order].quantity
    BY DEF IInv, TypeOK, RunsOK, RowsExist, BrokerFillsWhole, TablesInv, TablesOK
  <2>3. BrokerState(reply) \in BrokerStates
    BY <2>2, BrokerStateFacts
  <2>4. BrokerState(reply).status = "filled" => reply.status = "Filled"
    BY <2>2 DEF BrokerState, StatusOf, StatusMap, Reply, Row, Open
  <2>5. BrokerState(reply).status = "filled" => BrokerState(reply).filled >= orders[reply.row.order].quantity
    BY <2>2, <2>4 DEF BrokerState, Order
  <2>. DEFINE S == {reply.row.order}
              found == [x \in S |-> BrokerState(reply)]
  <2>6. /\ found \in [S -> BrokerStates] /\ S \in SUBSET DOMAIN orders
        /\ \A o \in S : found[o].status = "filled" => found[o].filled >= orders[o].quantity
    BY <2>2, <2>3, <2>5
  <2>7. ReconcileOrders(found)
    BY <2>1
  <2>. HIDE DEF S, found
  <2>. QED
    BY <2>2, <2>6, <2>7, ReconcileOrdersServes
<1>. QED
  BY <1>1, <1>2

(* What serves keeps journals and quantities what they were asked for.     *)
LEMMA ServesKeeps ==
  ASSUME TypeOK, AskedOnce, FilledIsComplete, Serves
  PROVE  AskedOnce' /\ FilledIsComplete' /\ \A o \in DOMAIN orders : orders'[o].quantity = orders[o].quantity
<1>1. ASSUME NEW o \in DOMAIN orders', NEW i \in DOMAIN journal'[o]
      PROVE  journal'[o][i].client = orders'[o].client /\ (journal'[o][i].type = "order_created" => i = 1)
  BY <1>1 DEF AskedOnce, Serves, Served, Grown
<1>2. \A o \in OrderIds \ DOMAIN orders' : journal'[o] = <<>>
  BY DEF AskedOnce, Serves
<1>3. \A o, x \in DOMAIN orders' : orders'[o].client = orders'[x].client => o = x
  BY DEF AskedOnce, Serves, Served
<1>4. AskedOnce'
  BY <1>1, <1>2, <1>3 DEF AskedOnce
<1>5. FilledIsComplete' /\ \A o \in DOMAIN orders : orders'[o].quantity = orders[o].quantity
  BY DEF FilledIsComplete, Serves, Served
<1>. QED
  BY <1>4, <1>5

LEMMA CreateKeepsServed ==
  ASSUME ~ReuseOrderIds, IInv, ServedInv, NEW x \in OrderIds, NEW c \in ClientIds, NEW m \in Modes,
         NEW q \in Quantities, NEW link \in Column, NEW p \in Parents(x), CreateOrder(x, c, p, m, q, link)
  PROVE  ServedInv'
<1>. DEFINE e == [type |-> "order_created", from |-> "none", to |-> "pending", qty |-> 0, cum |-> 0, client |-> c]
<1>1. /\ x \notin DOMAIN orders /\ DOMAIN orders' = DOMAIN orders \cup {x}
      /\ orders'[x].client = c /\ orders'[x].quantity = q /\ orders'[x].status = "pending"
      /\ \A o \in DOMAIN orders : orders'[o] = orders[o]
      /\ UNCHANGED <<snapshots, replies, broker>>
      /\ q # 0 /\ \A o \in DOMAIN orders : orders[o].client # c
  BY QuantityAssumption DEF CreateOrder, Used
<1>2. /\ journal[x] = <<>> /\ journal'[x] = Append(<<>>, e)
      /\ \A o \in OrderIds : o # x => journal'[o] = journal[o]
      /\ DOMAIN orders \subseteq OrderIds
  BY <1>1 DEF CreateOrder, ServedInv, AskedOnce, IInv, TypeOK, TablesOK
<1>3. DOMAIN journal'[x] = 1 .. 1 /\ journal'[x][1] = e
  BY <1>2
<1>4. AskedOnce'
  <2>1. \A i \in DOMAIN journal'[x] : journal'[x][i].client = orders'[x].client /\ i = 1
    BY <1>1, <1>3
  <2>2. ASSUME NEW o \in DOMAIN orders
        PROVE  \A i \in DOMAIN journal'[o] :
                 journal'[o][i].client = orders'[o].client /\ (journal'[o][i].type = "order_created" => i = 1)
    BY <1>1, <1>2, <2>2 DEF ServedInv, AskedOnce
  <2>3. \A o, y \in DOMAIN orders' : orders'[o].client = orders'[y].client => o = y
    BY <1>1 DEF ServedInv, AskedOnce
  <2>4. \A o \in OrderIds \ DOMAIN orders' : journal'[o] = <<>>
    BY <1>1, <1>2 DEF ServedInv, AskedOnce
  <2>. QED
    BY <1>1, <2>1, <2>2, <2>3, <2>4 DEF AskedOnce
<1>5. BrokerFillsWhole'
  <2>1. \A o \in DOMAIN orders' : orders'[o].quantity # 0
    BY <1>1 DEF ServedInv, BrokerFillsWhole
  <2>2. \A o \in OrderIds : broker'[o].status = "Filled" => o \in DOMAIN orders' /\ broker'[o].filled = orders'[o].quantity
    BY <1>1 DEF ServedInv, BrokerFillsWhole
  <2>3. \A r \in Runs : \A reply \in replies'[r] : reply.status = "Filled" => reply.filled = orders'[reply.row.order].quantity
    BY <1>1 DEF ServedInv, BrokerFillsWhole, IInv, RowsExist
  <2>. QED
    BY <2>1, <2>2, <2>3 DEF BrokerFillsWhole
<1>6. FilledIsComplete'
  BY <1>1 DEF ServedInv, FilledIsComplete
<1>. QED
  BY <1>4, <1>5, <1>6 DEF ServedInv

(* The broker and its replies after a step that keeps the quantities.      *)
LEMMA BrokerKeepsWhole ==
  ASSUME IInv, BrokerFillsWhole, DOMAIN orders' = DOMAIN orders,
         \A o \in DOMAIN orders : orders'[o].quantity = orders[o].quantity,
         \/ UNCHANGED <<broker, replies>>
         \/ broker' = broker /\ (\E r \in Runs : replies' = [replies EXCEPT ![r] = {}])
         \/ broker' = broker /\ replies' = [r \in Runs |-> {}]
         \/ /\ broker' = broker
            /\ \E r \in Runs, row \in UNION {snapshots[s] : s \in Runs} : replies' = [replies EXCEPT ![r] =
                  {[row |-> row, status |-> broker[row.order].status, filled |-> broker[row.order].filled]}]
         \/ /\ replies' = replies
            /\ \E o \in DOMAIN orders, s \in BrokerStatuses, n \in Nat :
                 /\ broker' = [broker EXCEPT ![o] = [status |-> s, filled |-> n]]
                 /\ s = "Filled" => n = orders[o].quantity
  PROVE  BrokerFillsWhole'
<1>1. /\ \A o \in DOMAIN orders : o \in OrderIds
      /\ \A r \in Runs : \A reply \in replies[r] : reply.row.order \in DOMAIN orders
      /\ \A r \in Runs : \A row \in snapshots[r] : row.order \in DOMAIN orders
      /\ replies \in [Runs -> SUBSET Reply] /\ broker \in [OrderIds -> [status : BrokerStatuses, filled : Nat]]
  BY DEF IInv, TypeOK, TablesOK, RunsOK, RowsExist
<1>2. \A o \in DOMAIN orders' : orders'[o].quantity # 0
  BY DEF BrokerFillsWhole
<1>3. ASSUME NEW o \in OrderIds, broker'[o].status = "Filled"
      PROVE  o \in DOMAIN orders' /\ broker'[o].filled = orders'[o].quantity
  <2>1. CASE broker'[o] = broker[o]
    BY <1>3, <2>1 DEF BrokerFillsWhole
  <2>2. CASE broker'[o] # broker[o]
    <3>1. PICK x \in DOMAIN orders, s \in BrokerStatuses, n \in Nat :
            broker' = [broker EXCEPT ![x] = [status |-> s, filled |-> n]] /\ (s = "Filled" => n = orders[x].quantity)
      BY <2>2
    <3>2. o = x /\ broker'[o] = [status |-> s, filled |-> n]
      BY <1>1, <2>2, <3>1
    <3>. QED
      BY <1>3, <3>1, <3>2
  <2>. QED
    BY <2>1, <2>2
<1>4. ASSUME NEW r \in Runs, NEW reply \in replies'[r], reply.status = "Filled"
      PROVE  reply.filled = orders'[reply.row.order].quantity
  <2>1. CASE reply \in replies[r]
    BY <1>1, <1>4, <2>1 DEF BrokerFillsWhole
  <2>2. CASE reply \notin replies[r]
    <3>1. PICK t \in Runs, row \in UNION {snapshots[s] : s \in Runs} : replies' = [replies EXCEPT ![t] =
            {[row |-> row, status |-> broker[row.order].status, filled |-> broker[row.order].filled]}]
      BY <1>1, <1>4, <2>2
    <3>2. reply = [row |-> row, status |-> broker[row.order].status, filled |-> broker[row.order].filled]
      BY <1>1, <1>4, <2>2, <3>1
    <3>3. row.order \in DOMAIN orders /\ row.order \in OrderIds
      BY <1>1
    <3>4. broker[row.order].filled = orders[row.order].quantity
      BY <1>4, <3>2, <3>3 DEF BrokerFillsWhole
    <3>. QED
      BY <3>2, <3>3, <3>4
  <2>. QED
    BY <2>1, <2>2
<1>. QED
  BY <1>2, <1>3, <1>4 DEF BrokerFillsWhole

LEMMA ServedStarts ==
  ASSUME Init
  PROVE  ServedInv
BY DEF Init, ServedInv, AskedOnce, BrokerFillsWhole, FilledIsComplete

LEMMA ServedStep ==
  ASSUME ~ReuseOrderIds, IInv, ServedInv, [Next]_vars
  PROVE  ServedInv'
<1>. USE QuantityAssumption
<1>0. /\ TypeOK /\ AskedOnce /\ BrokerFillsWhole /\ FilledIsComplete
      /\ orders \in [DOMAIN orders -> Order] /\ broker \in [OrderIds -> [status : BrokerStatuses, filled : Nat]]
  BY DEF IInv, ServedInv, TypeOK, TablesOK
<1>1. ASSUME NEW x \in OrderIds, NEW c \in ClientIds, NEW m \in Modes, NEW q \in Quantities,
             NEW link \in Column, NEW p \in Parents(x), CreateOrder(x, c, p, m, q, link)
      PROVE  ServedInv'
  BY <1>1, CreateKeepsServed
<1>2. ASSUME Serves, UNCHANGED <<broker, replies>>
      PROVE  ServedInv'
  BY <1>0, <1>2, ServesKeeps, BrokerKeepsWhole DEF Serves, ServedInv
<1>3. ASSUME ClientCall, \A o \in OrderIds, c \in ClientIds, m \in Modes, q \in Quantities, link \in Column :
               \A p \in Parents(o) : ~CreateOrder(o, c, p, m, q, link)
      PROVE  ServedInv'
  <2>1. UNCHANGED <<broker, replies>>
    BY <1>3 DEF ClientCall, Submit, Acknowledge, Fill, Cancel, Reject, Expire, MarkError, ReconcilePaper, StartReconcileLive
  <2>. QED
    BY <1>2, <1>3, <2>1, CallServes
<1>4. ASSUME NEW r \in Runs, RunStep(r)
      PROVE  ServedInv'
  <2>1. Serves
    BY <1>0, <1>4, RunServes
  <2>2. \/ \E row \in snapshots[r] : replies' = [replies EXCEPT ![r] =
                {[row |-> row, status |-> broker[row.order].status, filled |-> broker[row.order].filled]}]
        \/ UNCHANGED replies
        \/ replies' = [replies EXCEPT ![r] = {}]
    BY <1>4 DEF RunStep, BrokerReplies, BrokerUnknown, ReconcileNext
  <2>3. broker' = broker
    BY <1>4 DEF RunStep, BrokerReplies, BrokerUnknown, ReconcileNext
  <2>4. BrokerFillsWhole'
    <3>1. AskedOnce' /\ FilledIsComplete' /\ \A o \in DOMAIN orders : orders'[o].quantity = orders[o].quantity
      BY <1>0, <2>1, ServesKeeps
    <3>2. DOMAIN orders' = DOMAIN orders
      BY <2>1 DEF Serves
    <3>3. CASE \E row \in snapshots[r] : replies' = [replies EXCEPT ![r] =
                {[row |-> row, status |-> broker[row.order].status, filled |-> broker[row.order].filled]}]
      BY <1>0, <2>3, <3>1, <3>2, <3>3, BrokerKeepsWhole
    <3>4. CASE UNCHANGED replies
      BY <1>0, <2>3, <3>1, <3>2, <3>4, BrokerKeepsWhole
    <3>5. CASE replies' = [replies EXCEPT ![r] = {}]
      BY <1>0, <2>3, <3>1, <3>2, <3>5, BrokerKeepsWhole
    <3>. QED
      BY <2>2, <3>3, <3>4, <3>5
  <2>. QED
    BY <1>0, <2>1, <2>4, ServesKeeps DEF ServedInv
<1>5. ASSUME Environment
      PROVE  ServedInv'
  <2>1. UNCHANGED <<orders, journal>>
    BY <1>5 DEF Environment, BrokerAccepts, BrokerFills, BrokerStops, BrokerUpdates, BrokerCuts, PaperTrade, PaperReset, Restart
  <2>2. Serves
    BY <2>1, IdleServes
  <2>3. CASE UNCHANGED <<broker, replies>>
    BY <1>2, <2>2, <2>3
  <2>4. CASE Restart
    BY <1>0, <2>1, <2>2, <2>4, ServesKeeps, BrokerKeepsWhole DEF Restart, ServedInv
  <2>5. ASSUME NEW o \in DOMAIN orders, NEW s \in BrokerStatuses, NEW n \in Nat, BrokerUpdates(o, s, n),
               s = "Filled" => n = orders[o].quantity
        PROVE  ServedInv'
    BY <1>0, <2>1, <2>2, <2>5, ServesKeeps, BrokerKeepsWhole DEF BrokerUpdates, ServedInv
  <2>6. ASSUME NEW o \in OrderIds, BrokerAccepts(o)
        PROVE  ServedInv'
    BY <2>5, <2>6 DEF BrokerAccepts, BrokerUpdates, BrokerStatuses
  <2>7. ASSUME NEW o \in OrderIds, NEW n \in Amounts, BrokerFills(o, n)
        PROVE  ServedInv'
    <3>1. o \in DOMAIN orders /\ n \in Nat /\ broker[o].status \in {"Submitted", "PendingCancel"}
      BY <1>0, <2>7, AmountAssumption DEF BrokerFills, BrokerUpdates
    <3>2. CASE n = orders[o].quantity
      BY <2>5, <2>7, <3>1, <3>2 DEF BrokerFills, BrokerStatuses
    <3>3. CASE n # orders[o].quantity
      BY <2>5, <2>7, <3>1, <3>3 DEF BrokerFills, BrokerStatuses
    <3>. QED
      BY <3>2, <3>3
  <2>8. ASSUME NEW o \in OrderIds, NEW s \in BrokerStatuses, BrokerStops(o, s)
        PROVE  ServedInv'
    <3>1. o \in DOMAIN orders /\ s # "Filled" /\ broker[o].filled \in Nat /\ BrokerUpdates(o, s, broker[o].filled)
      BY <1>0, <2>8 DEF BrokerStops, BrokerUpdates
    <3>. QED
      BY <2>5, <3>1
  <2>9. \A o \in OrderIds : PaperTrade(o) => UNCHANGED <<broker, replies>>
    BY DEF PaperTrade
  <2>10. PaperReset => UNCHANGED <<broker, replies>>
    BY DEF PaperReset
  <2>11. \A r \in Runs : BrokerCuts(r) => UNCHANGED <<broker, replies>>
    BY DEF BrokerCuts
  <2>. QED
    BY <1>5, <2>3, <2>4, <2>6, <2>7, <2>8, <2>9, <2>10, <2>11 DEF Environment
<1>6. CASE UNCHANGED vars
  BY <1>2, <1>6, IdleServes DEF vars
<1>. QED
  BY <1>1, <1>3, <1>4, <1>5, <1>6 DEF Next

(* As long as no caller reuses the orderId of an order, a clientOrderId is *)
(* used for one creation, and an order that is called filled is filled to  *)
(* its quantity, by callers, by the paper engine, or by a broker whose     *)
(* replies are late (createOrder, recordFill, reconcile).                  *)
THEOREM ServedOnce ==
  ASSUME ~ReuseOrderIds
  PROVE  Spec => []ClientsServed
<1>1. IInv /\ ServedInv => ClientsServed
  BY DEF ClientsServed, ServedInv, AskedOnce, CreatedOnce, IInv, TypeOK, TablesOK
<1>2. Init => ServedInv
  BY ServedStarts
<1>3. IInv /\ ServedInv /\ [Next]_vars => ServedInv'
  BY ServedStep
<1>. QED
  BY <1>1, <1>2, <1>3, Inductive, PTL DEF Spec

----------------------------------------------------------------------------
(* The cascade *)

(* No leg has legs of its own. *)
OneLevel == \A f, g \in Families : f[1] # g[2]

(* A leg and its parent are a family that callers create.                  *)
LegsInFamilies ==
  \A o \in DOMAIN orders : orders[o].parent = NoParent \/ <<o, orders[o].parent>> \in Families

LEMMA FamiliesStep ==
  ASSUME IInv, LegsInFamilies, [Next]_vars
  PROVE  LegsInFamilies'
<1>0. orders \in [DOMAIN orders -> Order]
  BY DEF IInv, TypeOK, TablesOK
<1>1. ASSUME DOMAIN orders' = DOMAIN orders, \A o \in DOMAIN orders : orders'[o].parent = orders[o].parent
      PROVE  LegsInFamilies'
  BY <1>1 DEF LegsInFamilies
<1>2. ASSUME NEW x \in OrderIds, NEW c \in ClientIds, NEW m \in Modes, NEW q \in Quantities,
             NEW link \in Column, NEW p \in Parents(x), CreateOrder(x, c, p, m, q, link)
      PROVE  LegsInFamilies'
  <2>1. p = NoParent \/ <<x, p>> \in Families
    BY DEF Parents
  <2>2. /\ DOMAIN orders' = DOMAIN orders \cup {x} /\ orders'[x].parent = p
        /\ \A o \in DOMAIN orders : o # x => orders'[o] = orders[o]
    BY <1>2 DEF CreateOrder
  <2>. QED
    BY <2>1, <2>2 DEF LegsInFamilies
<1>3. ASSUME NEW S, NEW to, NEW link, ApplyTransition(S, to, 0, link)
      PROVE  LegsInFamilies'
  <2>1. \A o \in DOMAIN orders : orders'[o] = orders[o] \/ orders'[o] = Patched(orders[o], to, 0, link)
    BY <1>3 DEF ApplyTransition
  <2>2. DOMAIN orders' = DOMAIN orders
    BY <1>3 DEF ApplyTransition
  <2>. QED
    BY <1>0, <1>1, <2>1, <2>2, WritesKeepParents
<1>4. ASSUME NEW x \in DOMAIN orders, NEW link \in Column,
             Submit(x, link) \/ Acknowledge(x, link) \/ Cancel(x) \/ Reject(x, link) \/ Expire(x) \/ MarkError(x)
      PROVE  LegsInFamilies'
  BY <1>3, <1>4 DEF Submit, Acknowledge, Cancel, Reject, Expire, MarkError
<1>5. ASSUME NEW x \in DOMAIN orders, NEW q \in Amounts \cup {NaN}, NEW link \in Column, Fill(x, q, link)
      PROVE  LegsInFamilies'
  BY <1>0, <1>1, <1>5 DEF Fill, Patched, Acked, Order
<1>6. ASSUME NEW found, ReconcileOrders(found)
      PROVE  LegsInFamilies'
  <2>1. \A o \in DOMAIN orders : orders'[o] = orders[o] \/ orders'[o] = Reconciled(orders[o], found[o])
    BY <1>6 DEF ReconcileOrders
  <2>2. DOMAIN orders' = DOMAIN orders
    BY <1>6 DEF ReconcileOrders
  <2>. QED
    BY <1>0, <1>1, <2>1, <2>2, WritesKeepParents
<1>7. ReconcilePaper => LegsInFamilies'
  BY <1>6 DEF ReconcilePaper
<1>8. ASSUME UNCHANGED orders
      PROVE  LegsInFamilies'
  BY <1>1, <1>8
<1>9. \A r \in Runs : RunStep(r) => UNCHANGED orders \/ \E found : ReconcileOrders(found)
  BY DEF RunStep, BrokerReplies, BrokerUnknown, ReconcileNext
<1>10. Environment => UNCHANGED orders
  BY DEF Environment, BrokerAccepts, BrokerFills, BrokerStops, BrokerUpdates, BrokerCuts, PaperTrade, PaperReset, Restart
<1>11. \A r \in Runs : StartReconcileLive(r) => UNCHANGED orders
  BY DEF StartReconcileLive
<1>12. UNCHANGED vars => UNCHANGED orders
  BY DEF vars
<1>13. "null" \in Column
  BY DEF Column
<1>. QED
  BY <1>2, <1>4, <1>5, <1>6, <1>7, <1>8, <1>9, <1>10, <1>11, <1>12, <1>13 DEF Next, ClientCall

Cascades ==
  \A p \in DOMAIN orders : orders[p].status # "canceled" /\ orders'[p].status = "canceled" =>
    \A o \in DOMAIN orders : orders[o].parent = p => orders'[o].status \notin Open

(* A cancel reaches every open leg of the order; the legs have none.       *)
LEMMA CancelReachesLegs ==
  ASSUME OneLevel, IInv, LegsInFamilies, NEW x \in DOMAIN orders, Cancel(x)
  PROVE  Cascades
<1>. DEFINE S == {x} \cup OpenChildren(x)
<1>1. /\ orders \in [DOMAIN orders -> Order] /\ DOMAIN orders \subseteq OrderIds
      /\ \A o \in S : o \in DOMAIN orders /\ orders'[o].status = "canceled"
      /\ \A o \in DOMAIN orders : o \notin S => orders'[o] = orders[o]
  <2>1. /\ orders \in [DOMAIN orders -> Order] /\ DOMAIN orders \subseteq OrderIds
        /\ \A o \in S : o \in DOMAIN orders
    BY DEF IInv, TypeOK, TablesOK, OpenChildren
  <2>2. \A o \in DOMAIN orders : orders'[o] = IF o \in S THEN Patched(orders[o], "canceled", 0, "null") ELSE orders[o]
    BY DEF Cancel, ApplyTransition
  <2>. QED
    BY <2>1, <2>2, WritesKeepParents
<1>2. ASSUME NEW p \in DOMAIN orders, orders[p].status # "canceled", orders'[p].status = "canceled",
             NEW o \in DOMAIN orders, orders[o].parent = p
      PROVE  orders'[o].status \notin Open
  <2>1. p \in S
    BY <1>1, <1>2
  <2>2. CASE p = x
    <3>1. o \in S \/ orders[o].status \notin Open
      BY <1>2, <2>2 DEF OpenChildren
    <3>. QED
      BY <1>1, <3>1 DEF Open
  <2>3. CASE p # x
    <3>1. orders[p].parent = x
      BY <2>1, <2>3 DEF OpenChildren
    <3>2. x # NoParent /\ p # NoParent
      BY <1>1, FamilyAssumption
    <3>3. <<p, x>> \in Families /\ <<o, p>> \in Families
      BY <1>2, <3>1, <3>2 DEF LegsInFamilies
    <3>4. <<p, x>>[1] # <<o, p>>[2]
      BY <3>3 DEF OneLevel
    <3>. QED
      BY <3>4
  <2>. QED
    BY <2>2, <2>3
<1>. QED
  BY <1>2 DEF Cascades

LEMMA CascadeStep ==
  ASSUME "live" \notin Modes, OneLevel, IInv, NoLiveRows, LegsInFamilies, Next
  PROVE  Cascades
<1>0. orders \in [DOMAIN orders -> Order]
  BY DEF IInv, TypeOK, TablesOK
<1>1. ASSUME \A p \in DOMAIN orders : orders'[p].status = orders[p].status \/ orders'[p].status # "canceled"
      PROVE  Cascades
  BY <1>1 DEF Cascades
<1>2. ASSUME NEW x \in OrderIds, NEW c \in ClientIds, NEW m \in Modes, NEW q \in Quantities,
             NEW link \in Column, NEW p \in Parents(x), CreateOrder(x, c, p, m, q, link)
      PROVE  Cascades
  BY <1>1, <1>2 DEF CreateOrder
<1>3. ASSUME NEW S, NEW to, to # "canceled", NEW link, ApplyTransition(S, to, 0, link)
      PROVE  Cascades
  <2>1. \A o \in DOMAIN orders : orders'[o] = orders[o] \/ orders'[o] = Patched(orders[o], to, 0, link)
    BY <1>3 DEF ApplyTransition
  <2>. QED
    BY <1>0, <1>1, <1>3, <2>1, WritesKeepParents
<1>4. ASSUME NEW x \in DOMAIN orders, NEW link \in Column,
             Submit(x, link) \/ Acknowledge(x, link) \/ Reject(x, link) \/ Expire(x) \/ MarkError(x)
      PROVE  Cascades
  BY <1>3, <1>4 DEF Submit, Acknowledge, Reject, Expire, MarkError
<1>5. ASSUME NEW x \in DOMAIN orders, NEW q \in Amounts \cup {NaN}, NEW link \in Column, Fill(x, q, link)
      PROVE  Cascades
  <2>1. FillTarget(orders[x], q) # "canceled"
    BY DEF FillTarget
  <2>2. orders'[x].status = FillTarget(orders[x], q) /\ \A o \in DOMAIN orders : o # x => orders'[o] = orders[o]
    BY <1>0, <1>5 DEF Fill, Patched, Acked, Order
  <2>. QED
    BY <1>1, <2>1, <2>2
<1>6. ASSUME ReconcilePaper
      PROVE  Cascades
  <2>1. ASSUME NEW o \in DOMAIN orders
        PROVE  orders'[o].status = orders[o].status \/ orders'[o].status # "canceled"
    <3>1. orders'[o] = orders[o] \/ orders'[o] = Reconciled(orders[o], PaperState(orders[o], o))
      BY <1>6, <2>1 DEF ReconcilePaper, ReconcileOrders
    <3>2. PaperState(orders[o], o).status \in {"filled", "error", orders[o].status}
      BY DEF PaperState
    <3>. QED
      BY <1>0, <3>1, <3>2, WritesKeepParents
  <2>. QED
    BY <1>1, <2>1
<1>7. \A r \in Runs : ~RunStep(r)
  BY DEF RunStep, ReconcileNext, NoLiveRows
<1>8. Environment \/ (\E r \in Runs : StartReconcileLive(r)) => UNCHANGED orders
  BY DEF Environment, BrokerAccepts, BrokerFills, BrokerStops, BrokerUpdates, BrokerCuts, PaperTrade, PaperReset, Restart, StartReconcileLive
<1>9. UNCHANGED orders => Cascades
  BY <1>1
<1>10. "null" \in Column
  BY DEF Column
<1>. QED
  BY <1>2, <1>4, <1>5, <1>6, <1>7, <1>8, <1>9, <1>10, CancelReachesLegs DEF Next, ClientCall

(* Without live orders, and with legs that have no legs, no step cancels   *)
(* an order and leaves a leg of it open, whatever else the step does       *)
(* (omsEngine.cancel).                                                     *)
THEOREM CancelsCascade ==
  ASSUME "live" \notin Modes, OneLevel
  PROVE  Spec => CancelCascades
<1>1. Init => NoLiveRows /\ LegsInFamilies
  BY DEF Init, NoLiveRows, LegsInFamilies
<1>2. IInv /\ NoLiveRows /\ LegsInFamilies /\ [Next]_vars => NoLiveRows' /\ LegsInFamilies'
  BY NoLiveRowsStep, FamiliesStep
<1>3. IInv /\ NoLiveRows /\ LegsInFamilies /\ [Next]_vars => [Cascades]_vars
  BY CascadeStep
<1>. QED
  BY <1>1, <1>2, <1>3, Inductive, PTL DEF Spec, CancelCascades, Cascades
=============================================================================
