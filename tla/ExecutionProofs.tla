--------------------------- MODULE ExecutionProofs ---------------------------
(***************************************************************************)
(* What order execution guarantees for all placements, clients, limits and *)
(* interleavings.                                                          *)
(***************************************************************************)
EXTENDS Execution, TLAPS

(* A row repeats what its placement was asked. *)
RowsAsked ==
  \A p \in DOMAIN rows : rows[p].client = request[p].client /\ rows[p].mode = request[p].mode

(* clientOrderId is unique. *)
OneRowEach ==
  \A p, x \in DOMAIN rows : rows[p].client = rows[x].client /\ rows[p].client # NoClient => p = x

(* No placement that is still under way has been filled or acknowledged,   *)
(* a filled order has its fill, and only live orders are canceled at the   *)
(* gateway.                                                                *)
Settled ==
  /\ \A p \in fills : stage[p] = "done"
  /\ \A p \in DOMAIN rows : rows[p].brokerId = "set" => stage[p] = "done"
  /\ \A p \in DOMAIN rows : rows[p].status = "filled" => p \in fills
  /\ \A o \in cancels : request[o].mode = "live"

RowsInv == RowsAsked /\ OneRowEach /\ Settled /\ FillsHaveOrders

IInv == TypeOK /\ PositionsBounded /\ RowsInv

----------------------------------------------------------------------------
(* The paper engine *)

(* What the guard lets through keeps every position within its limits. *)
LEMMA PaperFillKeeps ==
  ASSUME PaperTypeOK, PositionsBounded, NEW s \in Symbols, NEW side \in Sides,
         NEW q \in Int, PaperFill(s, side, q)
  PROVE  PaperTypeOK' /\ PositionsBounded'
<1>1. positions[s] \in Int
  BY DEF PaperTypeOK
<1>2. Projected(s, side, q) \in Int
  BY <1>1 DEF Projected
<1>3. /\ positions' = [positions EXCEPT ![s] = Projected(s, side, q)]
      /\ q > 0 /\ Magnitude(Projected(s, side, q)) <= MaxPositionSize
      /\ side = "sell" => positions[s] >= q
      /\ otherFills' = IF side \in {"buy", "sell"} THEN otherFills ELSE otherFills \cup {s}
  BY DEF PaperFill, GuardAllows
<1>4. PaperTypeOK'
  BY <1>2, <1>3 DEF PaperFill, PaperTypeOK
<1>5. Projected(s, side, q) < 0 => s \in otherFills'
  BY <1>1, <1>3 DEF Projected, Sides, PositionsBounded
<1>6. positions'[s] = Projected(s, side, q) /\ \A x \in Symbols \ {s} : positions'[x] = positions[x]
  BY <1>3 DEF PaperTypeOK
<1>7. otherFills \subseteq otherFills'
  BY <1>3
<1>. QED
  BY <1>3, <1>4, <1>5, <1>6, <1>7 DEF PositionsBounded

LEMMA PaperCallKeeps ==
  ASSUME PaperTypeOK, PositionsBounded, PaperCall
  PROVE  PaperTypeOK' /\ PositionsBounded'
<1>. USE TradeAssumption
<1>1. ASSUME NEW s \in Symbols, NEW side \in Sides, NEW q \in Quantities, PaperFill(s, side, q)
      PROVE  PaperTypeOK' /\ PositionsBounded'
  BY <1>1, PaperFillKeeps
<1>2. ASSUME NEW s \in Symbols, ClosePosition(s)
      PROVE  PaperTypeOK' /\ PositionsBounded'
  <2>1. Magnitude(positions[s]) \in Int
    BY DEF PaperTypeOK, Magnitude
  <2>2. PICK side \in Sides : PaperFill(s, side, Magnitude(positions[s]))
    BY <1>2 DEF ClosePosition, Sides
  <2>. QED
    BY <2>1, <2>2, PaperFillKeeps
<1>3. CASE ResetPaperAccount
  BY <1>3, GuardAssumption DEF ResetPaperAccount, PaperTypeOK, PositionsBounded, Magnitude
<1>4. ASSUME NEW on \in BOOLEAN, PaperKillSwitch(on)
      PROVE  PaperTypeOK' /\ PositionsBounded'
  BY <1>4 DEF PaperKillSwitch, PaperTypeOK, PositionsBounded
<1>. QED
  BY <1>1, <1>2, <1>3, <1>4 DEF PaperCall

----------------------------------------------------------------------------
(* The store *)

(* Saving the row of a placement under way keeps the rows' types, removes  *)
(* no filled order and leaves one row for each clientOrderId.              *)
LEMMA SaveOrderFacts ==
  ASSUME TypeOK, RowsInv, NEW p \in DOMAIN request, Savable(p),
         NEW status \in RowStatuses, NEW link \in Column, SaveOrder(p, status, link),
         UNCHANGED request
  PROVE  /\ rows' \in [DOMAIN rows' -> Row] /\ DOMAIN rows' \subseteq DOMAIN request
         /\ RowsAsked' /\ OneRowEach'
         /\ p \in DOMAIN rows' /\ rows'[p].status = status /\ rows'[p].brokerId = link
         /\ \A x \in DOMAIN rows' \ {p} : x \in DOMAIN rows /\ rows'[x] = rows[x]
         /\ \A x \in fills \ {p} : x \in DOMAIN rows'
<1> DEFINE row == [client |-> request[p].client, mode |-> request[p].mode,
                   brokerId |-> link, status |-> status]
<1>1. row \in Row
  BY DEF TypeOK, Request, Row
<1>2. /\ DOMAIN rows' = (DOMAIN rows \ Conflicts(p)) \cup {p}
      /\ rows'[p] = row
      /\ \A x \in DOMAIN rows' \ {p} : x \in DOMAIN rows \ Conflicts(p) /\ rows'[x] = rows[x]
  BY DEF SaveOrder
<1>3. rows' \in [DOMAIN rows' -> Row] /\ DOMAIN rows' \subseteq DOMAIN request
  <2>1. rows' = [x \in DOMAIN rows' |-> rows'[x]]
    BY DEF SaveOrder
  <2>2. \A x \in DOMAIN rows' : rows'[x] \in Row
    BY <1>1, <1>2 DEF TypeOK
  <2>. QED
    BY <1>2, <2>1, <2>2 DEF TypeOK
<1>4. row.client = request[p].client /\ row.mode = request[p].mode
      /\ row.status = status /\ row.brokerId = link
  OBVIOUS
<1>. HIDE DEF row
<1>5. RowsAsked'
  BY <1>2, <1>4 DEF RowsInv, RowsAsked
<1>6. OneRowEach'
  <2>1. \A x \in DOMAIN rows' \ {p} : rows'[x].client = row.client => row.client = NoClient
    BY <1>2, <1>4 DEF Conflicts
  <2>. QED
    BY <1>2, <2>1 DEF RowsInv, OneRowEach
<1>7. \A x \in fills \ {p} : x \in DOMAIN rows'
  BY <1>2 DEF Savable, RowsInv, FillsHaveOrders
<1>. QED
  BY <1>2, <1>3, <1>4, <1>5, <1>6, <1>7

(* The rest of the rows' invariant, when the placement that saves its row  *)
(* was under way and ends if the row is linked.                            *)
LEMMA SaveOrderKeeps ==
  ASSUME TypeOK, RowsInv, NEW p \in DOMAIN request, Savable(p), stage[p] # "done",
         NEW status \in RowStatuses, NEW link \in Column, SaveOrder(p, status, link),
         status # "filled", NEW to \in Stages, stage' = [stage EXCEPT ![p] = to], link = "set" => to = "done",
         UNCHANGED <<request, fills, cancels>>
  PROVE  RowsInv'
<1>1. /\ RowsAsked' /\ OneRowEach'
      /\ p \in DOMAIN rows' /\ rows'[p].status = status /\ rows'[p].brokerId = link
      /\ \A x \in DOMAIN rows' \ {p} : x \in DOMAIN rows /\ rows'[x] = rows[x]
      /\ \A x \in fills \ {p} : x \in DOMAIN rows'
  BY SaveOrderFacts
<1>2. p \notin fills /\ p \in Placements
  BY DEF RowsInv, Settled, TypeOK
<1>3. stage'[p] = to /\ \A x \in Placements \ {p} : stage'[x] = stage[x]
  BY <1>2 DEF TypeOK
<1>4. FillsHaveOrders'
  BY <1>1, <1>2 DEF RowsInv, FillsHaveOrders
<1>5. Settled'
  BY <1>1, <1>2, <1>3 DEF RowsInv, Settled, TypeOK
<1>. QED
  BY <1>1, <1>4, <1>5 DEF RowsInv

(* When the rows stay as they are, ending a placement keeps it too. *)
LEMMA EndKeeps ==
  ASSUME TypeOK, RowsInv, NEW p \in DOMAIN request, NEW to \in Stages, stage[p] # "done",
         stage' = [stage EXCEPT ![p] = to], UNCHANGED <<rows, request, fills, cancels>>
  PROVE  RowsInv'
<1>1. p \in Placements /\ p \notin fills
  BY DEF TypeOK, RowsInv, Settled
<1>2. \A x \in Placements \ {p} : stage'[x] = stage[x]
  BY DEF TypeOK
<1>3. \A x \in DOMAIN rows : rows[x].brokerId = "set" => x # p
  BY DEF RowsInv, Settled
<1>4. Settled'
  BY <1>1, <1>2, <1>3 DEF RowsInv, Settled, TypeOK
<1>. QED
  BY <1>4 DEF RowsInv, RowsAsked, OneRowEach, FillsHaveOrders

(* A placement that moves on leaves the types of the placements' state.    *)
LEMMA StepTypes ==
  ASSUME TypeOK, NEW p \in DOMAIN request, stage[p] # "new", NEW to \in Stages \ {"new"},
         stage' = [stage EXCEPT ![p] = to], UNCHANGED request
  PROVE  /\ stage' \in [Placements -> Stages]
         /\ DOMAIN request' = {x \in Placements : stage'[x] # "new"}
         /\ request' \in [DOMAIN request' -> Request]
  BY DEF TypeOK

(* Sending an order adds it to what the gateway was sent. *)
LEMMA SendTypes ==
  ASSUME TypeOK, NEW p \in DOMAIN request, Send(p)
  PROVE  sent' \subseteq DOMAIN request /\ broker' \in [sent' -> {"unseen", "working", "canceled"}]
  BY DEF Send, Added, TypeOK

----------------------------------------------------------------------------
(* Each step keeps the invariant *)

LEMMA PlaceOrderKeeps ==
  ASSUME IInv, NEW p \in Placements, NEW r \in Request, PlaceOrder(p, r)
  PROVE  IInv'
<1>. USE DEF IInv
<1>1. /\ stage[p] = "new" /\ p \notin DOMAIN request
      /\ DOMAIN request' = DOMAIN request \cup {p} /\ request'[p] = r
      /\ \A x \in DOMAIN request : request'[x] = request[x]
      /\ request' = [x \in DOMAIN request' |-> request'[x]]
  BY DEF PlaceOrder, Added, Step, TypeOK
<1>2. PICK to \in Stages \ {"new"} : stage' = [stage EXCEPT ![p] = to]
  BY DEF PlaceOrder, Step, Stages
<1>3. /\ stage' \in [Placements -> Stages]
      /\ DOMAIN request' = {x \in Placements : stage'[x] # "new"}
  BY <1>1, <1>2 DEF TypeOK
<1>4. request' \in [DOMAIN request' -> Request]
  BY <1>1 DEF TypeOK
<1>5. p \notin DOMAIN rows \cup fills \cup cancels
  BY <1>1 DEF TypeOK
<1>6. \A x \in DOMAIN request : stage'[x] = stage[x]
  BY <1>1, <1>2, <1>3 DEF TypeOK
<1>7. CASE UNCHANGED rows
  <2>1. TypeOK'
    BY <1>1, <1>3, <1>4, <1>7 DEF PlaceOrder, TypeOK, PaperTypeOK, paperVars
  <2>2. RowsInv'
    BY <1>1, <1>5, <1>6, <1>7
       DEF PlaceOrder, TypeOK, RowsInv, RowsAsked, OneRowEach, Settled, FillsHaveOrders
  <2>. QED
    BY <2>1, <2>2 DEF PlaceOrder, PositionsBounded, paperVars
<1>8. ASSUME ~Known(r.client), ~UNCHANGED rows
      PROVE  IInv'
  <2> DEFINE row == [client |-> r.client, mode |-> r.mode, brokerId |-> "null",
                     status |-> "rejected"]
  <2>1. row \in Row
    BY DEF Request, Row, Column, RowStatuses
  <2>2. /\ DOMAIN rows' = DOMAIN rows \cup {p} /\ rows'[p] = row
        /\ \A x \in DOMAIN rows : rows'[x] = rows[x]
        /\ rows' = [x \in DOMAIN rows' |-> rows'[x]]
    BY <1>5, <1>8 DEF PlaceOrder, Added
  <2>3. row.client = r.client /\ row.mode = r.mode /\ row.brokerId = "null"
        /\ row.status = "rejected"
    OBVIOUS
  <2>. HIDE DEF row
  <2>4. rows' \in [DOMAIN rows' -> Row] /\ DOMAIN rows' \subseteq DOMAIN request'
    BY <1>1, <2>1, <2>2 DEF TypeOK
  <2>5. TypeOK'
    BY <1>1, <1>3, <1>4, <2>4 DEF PlaceOrder, TypeOK, PaperTypeOK, paperVars
  <2>6. RowsAsked'
    BY <1>1, <1>5, <2>2, <2>3 DEF TypeOK, RowsInv, RowsAsked
  <2>7. OneRowEach'
    BY <1>8, <2>2, <2>3 DEF Known, RowsInv, OneRowEach
  <2>8. Settled'
    BY <1>1, <1>5, <1>6, <2>2, <2>3 DEF PlaceOrder, TypeOK, RowsInv, Settled
  <2>9. FillsHaveOrders'
    BY <2>2 DEF PlaceOrder, RowsInv, FillsHaveOrders
  <2>. QED
    BY <2>5, <2>6, <2>7, <2>8, <2>9 DEF PlaceOrder, RowsInv, PositionsBounded, paperVars
<1>. QED
  BY <1>7, <1>8 DEF PlaceOrder

(* The steps that save a row, or fail to, and touch no position.           *)
LEMMA SavingKeeps ==
  ASSUME IInv, NEW p \in DOMAIN request, stage[p] \notin {"new", "done"},
         NEW to \in Stages \ {"new"}, stage' = [stage EXCEPT ![p] = to],
         NEW status \in RowStatuses \ {"filled"}, NEW link \in Column, link = "set" => to = "done",
         \/ Savable(p) /\ SaveOrder(p, status, link)
         \/ UNCHANGED rows,
         \/ Send(p)
         \/ UNCHANGED <<sent, broker>>,
         connected' \in BOOLEAN,
         UNCHANGED <<paperVars, request, fills, cancels, killSwitch>>
  PROVE  IInv'
<1>. USE DEF IInv
<1>1. /\ stage' \in [Placements -> Stages]
      /\ DOMAIN request' = {x \in Placements : stage'[x] # "new"}
      /\ request' \in [DOMAIN request' -> Request]
  BY StepTypes
<1>2. sent' \subseteq DOMAIN request /\ broker' \in [sent' -> {"unseen", "working", "canceled"}]
  BY SendTypes DEF TypeOK
<1>3. rows' \in [DOMAIN rows' -> Row] /\ DOMAIN rows' \subseteq DOMAIN request
  BY SaveOrderFacts DEF TypeOK
<1>4. TypeOK'
  BY <1>1, <1>2, <1>3 DEF TypeOK, PaperTypeOK, paperVars
<1>5. RowsInv'
  <2>1. CASE Savable(p) /\ SaveOrder(p, status, link)
    BY <2>1, SaveOrderKeeps
  <2>2. CASE UNCHANGED rows
    BY <2>2, EndKeeps
  <2>. QED
    BY <2>1, <2>2
<1>. QED
  BY <1>4, <1>5 DEF PositionsBounded, paperVars

LEMMA FillOnPaperKeeps ==
  ASSUME IInv, NEW p \in DOMAIN request, NEW priced \in BOOLEAN, FillOnPaper(p, priced)
  PROVE  IInv'
<1>. USE DEF IInv
<1>1. /\ stage[p] = "pricing" /\ stage' = [stage EXCEPT ![p] = "done"]
      /\ "done" \in Stages \ {"new"} /\ request[p].mode = "paper" /\ UNCHANGED request
  BY DEF FillOnPaper, Step, Stages
<1>2. /\ stage' \in [Placements -> Stages]
      /\ DOMAIN request' = {x \in Placements : stage'[x] # "new"}
      /\ request' \in [DOMAIN request' -> Request]
  BY <1>1, StepTypes
<1>3. request[p] \in Request
  BY DEF TypeOK
<1>4. /\ request[p].symbol \in Symbols /\ request[p].side \in Sides
      /\ request[p].quantity \in Int
  BY <1>3, TradeAssumption DEF Request
<1>5. PaperTypeOK' /\ PositionsBounded'
  BY <1>4, PaperFillKeeps DEF FillOnPaper, TypeOK
<1>6. "filled" \in RowStatuses /\ "set" \in Column
  BY DEF RowStatuses, Column
<1>7. /\ rows' \in [DOMAIN rows' -> Row] /\ DOMAIN rows' \subseteq DOMAIN request
      /\ RowsAsked' /\ OneRowEach'
      /\ p \in DOMAIN rows' /\ rows'[p].status = "filled"
      /\ \A x \in DOMAIN rows' \ {p} : x \in DOMAIN rows /\ rows'[x] = rows[x]
      /\ \A x \in fills \ {p} : x \in DOMAIN rows'
  BY <1>1, <1>6, SaveOrderFacts DEF FillOnPaper
<1>8. TypeOK'
  BY <1>2, <1>5, <1>7 DEF FillOnPaper, TypeOK
<1>9. rows'[p].mode = "paper"
  BY <1>1, <1>7 DEF RowsAsked
<1>10. FillsHaveOrders'
  BY <1>7, <1>9 DEF FillOnPaper, RowsInv, FillsHaveOrders
<1>11. Settled'
  <2>1. p \in Placements
    BY DEF TypeOK
  <2>2. stage'[p] = "done" /\ \A x \in Placements \ {p} : stage'[x] = stage[x]
    BY <1>1, <2>1 DEF TypeOK
  <2>. QED
    BY <1>7, <2>2 DEF FillOnPaper, RowsInv, Settled, TypeOK
<1>. QED
  BY <1>5, <1>7, <1>8, <1>10, <1>11 DEF RowsInv

LEMMA ResumeKeeps ==
  ASSUME IInv, NEW p \in DOMAIN request, Resume(p)
  PROVE  IInv'
<1>. USE DEF Step
<1>0. /\ {"done", "connecting", "sending"} \subseteq Stages \ {"new"}
      /\ {"submitted", "acknowledged", "rejected"} \subseteq RowStatuses \ {"filled"}
      /\ "null" \in Column /\ "set" \in Column /\ "null" # "set"
      /\ connected \in BOOLEAN
  BY DEF Stages, RowStatuses, Column, IInv, TypeOK
<1>1. CASE RejectByRisk(p)
  BY <1>0, <1>1, SavingKeeps DEF RejectByRisk
<1>2. CASE FailToSave(p)
  BY <1>0, <1>2, SavingKeeps DEF FailToSave
<1>3. ASSUME NEW priced \in BOOLEAN, FillOnPaper(p, priced)
      PROVE  IInv'
  BY <1>3, FillOnPaperKeeps
<1>4. ASSUME NEW priced \in BOOLEAN, RejectOnPaper(p, priced)
      PROVE  IInv'
  BY <1>0, <1>4, SavingKeeps DEF RejectOnPaper
<1>5. ASSUME NEW priced \in BOOLEAN, SubmitLive(p, priced)
      PROVE  IInv'
  BY <1>0, <1>5, SavingKeeps DEF SubmitLive
<1>6. CASE Connected(p)
  BY <1>0, <1>6, SavingKeeps DEF Connected
<1>7. CASE NotConnected(p)
  BY <1>0, <1>7, SavingKeeps DEF NotConnected
<1>8. CASE Accepted(p)
  BY <1>0, <1>8, SavingKeeps DEF Accepted
<1>9. CASE NotAccepted(p)
  BY <1>0, <1>9, SavingKeeps DEF NotAccepted
<1>. QED
  BY <1>1, <1>2, <1>3, <1>4, <1>5, <1>6, <1>7, <1>8, <1>9 DEF Resume

(* Marking a row that is not filled as canceled.                           *)
LEMMA CanceledFacts ==
  ASSUME TypeOK, NEW o \in Placements, Canceled(o)
  PROVE  /\ rows' \in [DOMAIN rows' -> Row] /\ DOMAIN rows' = DOMAIN rows
         /\ \A x \in DOMAIN rows \ {o} : rows'[x] = rows[x]
         /\ \A x \in DOMAIN rows : /\ rows'[x].client = rows[x].client
                                  /\ rows'[x].mode = rows[x].mode
                                  /\ rows'[x].brokerId = rows[x].brokerId
         /\ o \in DOMAIN rows => rows'[o].status = "canceled"
<1>1. \A x \in DOMAIN rows : rows[x] \in Row
  BY DEF TypeOK
<1>2. "canceled" \in RowStatuses
  BY DEF RowStatuses
<1>3. CASE o \in DOMAIN rows
  <2>1. rows' = [rows EXCEPT ![o] = [rows[o] EXCEPT !.status = "canceled"]]
    BY <1>3 DEF Canceled
  <2> DEFINE row == [rows[o] EXCEPT !.status = "canceled"]
  <2>2. row \in Row /\ row.client = rows[o].client /\ row.mode = rows[o].mode
        /\ row.brokerId = rows[o].brokerId /\ row.status = "canceled"
    BY <1>1, <1>2, <1>3 DEF Row
  <2>3. rows' = [rows EXCEPT ![o] = row]
    BY <2>1
  <2>. HIDE DEF row
  <2>. QED
    BY <1>3, <2>2, <2>3 DEF TypeOK
<1>4. CASE o \notin DOMAIN rows
  BY <1>4 DEF Canceled, TypeOK
<1>. QED
  BY <1>3, <1>4

LEMMA CanceledKeeps ==
  ASSUME TypeOK, RowsInv, NEW o \in Placements, o \notin fills, Canceled(o), cancels' \subseteq cancels,
         UNCHANGED <<stage, request, fills>>
  PROVE  RowsInv'
<1>1. /\ DOMAIN rows' = DOMAIN rows
      /\ \A x \in DOMAIN rows \ {o} : rows'[x] = rows[x]
      /\ \A x \in DOMAIN rows : /\ rows'[x].client = rows[x].client
                               /\ rows'[x].mode = rows[x].mode
                               /\ rows'[x].brokerId = rows[x].brokerId
      /\ o \in DOMAIN rows => rows'[o].status = "canceled"
  BY Zenon, CanceledFacts
<1>2. RowsAsked' /\ OneRowEach'
  BY <1>1 DEF RowsInv, RowsAsked, OneRowEach
<1>3. Settled' /\ FillsHaveOrders'
  BY <1>1 DEF RowsInv, Settled, FillsHaveOrders
<1>. QED
  BY <1>2, <1>3 DEF RowsInv

LEMMA CancelOrderKeeps ==
  ASSUME IInv, NEW o \in DOMAIN rows, CancelOrder(o)
  PROVE  IInv'
<1>. USE DEF IInv
<1>1. o \in Placements /\ o \in DOMAIN request /\ o \notin fills
  BY DEF CancelOrder, Cancelable, RowsInv, FillsHaveOrders, TypeOK
<1>2. CASE rows[o].mode = "live" /\ rows[o].brokerId = "set"
  <2>1. request[o].mode = "live"
    BY <1>2 DEF RowsInv, RowsAsked
  <2>2. TypeOK'
    BY <1>1, <1>2 DEF CancelOrder, TypeOK, PaperTypeOK, paperVars
  <2>3. RowsInv'
    BY <1>2, <2>1 DEF CancelOrder, RowsInv, RowsAsked, OneRowEach, Settled, FillsHaveOrders
  <2>. QED
    BY <2>2, <2>3 DEF CancelOrder, PositionsBounded, paperVars
<1>3. CASE ~(rows[o].mode = "live" /\ rows[o].brokerId = "set")
  <2>1. Canceled(o) /\ UNCHANGED cancels
    BY <1>3 DEF CancelOrder
  <2>2. TypeOK'
    BY <1>1, <2>1, CanceledFacts DEF CancelOrder, TypeOK, PaperTypeOK, paperVars
  <2>3. RowsInv'
    BY <1>1, <2>1, CanceledKeeps DEF CancelOrder
  <2>. QED
    BY <2>2, <2>3 DEF CancelOrder, PositionsBounded, paperVars
<1>. QED
  BY <1>2, <1>3

LEMMA CancelAnsweredKeeps ==
  ASSUME IInv, NEW o \in cancels, CancelConfirmed(o) \/ CancelFailed(o)
  PROVE  IInv'
<1>. USE DEF IInv
<1>1. CASE CancelConfirmed(o)
  <2>1. o \in Placements /\ o \notin fills
    BY DEF TypeOK, RowsInv, RowsAsked, Settled, FillsHaveOrders
  <2>2. TypeOK'
    BY <1>1, <2>1, CanceledFacts DEF CancelConfirmed, TypeOK, PaperTypeOK, paperVars
  <2>3. RowsInv'
    BY <1>1, <2>1, CanceledKeeps DEF CancelConfirmed
  <2>. QED
    BY <1>1, <2>2, <2>3 DEF CancelConfirmed, PositionsBounded, paperVars
<1>2. CASE CancelFailed(o)
  <2>1. TypeOK'
    BY <1>2 DEF CancelFailed, TypeOK, PaperTypeOK, paperVars
  <2>2. RowsInv'
    BY <1>2 DEF CancelFailed, RowsInv, RowsAsked, OneRowEach, Settled, FillsHaveOrders
  <2>. QED
    BY <1>2, <2>1, <2>2 DEF CancelFailed, PositionsBounded, paperVars
<1>. QED
  BY <1>1, <1>2

LEMMA RestartKeeps ==
  ASSUME IInv, Restart
  PROVE  IInv'
<1>. USE DEF IInv
<1>1. TypeOK'
  <2>1. stage' \in [Placements -> Stages] /\ \A x \in Placements : stage'[x] # "new" <=> stage[x] # "new"
    BY DEF Restart, TypeOK, Stages
  <2>2. PaperTypeOK'
    <3>1. positions' \in [Symbols -> Int]
      BY DEF Restart
    <3>2. otherFills' \subseteq Symbols /\ paperKill' \in BOOLEAN
      BY Zenon DEF Restart
    <3>. QED
      BY <3>1, <3>2 DEF PaperTypeOK
  <2>3. DOMAIN request' = {x \in Placements : stage'[x] # "new"}
    BY <2>1 DEF Restart, TypeOK
  <2>. QED
    BY <2>1, <2>2, <2>3 DEF Restart, TypeOK
<1>2. PositionsBounded'
  BY GuardAssumption DEF Restart, PositionsBounded, Magnitude
<1>3. \A x \in Placements : stage[x] = "done" => stage'[x] = "done"
  BY DEF Restart
<1>4. RowsInv'
  BY <1>3 DEF Restart, TypeOK, RowsInv, RowsAsked, OneRowEach, Settled, FillsHaveOrders
<1>. QED
  BY <1>1, <1>2, <1>4

LEMMA NextKeeps ==
  ASSUME IInv, [Next]_vars
  PROVE  IInv'
<1>1. ASSUME NEW p \in Placements, NEW r \in Requests, PlaceOrder(p, r)
      PROVE  IInv'
  BY <1>1, RequestAssumption, PlaceOrderKeeps
<1>2. ASSUME NEW p \in DOMAIN request, Resume(p)
      PROVE  IInv'
  BY <1>2, ResumeKeeps
<1>3. ASSUME NEW o \in DOMAIN rows, CancelOrder(o)
      PROVE  IInv'
  BY <1>3, CancelOrderKeeps
<1>4. ASSUME NEW o \in cancels, CancelConfirmed(o) \/ CancelFailed(o)
      PROVE  IInv'
  BY <1>4, CancelAnsweredKeeps
<1>5. ASSUME NEW on \in BOOLEAN, SetKillSwitch(on)
      PROVE  IInv'
  BY <1>5 DEF SetKillSwitch, IInv, TypeOK, PaperTypeOK, paperVars, PositionsBounded,
              RowsInv, RowsAsked, OneRowEach, Settled, FillsHaveOrders
<1>6. ASSUME NEW p \in sent, BrokerAccepts(p)
      PROVE  IInv'
  BY <1>6 DEF BrokerAccepts, IInv, TypeOK, PaperTypeOK, paperVars, PositionsBounded,
              RowsInv, RowsAsked, OneRowEach, Settled, FillsHaveOrders
<1>7. CASE PaperCall /\ UNCHANGED execVars
  <2>1. PaperTypeOK' /\ PositionsBounded'
    BY <1>7, PaperCallKeeps DEF IInv, TypeOK
  <2>. QED
    BY <1>7, <2>1 DEF execVars, IInv, TypeOK, RowsInv, RowsAsked, OneRowEach, Settled,
                      FillsHaveOrders
<1>8. CASE Restart
  BY <1>8, RestartKeeps
<1>9. CASE UNCHANGED vars
  BY <1>9 DEF vars, execVars, IInv, TypeOK, PaperTypeOK, PositionsBounded,
              RowsInv, RowsAsked, OneRowEach, Settled, FillsHaveOrders
<1>. QED
  BY <1>1, <1>2, <1>3, <1>4, <1>5, <1>6, <1>7, <1>8, <1>9 DEF Next

LEMMA InitHas ==
  ASSUME Init
  PROVE  IInv
<1>1. DOMAIN request = {} /\ DOMAIN rows = {} /\ fills = {} /\ cancels = {} /\ sent = {}
  BY DEF Init
<1>2. PaperTypeOK /\ PositionsBounded
  <2>1. positions \in [Symbols -> Int] /\ PositionsBounded
    BY GuardAssumption DEF Init, PaperInit, PositionsBounded, Magnitude
  <2>2. otherFills \subseteq Symbols /\ paperKill \in BOOLEAN
    BY Zenon DEF Init, PaperInit
  <2>. QED
    BY <2>1, <2>2 DEF PaperTypeOK
<1>3. stage \in [Placements -> Stages] /\ {p \in Placements : stage[p] # "new"} = {}
  BY DEF Init, Stages
<1>4. /\ request \in [DOMAIN request -> Request] /\ rows \in [DOMAIN rows -> Row]
      /\ broker \in [sent -> {"unseen", "working", "canceled"}]
  BY DEF Init
<1>5. TypeOK
  BY <1>1, <1>2, <1>3, <1>4 DEF Init, TypeOK
<1>6. RowsInv
  BY <1>1 DEF RowsInv, RowsAsked, OneRowEach, Settled, FillsHaveOrders
<1>. QED
  BY <1>2, <1>5, <1>6 DEF IInv

----------------------------------------------------------------------------
(* Theorems *)

(* The invariant the others follow from: rows repeat what was asked, a     *)
(* clientOrderId has one row, nothing under way has been filled.           *)
THEOREM Inductive == Spec => []IInv
<1>1. Init => IInv
  BY InitHas
<1>2. IInv /\ [Next]_vars => IInv'
  BY NextKeeps
<1>. QED
  BY <1>1, <1>2, PTL DEF Spec

(* Every variable keeps its type. *)
THEOREM TypeCorrect == Spec => []TypeOK
<1>1. IInv => TypeOK
  BY DEF IInv
<1>. QED
  BY <1>1, Inductive, PTL

(* No interleaving of orders of any side and quantity, closings, resets    *)
(* and restarts makes a position larger than the guard allows, or short    *)
(* with nothing but purchases and sales on record.                         *)
THEOREM PositionLimits == Spec => []PositionsBounded
<1>1. IInv => PositionsBounded
  BY DEF IInv
<1>. QED
  BY <1>1, Inductive, PTL

(* A recorded fill never loses its order to another placement. *)
THEOREM FillsKeepOrders == Spec => []FillsHaveOrders
<1>1. IInv => FillsHaveOrders
  BY DEF IInv, RowsInv
<1>. QED
  BY <1>1, Inductive, PTL

(* However many placements overlap under one clientOrderId, the paper      *)
(* engine's fills record at most one of them.                              *)
THEOREM OneFillEach == Spec => []FilledOnce
<1>1. IInv => FilledOnce
  BY DEF IInv, RowsInv, RowsAsked, OneRowEach, FillsHaveOrders, FilledOnce
<1>. QED
  BY <1>1, Inductive, PTL

(* The fills of the paper engine rest on orders of their own.              *)
THEOREM FillsAreKept == Spec => []FillsKept
<1>1. FillsHaveOrders /\ FilledOnce => FillsKept
  BY DEF FillsKept
<1>. QED
  BY <1>1, FillsKeepOrders, OneFillEach, PTL

(* A placement that saves its row leaves the final orders as they are.     *)
LEMMA SaveOrderLeavesFinal ==
  ASSUME TypeOK, RowsInv, NEW x \in DOMAIN request, Savable(x), stage[x] # "done",
         NEW status, NEW link, SaveOrder(x, status, link), NEW p \in DOMAIN rows
  PROVE  /\ rows[p].status = "filled" => p \in DOMAIN rows' /\ rows'[p] = rows[p]
         /\ rows[p].status = "canceled" /\ rows[p].brokerId = "set" /\ p \in DOMAIN rows'
              => rows'[p].status = "canceled"
<1>1. /\ DOMAIN rows' = (DOMAIN rows \ Conflicts(x)) \cup {x}
      /\ \A y \in DOMAIN rows' \ {x} : rows'[y] = rows[y]
  BY DEF SaveOrder
<1>2. rows[p].brokerId = "set" \/ p \in fills => p # x
  BY DEF RowsInv, Settled
<1>3. rows[p].status = "filled" => p \in fills
  BY DEF RowsInv, Settled
<1>4. p \in fills => p \notin Conflicts(x)
  BY DEF Savable
<1>. QED
  BY <1>1, <1>2, <1>3, <1>4

LEMMA NextLeavesFinal ==
  ASSUME IInv, [Next]_vars, NEW p \in DOMAIN rows
  PROVE  /\ rows[p].status = "filled" => p \in DOMAIN rows' /\ rows'[p] = rows[p]
         /\ rows[p].status = "canceled" /\ rows[p].brokerId = "set" /\ p \in DOMAIN rows'
              => rows'[p].status = "canceled"
<1> DEFINE Left == /\ rows[p].status = "filled" => p \in DOMAIN rows' /\ rows'[p] = rows[p]
                   /\ /\ rows[p].status = "canceled" /\ rows[p].brokerId = "set"
                      /\ p \in DOMAIN rows'
                      => rows'[p].status = "canceled"
<1>0. SUFFICES Left
  OBVIOUS
<1>. USE DEF IInv
<1>1. ASSUME UNCHANGED rows
      PROVE  Left
  BY <1>1
<1>2. ASSUME NEW x \in Placements, NEW r \in Request, PlaceOrder(x, r), ~UNCHANGED rows
      PROVE  Left
  <2>1. x \notin DOMAIN rows
    BY <1>2 DEF PlaceOrder, Step, TypeOK
  <2>2. rows'[p] = rows[p] /\ p \in DOMAIN rows'
    BY <1>2, <2>1 DEF PlaceOrder, Added
  <2>. QED
    BY <2>2
<1>3. ASSUME NEW x \in DOMAIN request, Resume(x), ~UNCHANGED rows
      PROVE  Left
  <2>1. /\ stage[x] # "done" /\ Savable(x)
        /\ \E status \in RowStatuses, link \in Column : SaveOrder(x, status, link)
    BY <1>3 DEF Resume, RejectByRisk, FailToSave, FillOnPaper, RejectOnPaper, SubmitLive,
                Connected, NotConnected, Accepted, NotAccepted, Step, RowStatuses, Column
  <2>2. PICK status \in RowStatuses, link \in Column : SaveOrder(x, status, link)
    BY <2>1
  <2>. QED
    BY <2>1, <2>2, SaveOrderLeavesFinal
<1>4. ASSUME NEW o \in Placements, Canceled(o), o \notin fills
      PROVE  Left
  <2>1. /\ DOMAIN rows' = DOMAIN rows
        /\ \A x \in DOMAIN rows \ {o} : rows'[x] = rows[x]
        /\ o \in DOMAIN rows => rows'[o].status = "canceled"
    BY <1>4, Zenon, CanceledFacts
  <2>2. rows[p].status = "filled" => p # o
    BY <1>4 DEF RowsInv, Settled
  <2>. QED
    BY <2>1, <2>2
<1>5. ASSUME NEW o \in DOMAIN rows, CancelOrder(o), ~UNCHANGED rows
      PROVE  Left
  <2>1. Canceled(o)
    BY <1>5 DEF CancelOrder
  <2>2. o \in Placements /\ o \notin fills
    BY <1>5 DEF CancelOrder, Cancelable, RowsInv, FillsHaveOrders, TypeOK
  <2>. QED
    BY <1>4, <2>1, <2>2
<1>6. ASSUME NEW o \in cancels, CancelConfirmed(o) \/ CancelFailed(o), ~UNCHANGED rows
      PROVE  Left
  <2>1. Canceled(o)
    BY <1>6 DEF CancelConfirmed, CancelFailed
  <2>2. o \in Placements /\ o \notin fills
    BY DEF TypeOK, RowsInv, RowsAsked, Settled, FillsHaveOrders
  <2>. QED
    BY <1>4, <2>1, <2>2
<1>7. (\E on \in BOOLEAN : SetKillSwitch(on)) \/ (\E x \in sent : BrokerAccepts(x))
      \/ (PaperCall /\ UNCHANGED execVars) \/ Restart \/ UNCHANGED vars
      => UNCHANGED rows
  BY DEF SetKillSwitch, BrokerAccepts, execVars, Restart, vars
<1>. HIDE DEF Left
<1>. QED
  BY RequestAssumption, <1>1, <1>2, <1>3, <1>5, <1>6, <1>7 DEF Next

(* What was filled, or canceled at the gateway, no later answer, retry or  *)
(* restart brings back.                                                    *)
THEOREM FinalRemains == Spec => FinalStays
<1>1. IInv /\ [Next]_vars =>
        [\A p \in DOMAIN rows :
           /\ rows[p].status = "filled" => p \in DOMAIN rows' /\ rows'[p] = rows[p]
           /\ rows[p].status = "canceled" /\ rows[p].brokerId = "set" /\ p \in DOMAIN rows'
                => rows'[p].status = "canceled"]_vars
  BY NextLeavesFinal
<1>. QED
  BY <1>1, Inductive, PTL DEF Spec, FinalStays
=============================================================================
