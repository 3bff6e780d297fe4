--------------------------- MODULE OrderLifecycle ---------------------------
(***************************************************************************)
(* What the order management system promises of every order: it is created *)
(* pending, follows the transition table, may be corrected from a broker   *)
(* poll only while it is open, and keeps a terminal status for ever.       *)
(* One step may move several orders (a cancel that cascades, one poll).    *)
(***************************************************************************)
EXTENDS OrderStatus

CONSTANTS
  OrderIds,
  Corrections    \* statuses a broker poll may put an open order in

VARIABLE status  \* from the orders that exist to their statuses

Init == status = [o \in {} |-> "pending"]

Allowed(from, to) ==
  \/ from = to
  \/ CanTransition(from, to)
  \/ from \in Open /\ to \in Corrections

Step ==
  /\ DOMAIN status \subseteq DOMAIN status'
  /\ \A o \in DOMAIN status : Allowed(status[o], status'[o])
  /\ \A o \in DOMAIN status' \ DOMAIN status : o \in OrderIds /\ status'[o] = "pending"

Spec == Init /\ [][Step]_status
=============================================================================
