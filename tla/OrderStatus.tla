---------------------------- MODULE OrderStatus ----------------------------
(***************************************************************************)
(* The order statuses of the order management system and the transition    *)
(* table that guards them (server/oms/omsEngine.js).                       *)
(***************************************************************************)

Open     == {"pending", "submitted", "acknowledged", "partially_filled"}
Terminal == {"filled", "canceled", "rejected", "expired"}
Statuses == Open \cup Terminal \cup {"error"}

Transitions ==
  ({"pending"} \X {"submitted", "rejected", "canceled"})
  \cup ({"submitted"} \X {"acknowledged", "rejected", "canceled", "filled",
                          "partially_filled", "error"})
  \cup ({"acknowledged"} \X {"partially_filled", "filled", "canceled",
                             "rejected", "expired", "error"})
  \cup ({"partially_filled"} \X {"filled", "canceled", "expired", "error"})
  \cup ({"error"} \X {"submitted", "canceled"})

CanTransition(from, to) == from \notin Terminal /\ <<from, to>> \in Transitions
=============================================================================
