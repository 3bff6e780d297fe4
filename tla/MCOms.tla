------------------------------- MODULE MCOms -------------------------------
(* Instances of the order management system for TLC. *)
EXTENDS Oms, TLC

CONSTANTS o1, o2, c1, c2

Leg      == {<<o2, o1>>}   \* o2 may be created as a leg of o1
NoFamily == {}

Signed   == {-1, 2}        \* orders for less than nothing are accepted too
Amounted == {-1, 0, 1, 2}   \* and fills of nothing, or of less

ClientSymmetry == Permutations(ClientIds)
=============================================================================
