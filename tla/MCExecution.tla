---------------------------- MODULE MCExecution ----------------------------
(* Instances of order execution for TLC. *)
EXTENDS Execution, TLC

AnyRequest == Request
=============================================================================
