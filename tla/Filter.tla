------------------------------- MODULE Filter -------------------------------
(***************************************************************************)
(* Filtered lists, as several modules of the server make them.  What stays *)
(* is given by a set, not by an operator as in SelectSeq, so that          *)
(* ListProofs can prove facts about the result for every list.             *)
(***************************************************************************)
EXTENDS Naturals, Sequences

(* The elements of the list that are in S, in their order. *)
Filtered(list, S) ==
  LET upTo[n \in 0 .. Len(list)] ==
        IF n = 0 THEN <<>>
        ELSE IF list[n] \in S THEN Append(upTo[n - 1], list[n]) ELSE upTo[n - 1]
  IN  upTo[Len(list)]
=============================================================================
