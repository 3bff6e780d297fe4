----------------------------- MODULE MCLookups -----------------------------
(* Yahoo, a provider with a key, a stub with a key and the demo; two       *)
(* lookups of one symbol.                                                  *)
EXTENDS Lookups, TLC

CONSTANTS yahoo, twelve, polygon, demo

MCSelections == {<<polygon, twelve, yahoo>>, <<yahoo, demo>>}
MCEnvironments == {[p \in {twelve, polygon} |-> "key"]}
MCSymmetry == Permutations(Lookups)
=============================================================================
