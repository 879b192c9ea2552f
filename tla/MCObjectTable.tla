---------------------------- MODULE MCObjectTable ----------------------------
(* Guest threads and addresses of objects are interchangeable. *)
EXTENDS ObjectTable, TLC

Symmetry == Permutations(Guests) \cup Permutations(Objects)
=============================================================================
