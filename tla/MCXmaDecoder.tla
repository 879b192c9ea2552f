----------------------------- MODULE MCXmaDecoder -----------------------------
(* Guest threads are interchangeable. *)
EXTENDS XmaDecoder, TLC

GuestSymmetry == Permutations(Guests)
=============================================================================
