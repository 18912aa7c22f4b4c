--------------------------- MODULE MCVerification ---------------------------
(* Requests of one kind are interchangeable; no liveness is checked. *)
EXTENDS EmailVerification, TLC

Alike == Permutations(Registers) \cup Permutations(Resends) \cup Permutations(Verifiers)
=============================================================================
