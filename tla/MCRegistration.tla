--------------------------- MODULE MCRegistration ---------------------------
(* Instances of Registration.                                               *)
EXTENDS Registration, TLC

Symmetry == Permutations(Requests)
=============================================================================
