----------------------------- MODULE MCNetwork -----------------------------
(* Instances of Network.                                                    *)
EXTENDS Network, TLC

Symmetry == Permutations(Nodes \ (Single \cup {Root}))
=============================================================================
