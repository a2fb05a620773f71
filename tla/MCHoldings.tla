----------------------------- MODULE MCHoldings -----------------------------
(* Instances of Holdings.  The one sum the chain reports is exactly enough  *)
(* for the first body, 9 of 10, and one short of enough for the second.     *)
EXTENDS Holdings, TLC

MCBodies ==
    {[total |-> 10, customers |-> Customers], [total |-> 11, customers |-> Customers]}

MCSums == {9}

Symmetry == Permutations(Requests)
=============================================================================
