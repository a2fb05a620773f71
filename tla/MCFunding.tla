----------------------------- MODULE MCFunding -----------------------------
(* Small instances of Funding for TLC. *)
EXTENDS Funding, TLC

CONSTANTS a1, a2, b1, m1, m2, r1, r2

Item1(a, m) == <<[addr |-> a, msg |-> m]>>

\* A first submission, one that replaces it, one on the other network, one whose
\* message names no block and one with a signature that does not verify.
MCSubmissions ==
    {[reset |-> FALSE, signed |-> TRUE, items |-> Item1(a1, m1) \o Item1(a2, m1)],
     [reset |-> TRUE, signed |-> TRUE, items |-> Item1(a2, m2)],
     [reset |-> FALSE, signed |-> TRUE, items |-> Item1(b1, m1)],
     [reset |-> TRUE, signed |-> FALSE, items |-> Item1(a1, m1)]}

MCSeed == 1 :> [exch |-> 1, addr |-> a1, msg |-> m1, status |-> "active", retry |-> 0, bal |-> 1]

Symmetry == Permutations({r1, r2})

============================================================================
