----------------------------- MODULE MCClient ------------------------------
(* Two users of one browser tab. *)
EXTENDS Client, TLC

CONSTANTS u1, u2

\* The users are alike: with the two of them exchanged, every behaviour that begins
\* otherwise is one that begins like this.
MCInit == Init /\ session # u2 /\ (session = None /\ pending[u1] => pending[u2])
MCSpec == MCInit /\ [][Next]_vars /\ Fairness
=============================================================================
