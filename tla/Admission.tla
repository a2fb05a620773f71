----------------------------- MODULE Admission -----------------------------
(***************************************************************************)
(* What registration promises to the members of the network: a node whose  *)
(* mail address is confirmed is put before everybody on the list, each is  *)
(* asked and may agree, and the node is admitted only when everybody who   *)
(* was asked together has agreed, whoever may open links, at what time and *)
(* how often.  What other nodes tell is no part of the promise: the node   *)
(* lists whom they name without a round, and asks them too from then on.   *)
(***************************************************************************)
CONSTANTS
    Nodes,         \* addresses of nodes
    Home,          \* the node that keeps the list
    Rounds         \* occasions on which the members are asked

VARIABLES
    confirmed,     \* nodes whose mail address was confirmed
    round,         \* each round: the node it is about, and whom it asks
    agreed,        \* who has agreed in which round, at some time
    admitted,      \* the nodes on the list of this node's own accord
    told           \* those on it because another node named them

listVars == <<admitted, told>>
vars == <<confirmed, round, agreed, listVars>>

NotYet == [about |-> Home, asked |-> {}]
Unanimous(i) == round[i] # NotYet /\ {i} \X round[i].asked \subseteq agreed

Init ==
    /\ confirmed = {} /\ agreed = {}
    /\ round = [i \in Rounds |-> NotYet]
    /\ admitted \subseteq Nodes /\ Home \in admitted /\ told = {}

Confirm(a) ==
    /\ confirmed' = confirmed \cup {a}
    /\ UNCHANGED <<round, agreed, listVars>>

\* Everybody on the list at this moment is asked, nobody else.
Ask(i, a) ==
    /\ round[i] = NotYet
    /\ a \in confirmed
    /\ round' = [round EXCEPT ![i] = [about |-> a, asked |-> admitted \cup told]]
    /\ UNCHANGED <<confirmed, agreed, listVars>>

Agree(i, b) ==
    /\ b \in round[i].asked
    /\ agreed' = agreed \cup {<<i, b>>}
    /\ UNCHANGED <<confirmed, round, listVars>>

Admit(a) ==
    /\ \E i \in Rounds : round[i].about = a /\ Unanimous(i)
    /\ admitted' = admitted \cup {a}
    /\ UNCHANGED <<confirmed, round, agreed, told>>

Hear(a) ==
    /\ told' = told \cup {a}
    /\ UNCHANGED <<confirmed, round, agreed, admitted>>

Remove(a) ==
    /\ a # Home
    /\ admitted' = admitted \ {a}
    /\ told' = told \ {a}
    /\ UNCHANGED <<confirmed, round, agreed>>

Next ==
    \/ \E a \in Nodes : Confirm(a) \/ Admit(a) \/ Hear(a) \/ Remove(a)
    \/ \E i \in Rounds, a \in Nodes : Ask(i, a) \/ Agree(i, a)

Spec == Init /\ [][Next]_vars
=============================================================================
