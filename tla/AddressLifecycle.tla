-------------------------- MODULE AddressLifecycle --------------------------
(***************************************************************************)
(* What the collection of funding addresses promises to who watches the    *)
(* status of its documents: the moves a call can make, on any number of    *)
(* documents at once, and those it never makes.                            *)
(***************************************************************************)
CONSTANT Ids        \* ids of documents

VARIABLE state      \* the status of each, or "absent", or "gone" when deleted

Present == {"pending", "active", "failed", "cancelled"}

Init == state \in [Ids -> {"absent"} \cup Present]

\* The documents S, all in states From, move to "to".
Move(S, From, to) ==
    /\ \A id \in S : state[id] \in From
    /\ state' = [id \in Ids |-> IF id \in S THEN to ELSE state[id]]

Insert(S) == Move(S, {"absent"}, "pending")

\* A resubmission, or a refresh of balances.
Requeue(S) == Move(S, Present, "pending")

\* A balance has been read, or could not be.
Activate(S) == Move(S, Present, "active")
Fail(S) == Move(S, Present, "failed")

Cancel(S) == Move(S, {"pending"}, "cancelled")

Delete(S) == Move(S, Present, "gone")

Next ==
    \E S \in SUBSET Ids :
        Insert(S) \/ Requeue(S) \/ Activate(S) \/ Fail(S) \/ Cancel(S) \/ Delete(S)

Spec == Init /\ [][Next]_state

============================================================================
