---------------------------- MODULE Registration ----------------------------
(***************************************************************************)
(* How a node is admitted to the network, on the node it registers with:   *)
(* the registration and approval documents, the links that are mailed, the *)
(* row that broadcastNodeJoin adds to this node's list, and the rows that  *)
(* messages of other nodes add to it.  Which messages come is left open    *)
(* here; what those of a join do to the other lists is in Network.         *)
(*                                                                         *)
(* One action is one database call with the code up to the next, and any   *)
(* number of requests run beside each other.  A request inserts at most    *)
(* one registration, or one approval per node, or one row: each is known   *)
(* by the request.  A link works whenever it is opened, and as often: that *)
(* it expires is not modelled.                                             *)
(***************************************************************************)
EXTENDS Naturals, FiniteSets

CONSTANTS
    Nodes,         \* node addresses
    Founders,      \* those on the list of this node from the start
    This,          \* the address of this node
    Requests,      \* bound: the requests of a behaviour
    Operations,    \* the kinds of request that are made
    Outages,       \* whether sending mail may fail
    MaxCrashes     \* bound: restarts of the API process

ASSUME NodesAssumption == Founders \subseteq Nodes /\ This \in Founders
ASSUME LimitsAssumption == Outages \in BOOLEAN /\ MaxCrashes \in Nat

VARIABLES
    reg,           \* registration documents, by the request that inserted them
    linked,        \* registrations whose link to verify-email was mailed
    approval,      \* status of the approvals, by initiating request and node asked
    mailed,        \* approvals whose link was mailed
    members,       \* founders still on the list
    joined,        \* rows added to the list by approve, by the request that did
    heard,         \* rows added for a message of another node, likewise
    pc,            \* where each request is
    job,           \* the registration and the address it is about, the nodes it asks
    crashes,
    yes,           \* history: approvals that were ever approved
    met,           \* history: registrations that requests met on, see Start
    crossed,       \* history: addresses that two requests added at once
    gone           \* history: addresses that were removed from the list

requestVars == <<pc, job, crashes>>
registrationVars == <<reg, linked>>
approvalVars == <<approval, mailed, yes>>
listVars == <<members, joined, heard, crossed, gone>>
vars == <<registrationVars, approvalVars, listVars, requestVars, met>>

RegistrationStatus == {"pendingInitiation", "pendingApproval", "approved", "rejected", "cancelled"}
ApprovalStatus == {"pendingApproval", "approved", "rejected"}
Document == [addr: Nodes, status: RegistrationStatus, verified: BOOLEAN]
Absent == [status |-> "absent"]
Approvals == Requests \X Nodes
Unset == "unset"
Places == {"idle", "cancel", "insert", "pend", "nodes", "ask", "tally", "reject", "accept",
           "join", "add", "row", "hear", "note", "done"}
Jobs == [reg: Requests, addr: Nodes, asked: SUBSET Nodes]

TypeOK ==
    /\ reg \in [Requests -> Document \cup {Absent}]
    /\ approval \in [Approvals -> ApprovalStatus \cup {Unset}]
    /\ linked \subseteq Requests /\ joined \subseteq Requests
    /\ heard \subseteq Requests /\ met \subseteq Requests
    /\ mailed \subseteq Approvals /\ yes \subseteq Approvals
    /\ members \subseteq Founders /\ crossed \subseteq Nodes /\ gone \subseteq Nodes
    /\ pc \in [Requests -> Places]
    /\ job \in [Requests -> Jobs]
    /\ crashes \in 0..MaxCrashes

Exists(g) == reg[g] # Absent
\* The approvals of a registration, and whether the list has a row of an address.
Of(g) == {p \in Approvals : approval[p] # Unset /\ job[p[1]].reg = g}
Row(q) == job[q].addr
Rows == joined \cup heard
Listed(a) == a \in members \/ \E q \in Rows : Row(q) = a
\* A request that works on a registration; one that hears of a node does not.
InProgress(q) == pc[q] \notin {"idle", "done", "hear", "note"}
Busy(g) == \E q \in Requests : InProgress(q) /\ (job[q].reg = g \/ job[q].addr = reg[g].addr)

Go(q, place) == pc' = [pc EXCEPT ![q] = place] /\ UNCHANGED <<job, crashes>>
Begin(q, kind, j, place) ==
    /\ kind \in Operations
    /\ pc[q] = "idle"
    /\ pc' = [pc EXCEPT ![q] = place]
    /\ job' = [job EXCEPT ![q] = j]
    /\ UNCHANGED crashes
\* A request q about a registration begins; it meets those in progress about it.
Start(q, kind, j, place) ==
    /\ Begin(q, kind, j, place)
    /\ met' = met \cup {g \in Requests : Exists(g) /\ reg[g].addr = j.addr /\ Busy(g)}
WithStatus(g, s) == reg' = [reg EXCEPT ![g].status = s] /\ UNCHANGED linked
Sent(ok) == ok \/ Outages

Known(a) == {g \in Requests : Exists(g) /\ reg[g].addr = a}

\* processRegistration: no node has a nodeAddress, the node is taken for unknown.
Register(q, a) ==
    /\ Start(q, "register", [reg |-> q, addr |-> a, asked |-> {}],
             IF Known(a) = {} THEN "insert" ELSE "cancel")
    /\ UNCHANGED <<registrationVars, approvalVars, listVars>>

RegisterCancel(q) ==
    /\ pc[q] = "cancel"
    /\ reg' = [g \in Requests |-> IF g \in Known(job[q].addr)
                                  THEN [reg[g] EXCEPT !.status = "cancelled"] ELSE reg[g]]
    /\ Go(q, "insert")
    /\ UNCHANGED <<linked, approvalVars, listVars, met>>

\* The mail with the link follows the insertion and may fail.
RegisterInsert(q) ==
    /\ pc[q] = "insert"
    /\ reg' = [reg EXCEPT ![q] = [addr |-> job[q].addr, status |-> "pendingInitiation",
                                  verified |-> FALSE]]
    /\ \E ok \in {x \in BOOLEAN : Sent(x)} : linked' = IF ok THEN linked \cup {q} ELSE linked
    /\ Go(q, "done")
    /\ UNCHANGED <<approvalVars, listVars, met>>

VerifyEmail(g) ==
    /\ g \in linked
    /\ reg' = [reg EXCEPT ![g].verified = TRUE]
    /\ UNCHANGED <<linked, approvalVars, listVars, requestVars, met>>

\* initiateApprovals, at first its look at the registration.
MayInitiate(g) == reg[g].verified /\ reg[g].status # "approved"

Initiate(q, g) ==
    /\ g \in linked
    /\ Start(q, "initiate", [reg |-> g, addr |-> reg[g].addr, asked |-> {}],
             IF MayInitiate(g) THEN "pend" ELSE "done")
    /\ UNCHANGED <<registrationVars, approvalVars, listVars>>

InitiatePend(q) ==
    /\ pc[q] = "pend"
    /\ WithStatus(job[q].reg, "pendingApproval")
    /\ Go(q, "nodes")
    /\ UNCHANGED <<approvalVars, listVars, met>>

\* Mutant of InitiateNodes: this node does not ask itself.
InitiateOtherNodes(q) ==
    /\ pc[q] = "nodes"
    /\ pc' = [pc EXCEPT ![q] = "ask"]
    /\ job' = [job EXCEPT ![q].asked = {a \in Nodes : Listed(a)} \ {This}]
    /\ UNCHANGED <<registrationVars, approvalVars, listVars, crashes, met>>

InitiateNodes(q) ==
    /\ pc[q] = "nodes"
    /\ pc' = [pc EXCEPT ![q] = "ask"]
    /\ job' = [job EXCEPT ![q].asked = {a \in Nodes : Listed(a)}]
    /\ UNCHANGED <<registrationVars, approvalVars, listVars, crashes, met>>

\* One approval for every node, then a mail for each approval there is, until
\* one cannot be sent.
InitiateAsk(q) ==
    /\ pc[q] = "ask"
    /\ approval' = [p \in Approvals |-> IF p[1] = q /\ p[2] \in job[q].asked
                                        THEN "pendingApproval" ELSE approval[p]]
    /\ LET all == Of(job[q].reg) \cup ({q} \X job[q].asked)
       IN \E some \in SUBSET all :
              (some = all \/ Outages) /\ mailed' = mailed \cup some
    /\ Go(q, "done")
    /\ UNCHANGED <<registrationVars, yes, listVars, met>>

\* Mutant of Approve: a refusal takes another value of the enum.
ApproveOrCancel(q, p, approved) ==
    /\ p \in mailed
    /\ LET g == job[p[1]].reg IN
           Start(q, "approve", [reg |-> g, addr |-> reg[g].addr, asked |-> {}], "tally")
    /\ approval' = [approval EXCEPT ![p] = IF approved THEN "approved" ELSE "cancelled"]
    /\ yes' = IF approved THEN yes \cup {p} ELSE yes
    /\ UNCHANGED <<mailed, registrationVars, listVars>>

\* approve: an approver opens the link of approval p and answers.
Approve(q, p, approved) ==
    /\ p \in mailed
    /\ LET g == job[p[1]].reg IN
           Start(q, "approve", [reg |-> g, addr |-> reg[g].addr, asked |-> {}], "tally")
    /\ approval' = [approval EXCEPT ![p] = IF approved THEN "approved" ELSE "rejected"]
    /\ yes' = IF approved THEN yes \cup {p} ELSE yes
    /\ UNCHANGED <<mailed, registrationVars, listVars>>

\* Mutants of Verdict: one approval is enough; a rejection is not looked for.
VerdictOfOne(g) ==
    IF \E p \in Of(g) : approval[p] = "rejected" THEN "reject"
    ELSE IF \E p \in Of(g) : approval[p] = "approved" THEN "accept" ELSE "done"
VerdictOfAll(g) == IF \A p \in Of(g) : approval[p] = "approved" THEN "accept" ELSE "done"

Verdict(g) ==
    IF \E p \in Of(g) : approval[p] = "rejected" THEN "reject"
    ELSE IF \A p \in Of(g) : approval[p] = "approved" THEN "accept" ELSE "done"

ApproveTally(q) ==
    /\ pc[q] = "tally"
    /\ Go(q, Verdict(job[q].reg))
    /\ UNCHANGED <<registrationVars, approvalVars, listVars, met>>

ApproveReject(q) ==
    /\ pc[q] = "reject"
    /\ WithStatus(job[q].reg, "rejected")
    /\ Go(q, "done")
    /\ UNCHANGED <<approvalVars, listVars, met>>

\* The mail about it comes first: when it fails nobody joins.
ApproveAccept(q) ==
    /\ pc[q] = "accept"
    /\ WithStatus(job[q].reg, "approved")
    /\ \E ok \in {x \in BOOLEAN : Sent(x)} :
           /\ Go(q, IF ok THEN "join" ELSE "done")
           /\ met' = IF ok THEN met ELSE met \cup {job[q].reg}
    /\ UNCHANGED <<approvalVars, listVars>>

\* broadcastNodeJoin, its own look for the node.
Join(q) ==
    /\ pc[q] = "join"
    /\ Go(q, IF Listed(job[q].addr) THEN "done" ELSE "add")
    /\ UNCHANGED <<registrationVars, approvalVars, listVars, met>>

\* receiveMessage: a nodeJoined, its signature checked, or one node of a
\* nodeList, which is stored before its signature is looked at.
Hear(q, a) ==
    /\ Begin(q, "hear", [reg |-> q, addr |-> a, asked |-> {}], "hear")
    /\ UNCHANGED <<registrationVars, approvalVars, listVars, met>>

\* addNode of either: it looks (again) and inserts.
After == [add |-> "row", hear |-> "note"]
Inserting(q, a) == pc[q] \in {"row", "note"} /\ Row(q) = a
Crossing(a) == crossed \cup {b \in {a} : \E r \in Requests : Inserting(r, b)}

\* Mutant of Add: no look before the insertion.
AddUnseen(q) ==
    /\ pc[q] \in {"add", "hear"}
    /\ Go(q, After[pc[q]])
    /\ crossed' = Crossing(Row(q))
    /\ UNCHANGED <<registrationVars, approvalVars, members, joined, heard, gone, met>>

Add(q) ==
    /\ pc[q] \in {"add", "hear"}
    /\ Go(q, IF Listed(Row(q)) THEN "done" ELSE After[pc[q]])
    /\ crossed' = Crossing(Row(q))
    /\ UNCHANGED <<registrationVars, approvalVars, members, joined, heard, gone, met>>

AddRow(q) ==
    /\ pc[q] = "row"
    /\ joined' = joined \cup {q}
    /\ Go(q, "done")
    /\ UNCHANGED <<registrationVars, approvalVars, members, heard, crossed, gone, met>>

Note(q) ==
    /\ pc[q] = "note"
    /\ heard' = heard \cup {q}
    /\ Go(q, "done")
    /\ UNCHANGED <<registrationVars, approvalVars, members, joined, crossed, gone, met>>

\* removeNode of the node controller, or for a message; the local node is refused.
Remove(a) ==
    /\ "remove" \in Operations
    /\ a # This
    /\ members' = members \ {a}
    /\ joined' = {q \in joined : Row(q) # a}
    /\ heard' = {q \in heard : Row(q) # a}
    /\ gone' = gone \cup {a}
    /\ UNCHANGED <<registrationVars, approvalVars, crossed, requestVars, met>>

\* The process restarts: the requests under way are lost, the documents stay.
Crash ==
    /\ crashes < MaxCrashes
    /\ crashes' = crashes + 1
    /\ pc' = [q \in Requests |-> IF pc[q] = "idle" THEN "idle" ELSE "done"]
    /\ met' = met \cup {g \in Requests : Exists(g) /\ Busy(g)}
    /\ UNCHANGED <<registrationVars, approvalVars, listVars, job>>

Init ==
    /\ reg = [q \in Requests |-> Absent]
    /\ linked = {} /\ mailed = {} /\ yes = {}
    /\ approval = [p \in Approvals |-> Unset]
    /\ members = Founders /\ joined = {} /\ heard = {} /\ crossed = {} /\ gone = {}
    /\ pc = [q \in Requests |-> "idle"]
    /\ job = [q \in Requests |-> [reg |-> q, addr |-> This, asked |-> {}]]
    /\ crashes = 0 /\ met = {}

Step(q) ==
    \/ RegisterCancel(q) \/ RegisterInsert(q)
    \/ InitiatePend(q) \/ InitiateNodes(q) \/ InitiateAsk(q)
    \/ ApproveTally(q) \/ ApproveReject(q) \/ ApproveAccept(q)
    \/ Join(q) \/ Add(q) \/ AddRow(q) \/ Note(q)

Next ==
    \/ \E q \in Requests, a \in Nodes : Register(q, a) \/ Hear(q, a)
    \/ \E q, g \in Requests : Initiate(q, g)
    \/ \E q \in Requests, p \in Approvals, approved \in BOOLEAN : Approve(q, p, approved)
    \/ \E q \in Requests : Step(q)
    \/ \E g \in Requests : VerifyEmail(g)
    \/ \E a \in Nodes : Remove(a)
    \/ Crash

Spec == Init /\ [][Next]_vars
-----------------------------------------------------------------------------
\* The approvals that one click on the link of a registration asked for.
Batch(i) == {p \in Approvals : p[1] = i /\ approval[p] # Unset}

\* This node admits nobody unless everybody who was asked has said yes: behind
\* every row that approve adds, though not behind one heard of, is a verified
\* registration and a round of approvals of it each of which was approved at some
\* time (registration.service.ts:206).
JoinsAreAgreed ==
    \A q \in joined :
        LET g == job[q].reg IN
        /\ Exists(g) /\ reg[g].verified /\ reg[g].addr = Row(q)
        /\ \E i \in Requests : job[i].reg = g /\ Batch(i) # {} /\ Batch(i) \subseteq yes

\* Where no two requests met and none was cut short, the status of a
\* registration is what its approvals say: approved with all of them and a row
\* on the list, rejected without all of them (an answer can be taken back, so
\* there may be no rejection left), pending while an answer is missing.
VerdictSettles ==
    \A g \in Requests \ met :
        Exists(g) /\ ~Busy(g) =>
            /\ reg[g].status = "approved" =>
                   /\ Of(g) # {} /\ \A p \in Of(g) : approval[p] = "approved"
                   /\ Listed(reg[g].addr) \/ reg[g].addr \in gone
            /\ reg[g].status = "rejected" => \E p \in Of(g) : approval[p] # "approved"
            /\ reg[g].status = "pendingApproval" =>
                   \E p \in Of(g) : approval[p] = "pendingApproval"

\* The list names a node once, unless two requests were between the look and
\* the insertion of addNode with it at the same time (node.service.ts:37).
ListedOnce ==
    \A a \in Nodes \ crossed :
        /\ a \in members => \A q \in Rows : Row(q) # a
        /\ \A q, r \in Rows : Row(q) = a /\ Row(r) = a => q = r

\* What the documents show of the admission of nodes.
Confirmed == {a \in Nodes : \E g \in Known(a) : reg[g].verified}
Asked(i) == [about |-> IF job[i].asked = {} THEN This ELSE job[i].addr, asked |-> job[i].asked]
Own == {a \in Nodes : a \in members \/ \E q \in joined : Row(q) = a}
Told == {Row(q) : q \in heard}

Admitted == INSTANCE Admission WITH
    Home <- This, Rounds <- Requests, confirmed <- Confirmed,
    round <- [i \in Requests |-> Asked(i)], agreed <- yes, admitted <- Own, told <- Told

\* Whatever requests overlap, links are opened again and restarts cut short, the
\* node does on its own account only what the members were told: each round asks
\* all who are on the list when it begins, admitted or heard of, only they answer
\* in it, and a node is admitted only by a round in which all of them said yes.
\* What other nodes tell it, it lists without asking anybody.
ImplementsAdmission == Admitted!Spec

\* A node on the list is not registered again: "Node already registered"
\* (registration.service.ts:52).
MembersAreKnown ==
    [][\A q \in Requests :
           pc[q] = "idle" /\ pc'[q] \in {"insert", "cancel"} => ~Listed(job'[q].addr)]_vars
=============================================================================
