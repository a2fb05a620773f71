------------------------------ MODULE Network ------------------------------
(***************************************************************************)
(* How the nodes of the registry keep their lists of one another: a node   *)
(* that admits another sends it its own list and tells the rest, one that  *)
(* removes a node tells the rest, each message once and without a retry.   *)
(* Registration shows how an admission comes about.                        *)
(*                                                                         *)
(* A list is a set of addresses.  That a row is inserted twice is in       *)
(* Registration; unresponsive, lastSeen and the vote for a leader decide   *)
(* nothing here; a public key goes with its address and never changes, so  *)
(* that a signature is good if the receiver lists the sender.  One action  *)
(* is one database call of a sender with the code up to the next, or a     *)
(* receiver's handling of one message, which looks for a row and inserts   *)
(* it, as good as at once on a set.  Nothing in the code keeps a node from *)
(* starting a change while another of its own waits for the database or    *)
(* for an answer, so that a node may be at several, the same one twice     *)
(* included.                                                               *)
(***************************************************************************)
EXTENDS Naturals, FiniteSets

CONSTANTS
    Nodes,         \* node addresses
    Root,          \* the node the network grows from
    Single,        \* nodes configured as a single node service
    MaxChanges,    \* bound: admissions and removals of a behaviour
    MaxLosses,     \* bound: messages lost, and answers lost, on the way to a running node
    MaxCrashes     \* bound: restarts

ASSUME NodesAssumption == IsFiniteSet(Nodes) /\ Root \in Nodes /\ Single \subseteq Nodes
ASSUME BoundsAssumption == MaxChanges \in Nat /\ MaxLosses \in Nat /\ MaxCrashes \in Nat

VARIABLES
    list,          \* the rows of each node's nodes collection
    running,       \* nodes whose process is up
    job,           \* where each change, an admission or a removal by a node, has got to
    wire,          \* messages on the way
    members,       \* history: the nodes admitted to the network of Root
    odd,           \* history: x may be wrong about y, for the pairs <<x, y>>
    changes, losses, crashes

counters == <<changes, losses, crashes>>
vars == <<list, running, job, wire, members, odd, counters>>

Changes == 1..MaxChanges
Idle == [at |-> "idle"]
Job == [at: {"add", "list", "answer", "tell", "untell"}, by: Nodes, node: Nodes]
\* nodeJoined and removeNode name one node, nodeList names those of a list; a
\* message belongs to a change.
Message == [type: {"nodeJoined", "removeNode", "nodeList"}, of: Changes, from: Nodes,
            to: Nodes, data: SUBSET Nodes]
\* Nobody writes to itself, or tells a newcomer of itself.
Sound(m) == m.from # m.to /\ (m.type # "removeNode" => m.to \notin m.data)
Pairs == Nodes \X Nodes

TypeOK ==
    /\ list \in [Nodes -> SUBSET Nodes]
    /\ running \subseteq Nodes /\ members \subseteq Nodes
    /\ job \in [Changes -> Job \cup {Idle}]
    /\ wire \subseteq Message /\ \A m \in wire : Sound(m)
    /\ odd \subseteq Pairs
    /\ changes \in 0..MaxChanges /\ losses \in 0..MaxLosses /\ crashes \in 0..MaxCrashes

\* A change under way that has changed its node's list.
Working(j) == job[j].at \notin {"idle", "add"}
Of(n) == {j \in Changes : job[j] # Idle /\ job[j].by = n}
\* The node a message is news about, and all there is news about.
Subject(m) == IF m.type = "nodeList" THEN {m.to} ELSE m.data
Pending == {job[j].node : j \in {k \in Changes : Working(k)}} \cup UNION {Subject(m) : m \in wire}
AllAbout(ys) == (Nodes \X ys) \cup (ys \X Nodes)

Put(n, s) == list' = [list EXCEPT ![n] = s]
At(j, place) == job' = [job EXCEPT ![j].at = place]
Done(js) == job' = [j \in Changes |-> IF j \in js THEN Idle ELSE job[j]]
News(j, type, ns) == [type: {type}, of: {j}, from: {job[j].by}, to: ns, data: {{job[j].node}}]

\* Mutants of Broadcast: a network of two is taken for none; the sender is told.
BroadcastToMany(j, type) ==
    LET n == job[j].by  here == list[n] IN
        wire' = wire \cup
            IF Cardinality(here) <= 2 THEN {}
            ELSE News(j, type, here \ {n, IF type = "nodeJoined" THEN job[j].node ELSE n})
BroadcastToAll(j, type) ==
    LET here == list[job[j].by] IN
        wire' = wire \cup
            IF Cardinality(here) < 2 THEN {}
            ELSE News(j, type, here \ (IF type = "nodeJoined" THEN {job[j].node} ELSE {}))

\* sendBroadcastMessage: nobody is told when the sender is alone.
Broadcast(j, type) ==
    LET n == job[j].by  here == list[n] IN
        wire' = wire \cup
            IF Cardinality(here) < 2 THEN {}
            ELSE News(j, type, here \ {n, IF type = "nodeJoined" THEN job[j].node ELSE n})

\* Pairs that a change about y at n leaves in doubt.  Nodes that n does not list
\* hear nothing of it; a newcomer hears of the others what n has on its list,
\* and keeps its own.  Nodes admitted at a time may miss each other; where a
\* removal, a second admission or one by a newcomer overlaps, anything may, and
\* anything about the two where n itself was removed before it came to the row.
Unheard(n, y) == (members \ list[n]) \X {y}
Hearsay(n, y) == {y} \X ((members \ list[n]) \cup ((list[n] \cup list[y]) \ (members \cup {y})))
Removing == \/ \E j \in Changes : job[j].at = "untell"
            \/ \E m \in wire : m.type = "removeNode"
Together(n, y) ==
    IF n \notin members THEN AllAbout(Pending \cup {n, y})
    ELSE IF Pending # {} /\ (Removing \/ n \in Pending \/ y \in members)
         THEN AllAbout(Pending \cup {y}) ELSE ({y} \X Pending) \cup (Pending \X {y})
Overtaken(y) == IF Pending = {} THEN {} ELSE AllAbout(Pending \cup {y})

\* A change starts at n, whatever else n is at.
Start(n, place, y) ==
    /\ n \in running
    /\ changes < MaxChanges /\ changes' = changes + 1
    /\ job' = [job EXCEPT ![changes + 1] = [at |-> place, by |-> n, node |-> y]]
    /\ UNCHANGED <<running, wire, losses, crashes>>

\* broadcastNodeJoin looks for the newcomer, by a member: networks that grew
\* apart are not merged.
Join(n, y) ==
    /\ n \in members /\ y \notin list[n]
    /\ Start(n, "add", y)
    /\ UNCHANGED <<list, members, odd>>

\* addNode, which leaves a row that is there by now.
Add(j) ==
    /\ job[j].at = "add"
    /\ LET n == job[j].by  y == job[j].node IN
           /\ Put(n, list[n] \cup {y})
           /\ members' = IF n \in members THEN members \cup {y} ELSE members
           /\ odd' = odd \cup Unheard(n, y) \cup Hearsay(n, y) \cup Together(n, y)
    /\ At(j, "list")
    /\ UNCHANGED <<running, wire, counters>>

\* sendNodeListToNewJoiner, which waits for the answer.
SendList(j) ==
    /\ job[j].at = "list"
    /\ LET n == job[j].by  y == job[j].node IN
           wire' = wire \cup {[type |-> "nodeList", of |-> j, from |-> n, to |-> y,
                              data |-> list[n] \ {y}]}
    /\ At(j, "answer")
    /\ UNCHANGED <<list, running, members, odd, counters>>

Tell(j) ==
    /\ job[j].at = "tell"
    /\ Broadcast(j, "nodeJoined")
    /\ Done({j})
    /\ UNCHANGED <<list, running, members, odd, counters>>

\* removeNode of the node controller; the node itself is refused.
Remove(n, z) ==
    /\ n # z
    /\ Start(n, "untell", z)
    /\ Put(n, list[n] \ {z})
    /\ members' = IF n \in members THEN members \ {z} ELSE members
    /\ odd' = odd \cup (IF n \in members THEN Unheard(n, z) ELSE AllAbout({z})) \cup Overtaken(z)

Untell(j) ==
    /\ job[j].at = "untell"
    /\ Broadcast(j, "removeNode")
    /\ Done({j})
    /\ UNCHANGED <<list, running, members, odd, counters>>

\* The answer, or its absence, lets an admission go on.
Answered(m) ==
    IF m.type = "nodeList" /\ job[m.of].at = "answer" THEN At(m.of, "tell") ELSE UNCHANGED job

\* Mutants: the signature is checked before the merge; a node told to remove
\* itself does.
AcceptsKnown(m) == m.from \in list[m.to]
MergedBlindly(m) == IF m.type = "removeNode" THEN list[m.to] \ m.data ELSE list[m.to] \cup m.data

\* receiveMessage: nodeList is merged before its signature is checked.
Accepts(m) == m.type = "nodeList" \/ m.from \in list[m.to]
Merged(m) == IF m.type = "removeNode" THEN list[m.to] \ (m.data \ {m.to}) ELSE list[m.to] \cup m.data

Deliver(m) ==
    /\ m \in wire /\ m.to \in running
    /\ wire' = wire \ {m}
    /\ IF Accepts(m) THEN Put(m.to, Merged(m)) /\ UNCHANGED odd
                     ELSE odd' = odd \cup ({m.to} \X m.data) /\ UNCHANGED list
    /\ Answered(m)
    /\ UNCHANGED <<running, members, counters>>

\* A message does not arrive: the sender notes it and goes on.
Lose(m) ==
    /\ m \in wire
    /\ IF m.to \in running THEN losses < MaxLosses /\ losses' = losses + 1 ELSE UNCHANGED losses
    /\ wire' = wire \ {m}
    /\ odd' = odd \cup ({m.to} \X m.data)
    /\ Answered(m)
    /\ UNCHANGED <<list, running, members, changes, crashes>>

\* Only the answer to a list is lost or late: the sender goes on.
GiveUp(j) ==
    /\ job[j].at = "answer"
    /\ losses < MaxLosses /\ losses' = losses + 1
    /\ At(j, "tell")
    /\ UNCHANGED <<list, running, wire, members, odd, changes, crashes>>

Crash(n) ==
    /\ n \in running
    /\ crashes < MaxCrashes /\ crashes' = crashes + 1
    /\ running' = running \ {n}
    /\ Done(Of(n))
    /\ odd' = odd \cup AllAbout({job[j].node : j \in {k \in Of(n) : Working(k)}})
    /\ UNCHANGED <<list, wire, members, changes, losses>>

\* startUp: a single node service forgets the others.
Restart(n) ==
    /\ n \notin running
    /\ running' = running \cup {n}
    /\ IF n \in Single THEN Put(n, {n}) /\ odd' = odd \cup ({n} \X Nodes)
                       ELSE UNCHANGED <<list, odd>>
    /\ UNCHANGED <<job, wire, members, counters>>

\* startUp with an empty database.
Init ==
    /\ list = [n \in Nodes |-> {n}]
    /\ running = Nodes
    /\ job = [j \in Changes |-> Idle]
    /\ wire = {} /\ members = {Root} /\ odd = {}
    /\ changes = 0 /\ losses = 0 /\ crashes = 0

Next ==
    \/ \E n, y \in Nodes : Join(n, y) \/ Remove(n, y)
    \/ \E j \in Changes : Add(j) \/ SendList(j) \/ Tell(j) \/ Untell(j) \/ GiveUp(j)
    \/ \E n \in Nodes : Crash(n) \/ Restart(n)
    \/ \E m \in wire : Deliver(m) \/ Lose(m)

Spec == Init /\ [][Next]_vars
-----------------------------------------------------------------------------
Quiet == wire = {} /\ \A j \in Changes : ~Working(j)

\* When nothing is under way a member lists exactly the members, but for those
\* it may be wrong about: a message was lost or refused, changes overlapped,
\* or the node that made the change was wrong itself
\* (message-sender.service.ts:101, nothing is sent again).
ListsAgree ==
    Quiet => \A x \in members, y \in Nodes :
                 <<x, y>> \notin odd => (y \in list[x] <=> y \in members)

\* No node ever takes itself off its list, whoever tells it to
\* (node.service.ts:54), so that it can be checked and found by others.
ListsItself == \A n \in Nodes : n \in list[n]

\* News is refused only by a node that may be wrong about the sender, or that
\* has yet to get its first list: between members that agree every signature
\* is good (signature.service.ts:46).
NewsIsTaken ==
    \A m \in wire :
        {m.from, m.to} \subseteq members /\ <<m.to, m.from>> \notin odd =>
            \/ Accepts(m)
            \/ \E j \in Changes : job[j].at = "list" /\ job[j].node = m.to
            \/ \E l \in wire \ {m} : l.type = "nodeList" /\ l.to = m.to
=============================================================================
