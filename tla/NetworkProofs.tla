--------------------------- MODULE NetworkProofs ---------------------------
(***************************************************************************)
(* When nothing is under way the lists of the members agree, but for the   *)
(* pairs in odd, for every set of nodes.  The invariant adds what is under *)
(* way: a pair that is not odd is right or news of it is coming (Told),    *)
(* news that is coming is true (TrueNews), and changes that overlap, of    *)
(* one node or of several, have made everything about them odd that they   *)
(* could spoil (Overlaps).  Senders says whose news may be refused, so     *)
(* that all other news is taken.                                           *)
(***************************************************************************)
EXTENDS Network, TLAPS, FiniteSetTheorems

Joins(y) ==
    \/ \E j \in Changes : Working(j) /\ job[j].at # "untell" /\ job[j].node = y
    \/ \E m \in wire : m.type # "removeNode" /\ y \in Subject(m)
Leaves(z) ==
    \/ \E j \in Changes : job[j].at = "untell" /\ job[j].node = z
    \/ \E m \in wire : m.type = "removeNode" /\ z \in m.data
Changing(y) == Joins(y) \/ Leaves(y)
Odd(x, y) == <<x, y>> \in odd
Doubtful(y) == \A x \in Nodes : Odd(x, y) /\ Odd(y, x)

Overlaps ==
    /\ \A z, w \in Nodes : Leaves(z) /\ Changing(w) /\ z # w => Doubtful(z) /\ Doubtful(w)
    /\ \A z \in Nodes : Leaves(z) /\ Joins(z) => Doubtful(z)
    /\ \A w, y \in Nodes : Joins(w) /\ Joins(y) /\ w # y => Odd(w, y)
    /\ \A j \in Changes :
           Working(j) /\ (Changing(job[j].by) \/ job[j].by \notin members) => Doubtful(job[j].node)

TrueNews ==
    /\ \A x, z \in Nodes : Leaves(z) /\ ~Odd(x, z) => z \notin members
    /\ \A x, y \in Nodes : Joins(y) /\ ~Odd(x, y) => y \in members

TrueLists ==
    /\ \A j \in Changes, y \in Nodes :
           job[j].at = "list" /\ y # job[j].node /\ ~Odd(job[j].node, y) =>
               (y \in list[job[j].by] <=> y \in members)
    /\ \A m \in wire, y \in Nodes :
           m.type = "nodeList" /\ y # m.to /\ ~Odd(m.to, y) => (y \in m.data <=> y \in members)

Right(x, y) == y \in list[x] <=> y \in members
ComingToList(j, x, y) == job[j].at = "list" /\ job[j].node = x /\ y \in list[job[j].by]
ComingToOthers(j, x, y) ==
    Working(j) /\ job[j].node = y /\ x \in list[job[j].by] /\ x # job[j].by
OnItsWay(m, x, y) == m.to = x /\ y \in m.data
Coming(x, y) ==
    \/ \E j \in Changes : ComingToList(j, x, y) \/ ComingToOthers(j, x, y)
    \/ \E m \in wire : OnItsWay(m, x, y)

Told == \A x \in members, y \in Nodes : ~Odd(x, y) => Right(x, y) \/ Coming(x, y)

Workers ==
    /\ \A j \in Changes : job[j] # Idle => job[j].by \in running /\ job[j].node # job[j].by
    /\ \A j \in Changes : j > changes => job[j] = Idle

IInv == TypeOK /\ Workers /\ ListsItself /\ Overlaps /\ TrueNews /\ TrueLists /\ Told
-----------------------------------------------------------------------------
LEMMA JobFacts ==
  ASSUME TypeOK, NEW j \in Changes
  PROVE  /\ job[j] # Idle => job[j] \in Job /\ job[j].by \in Nodes /\ job[j].node \in Nodes
         /\ Working(j) => job[j] # Idle /\ Changing(job[j].node)
         /\ job[j].at # "idle" => job[j] # Idle
         /\ job[j].at \in {"list", "answer", "tell"} => Working(j) /\ Joins(job[j].node)
         /\ job[j].at = "untell" => Working(j) /\ Leaves(job[j].node)
<1>1. job[j] \in Job \/ job[j] = Idle
  BY DEF TypeOK
<1>2. job[j] \in Job => job[j].by \in Nodes /\ job[j].node \in Nodes
  BY DEF Job
<1>3. Idle.at = "idle"
  BY DEF Idle
<1>4. Working(j) => job[j] # Idle
  BY <1>3 DEF Working
<1>. QED
  BY <1>1, <1>2, <1>3, <1>4 DEF Working, Joins, Leaves, Changing

\* What a change going on to another place does to the changes under way.
LEMMA AtFacts ==
  ASSUME TypeOK, NEW j \in Changes, job[j] # Idle,
         NEW p \in {"list", "answer", "tell"}, At(j, p)
  PROVE  /\ job' \in [Changes -> Job \cup {Idle}]
         /\ job'[j] # Idle /\ Working(j)' /\ job'[j].at = p
         /\ job'[j].by = job[j].by /\ job'[j].node = job[j].node
         /\ \A k \in Changes \ {j} : job'[k] = job[k] /\ (Working(k)' <=> Working(k))
<1>1. job[j] \in Job
  BY JobFacts
<1>2. job' = [job EXCEPT ![j] = [job[j] EXCEPT !.at = p]]
  BY DEF At
<1>3. /\ [job[j] EXCEPT !.at = p] \in Job
      /\ [job[j] EXCEPT !.at = p].at = p
      /\ [job[j] EXCEPT !.at = p].by = job[j].by
      /\ [job[j] EXCEPT !.at = p].node = job[j].node
  BY <1>1 DEF Job
<1>4. job'[j] = [job[j] EXCEPT !.at = p] /\ \A k \in Changes \ {j} : job'[k] = job[k]
  BY <1>2 DEF TypeOK
<1>5. job'[j].at # Idle.at
  BY <1>3, <1>4 DEF Idle
<1>. QED
  BY <1>2, <1>3, <1>4, <1>5 DEF TypeOK, Working

\* The end of changes.
LEMMA DoneFacts ==
  ASSUME TypeOK, NEW js \in SUBSET Changes, Done(js)
  PROVE  /\ job' \in [Changes -> Job \cup {Idle}]
         /\ \A k \in js : job'[k] = Idle /\ ~Working(k)' /\ job'[k].at = "idle"
         /\ \A k \in Changes \ js : job'[k] = job[k] /\ (Working(k)' <=> Working(k))
<1>1. \A k \in js : job'[k] = Idle /\ job'[k].at = "idle"
  BY DEF Done, Idle
<1>2. \A k \in Changes \ js : job'[k] = job[k]
  BY DEF Done
<1>. QED
  BY <1>1, <1>2 DEF Done, TypeOK, Working

\* A change takes a number of its own.
LEMMA StartFacts ==
  ASSUME TypeOK, Workers, NEW n \in Nodes, NEW p \in {"add", "untell"}, NEW y \in Nodes,
         Start(n, p, y)
  PROVE  /\ changes + 1 \in Changes /\ changes' = changes + 1
         /\ job' \in [Changes -> Job \cup {Idle}]
         /\ job[changes + 1] = Idle /\ ~Working(changes + 1) /\ job[changes + 1].at = "idle"
         /\ job'[changes + 1] = [at |-> p, by |-> n, node |-> y] /\ job'[changes + 1] # Idle
         /\ \A k \in Changes \ {changes + 1} : job'[k] = job[k] /\ (Working(k)' <=> Working(k))
         /\ UNCHANGED <<running, wire, losses, crashes>>
<1>1. changes \in Nat /\ changes < MaxChanges /\ MaxChanges \in Nat
  BY BoundsAssumption DEF Start, TypeOK
<1>2. changes + 1 \in Changes
  BY <1>1 DEF Changes
<1>3. job[changes + 1] = Idle /\ job[changes + 1].at = "idle"
  BY <1>1, <1>2 DEF Workers, Idle
<1>4. [at |-> p, by |-> n, node |-> y] \in Job /\ [at |-> p, by |-> n, node |-> y] # Idle
  <2>1. [at |-> p, by |-> n, node |-> y].at # Idle.at
    BY DEF Idle
  <2>. QED
    BY <2>1 DEF Job
<1>5. /\ job'[changes + 1] = [at |-> p, by |-> n, node |-> y]
      /\ \A k \in Changes \ {changes + 1} : job'[k] = job[k]
  BY <1>2 DEF Start, TypeOK
<1>. QED
  BY <1>2, <1>3, <1>4, <1>5 DEF Start, TypeOK, Working

LEMMA WireFacts ==
  ASSUME TypeOK, NEW m \in wire
  PROVE  /\ m.from \in Nodes /\ m.to \in Nodes /\ m.of \in Changes /\ m.data \subseteq Nodes
         /\ m.type \in {"nodeJoined", "removeNode", "nodeList"}
         /\ m.type = "nodeList" => Joins(m.to)
         /\ m.type = "nodeJoined" => \A y \in m.data : Joins(y)
         /\ m.type = "removeNode" => \A y \in m.data : Leaves(y)
         /\ m.type # "removeNode" => m.to \notin m.data
  BY DEF TypeOK, Message, Sound, Joins, Leaves, Subject

LEMMA PendingFacts ==
  ASSUME TypeOK
  PROVE  \A y : y \in Pending <=> Changing(y)
<1>1. \A y : y \in Pending <=> \/ \E j \in Changes : Working(j) /\ job[j].node = y
                               \/ \E m \in wire : y \in Subject(m)
  BY DEF Pending
<1>2. \A j \in Changes : job[j].at = "untell" => Working(j)
  BY JobFacts
<1>3. \A m \in wire : m.type = "removeNode" => Subject(m) = m.data
  BY DEF Subject
<1>. QED
  BY <1>1, <1>2, <1>3 DEF Changing, Joins, Leaves

\* What Broadcast puts on the wire.
LEMMA BroadcastFacts ==
  ASSUME TypeOK, ListsItself, NEW j \in Changes, job[j] # Idle,
         NEW t \in {"nodeJoined", "removeNode"}, Broadcast(j, t)
  PROVE  /\ wire \subseteq wire'
         /\ \A m \in wire' \ wire : /\ m \in Message /\ Sound(m) /\ m.type = t
                                    /\ m.of = j /\ m.from = job[j].by /\ m.data = {job[j].node}
         /\ \A x \in list[job[j].by] : x # job[j].by /\ (x # job[j].node \/ t = "removeNode") =>
                \E m \in wire' : OnItsWay(m, x, job[j].node)
<1>. DEFINE n == job[j].by
            y == job[j].node
            to == list[n] \ {n, IF t = "nodeJoined" THEN y ELSE n}
            new == [type: {t}, of: {j}, from: {n}, to: to, data: {{y}}]
<1>0. n \in Nodes /\ y \in Nodes
  BY JobFacts
<1>1. wire' = wire \cup IF Cardinality(list[n]) < 2 THEN {} ELSE new
  BY DEF Broadcast, News
<1>2. \A m \in new : /\ m \in Message /\ Sound(m) /\ m.type = t /\ m.of = j
                     /\ m.from = n /\ m.data = {y}
  BY <1>0 DEF TypeOK, Message, Sound
<1>3. ASSUME NEW x \in list[n], x # n, x # y \/ t = "removeNode"
      PROVE  \E m \in wire' : OnItsWay(m, x, y)
  <2>1. IsFiniteSet(list[n])
    BY <1>0, NodesAssumption, FS_Subset DEF TypeOK
  <2>2. {n, x} \subseteq list[n] /\ n # x
    BY <1>0, <1>3 DEF ListsItself
  <2>3. Cardinality({n, x}) = 2 /\ Cardinality({n, x}) <= Cardinality(list[n])
    <3>1. {n, x} = {n} \cup {x} /\ x \notin {n}
      BY <2>2
    <3>2. IsFiniteSet({n}) /\ Cardinality({n}) = 1
      BY FS_Singleton
    <3>3. Cardinality({n} \cup {x}) = Cardinality({n}) + 1
      BY <3>1, <3>2, FS_AddElement
    <3>4. Cardinality({n, x}) = 2
      BY <3>1, <3>2, <3>3
    <3>. QED
      BY <2>1, <2>2, <3>4, FS_Subset
  <2>4. Cardinality(list[n]) \in Nat /\ ~(Cardinality(list[n]) < 2)
    BY <2>1, <2>3, FS_CardinalityType
  <2>5. x \in to
    BY <1>3
  <2>6. [type |-> t, of |-> j, from |-> n, to |-> x, data |-> {y}] \in new
    BY <2>5
  <2>. QED
    BY <1>1, <2>4, <2>6 DEF OnItsWay
<1>. QED
  BY <1>1, <1>2, <1>3

LEMMA AnsweredFacts ==
  ASSUME TypeOK, NEW m \in wire, Answered(m)
  PROVE  /\ job' \in [Changes -> Job \cup {Idle}]
         /\ \A j \in Changes : /\ Working(j)' <=> Working(j)
                               /\ job'[j] # Idle <=> job[j] # Idle
                               /\ job'[j].by = job[j].by /\ job'[j].node = job[j].node
                               /\ \/ job'[j] = job[j]
                                  \/ job[j].at = "answer" /\ job'[j].at = "tell"
<1>1. CASE UNCHANGED job
  BY <1>1 DEF TypeOK, Working
<1>2. CASE job[m.of].at = "answer" /\ At(m.of, "tell")
  <2>1. m.of \in Changes /\ job[m.of] # Idle /\ Working(m.of)
    BY <1>2, WireFacts, JobFacts
  <2>. QED
    BY <1>2, <2>1, AtFacts
<1>. QED
  BY <1>1, <1>2 DEF Answered
-----------------------------------------------------------------------------
\* Type correctness.
LEMMA TypeInit == Init => TypeOK /\ ListsItself /\ Workers
  BY NodesAssumption, BoundsAssumption DEF Init, TypeOK, ListsItself, Workers

LEMMA OddTypes ==
  ASSUME TypeOK, NEW n \in Nodes, NEW y \in Nodes
  PROVE  /\ Unheard(n, y) \subseteq Pairs /\ Hearsay(n, y) \subseteq Pairs
         /\ Together(n, y) \subseteq Pairs /\ Overtaken(y) \subseteq Pairs
         /\ AllAbout({y}) \subseteq Pairs
<1>1. Pending \subseteq Nodes
  <2>1. \A j \in Changes : Working(j) => job[j].node \in Nodes
    BY JobFacts
  <2>2. \A m \in wire : Subject(m) \subseteq Nodes
    BY WireFacts DEF Subject
  <2>. QED
    BY <2>1, <2>2 DEF Pending
<1>. QED
  BY <1>1 DEF Unheard, Hearsay, Together, Overtaken, AllAbout, Pairs, TypeOK

LEMMA TypeStep ==
  ASSUME TypeOK, ListsItself, Workers, [Next]_vars
  PROVE  TypeOK' /\ ListsItself' /\ Workers'
<1>. USE DEF counters
<1>1. ASSUME NEW n \in Nodes, NEW y \in Nodes, Join(n, y)
      PROVE  TypeOK' /\ ListsItself' /\ Workers'
  <2>1. Start(n, "add", y) /\ n # y /\ n \in running /\ UNCHANGED <<list, members, odd>>
    BY <1>1 DEF Join, Start, ListsItself
  <2>2. /\ job' \in [Changes -> Job \cup {Idle}] /\ changes' = changes + 1
        /\ job'[changes + 1] = [at |-> "add", by |-> n, node |-> y]
        /\ \A k \in Changes \ {changes + 1} : job'[k] = job[k]
        /\ UNCHANGED <<running, wire, losses, crashes>>
    BY <2>1, StartFacts
  <2>3. changes' \in 0..MaxChanges /\ changes \in Nat
    BY <2>1, BoundsAssumption DEF Start, TypeOK
  <2>4. Workers'
    BY <2>1, <2>2, <2>3 DEF Workers, Changes
  <2>. QED
    BY <2>1, <2>2, <2>3, <2>4 DEF TypeOK, ListsItself
<1>2. ASSUME NEW n \in Nodes, NEW z \in Nodes, Remove(n, z)
      PROVE  TypeOK' /\ ListsItself' /\ Workers'
  <2>1. Start(n, "untell", z) /\ n # z /\ n \in running
    BY <1>2 DEF Remove, Start
  <2>2. /\ job' \in [Changes -> Job \cup {Idle}] /\ changes' = changes + 1
        /\ job'[changes + 1] = [at |-> "untell", by |-> n, node |-> z]
        /\ \A k \in Changes \ {changes + 1} : job'[k] = job[k]
        /\ UNCHANGED <<running, wire, losses, crashes>>
    BY <2>1, StartFacts
  <2>3. changes' \in 0..MaxChanges /\ changes \in Nat
    BY <2>1, BoundsAssumption DEF Start, TypeOK
  <2>4. Workers'
    BY <2>1, <2>2, <2>3 DEF Workers, Changes
  <2>5. list' \in [Nodes -> SUBSET Nodes] /\ ListsItself'
    BY <1>2, <2>1 DEF Remove, Put, TypeOK, ListsItself
  <2>6. odd' \subseteq Pairs /\ members' \subseteq Nodes
    BY <1>2, OddTypes DEF Remove, TypeOK
  <2>. QED
    BY <2>2, <2>3, <2>4, <2>5, <2>6 DEF TypeOK
<1>3. ASSUME NEW j \in Changes, Add(j) PROVE TypeOK' /\ ListsItself' /\ Workers'
  <2>1. job[j] # Idle /\ job[j].by \in Nodes /\ job[j].node \in Nodes
    BY <1>3, JobFacts DEF Add
  <2>2. /\ job' \in [Changes -> Job \cup {Idle}] /\ changes' = changes /\ running' = running
        /\ job'[j].by = job[j].by /\ job'[j].node = job[j].node
        /\ \A k \in Changes \ {j} : job'[k] = job[k]
    BY <1>3, <2>1, AtFacts DEF Add
  <2>3. Workers'
    BY <2>1, <2>2 DEF Workers
  <2>4. list' \in [Nodes -> SUBSET Nodes] /\ ListsItself'
    BY <1>3, <2>1 DEF Add, Put, TypeOK, ListsItself
  <2>5. odd' \subseteq Pairs /\ members' \subseteq Nodes
    BY <1>3, <2>1, OddTypes DEF Add, TypeOK
  <2>. QED
    BY <1>3, <2>2, <2>3, <2>4, <2>5 DEF Add, TypeOK
<1>4. ASSUME NEW j \in Changes, SendList(j) \/ GiveUp(j) PROVE TypeOK' /\ ListsItself' /\ Workers'
  <2>1. /\ job[j] # Idle /\ job[j].by \in Nodes /\ job[j].node \in Nodes
        /\ job[j].node # job[j].by
    BY <1>4, JobFacts DEF SendList, GiveUp, Workers
  <2>2. /\ job' \in [Changes -> Job \cup {Idle}] /\ changes' = changes /\ running' = running
        /\ job'[j].by = job[j].by /\ job'[j].node = job[j].node
        /\ \A k \in Changes \ {j} : job'[k] = job[k]
    BY <1>4, <2>1, AtFacts DEF SendList, GiveUp
  <2>3. Workers'
    BY <2>1, <2>2 DEF Workers
  <2>4. wire' \subseteq Message /\ \A m \in wire' : Sound(m)
    BY <1>4, <2>1 DEF SendList, GiveUp, TypeOK, Message, Sound
  <2>5. losses' \in 0..MaxLosses
    BY <1>4, BoundsAssumption DEF SendList, GiveUp, TypeOK
  <2>. QED
    BY <1>4, <2>2, <2>3, <2>4, <2>5 DEF SendList, GiveUp, TypeOK, ListsItself
<1>5. ASSUME NEW j \in Changes, Tell(j) \/ Untell(j) PROVE TypeOK' /\ ListsItself' /\ Workers'
  <2>1. job[j] # Idle
    BY <1>5, JobFacts DEF Tell, Untell
  <2>2. job' \in [Changes -> Job \cup {Idle}] /\ Workers'
    BY <1>5, DoneFacts DEF Tell, Untell, Workers
  <2>3. wire' \subseteq Message /\ \A m \in wire' : Sound(m)
    BY <1>5, <2>1, BroadcastFacts DEF Tell, Untell, TypeOK
  <2>. QED
    BY <1>5, <2>2, <2>3 DEF Tell, Untell, TypeOK, ListsItself
<1>6. ASSUME NEW m \in wire, Deliver(m) \/ Lose(m) PROVE TypeOK' /\ ListsItself' /\ Workers'
  <2>1. Answered(m) /\ UNCHANGED <<running, changes>>
    BY <1>6 DEF Deliver, Lose
  <2>2. job' \in [Changes -> Job \cup {Idle}] /\ Workers'
    BY <2>1, AnsweredFacts DEF Workers
  <2>3. list' \in [Nodes -> SUBSET Nodes] /\ ListsItself'
    <3>1. Merged(m) \subseteq Nodes /\ m.to \in Merged(m)
      BY WireFacts DEF Merged, TypeOK, ListsItself
    <3>. QED
      BY <1>6, <3>1 DEF Deliver, Lose, Put, TypeOK, ListsItself
  <2>4. odd' \subseteq Pairs
    BY <1>6, WireFacts DEF Deliver, Lose, TypeOK, Pairs
  <2>5. /\ wire' \subseteq wire /\ losses' \in 0..MaxLosses
        /\ UNCHANGED <<members, changes, crashes>>
    BY <1>6, BoundsAssumption DEF Deliver, Lose, TypeOK
  <2>. QED
    BY <2>1, <2>2, <2>3, <2>4, <2>5 DEF TypeOK
<1>7. ASSUME NEW n \in Nodes, Crash(n) PROVE TypeOK' /\ ListsItself' /\ Workers'
  <2>1. Of(n) \in SUBSET Changes /\ Done(Of(n)) /\ running' = running \ {n} /\ changes' = changes
    BY <1>7 DEF Crash, Of
  <2>2. job' \in [Changes -> Job \cup {Idle}] /\ Workers'
    BY <2>1, DoneFacts DEF Workers, Of
  <2>3. odd' \subseteq Pairs
    <3>1. {job[j].node : j \in {k \in Of(n) : Working(k)}} \subseteq Nodes
      BY <2>1, JobFacts
    <3>. QED
      BY <1>7, <3>1 DEF Crash, AllAbout, Pairs, TypeOK
  <2>4. /\ running' \subseteq Nodes /\ crashes' \in 0..MaxCrashes
        /\ UNCHANGED <<list, wire, members, changes, losses>>
    BY <1>7, BoundsAssumption DEF Crash, TypeOK
  <2>. QED
    BY <2>2, <2>3, <2>4 DEF TypeOK, ListsItself
<1>8. ASSUME NEW n \in Nodes, Restart(n) PROVE TypeOK' /\ ListsItself' /\ Workers'
  BY <1>8 DEF Restart, Put, TypeOK, ListsItself, Workers, Pairs
<1>9. CASE UNCHANGED vars
  BY <1>9 DEF vars, TypeOK, ListsItself, Workers
<1>. QED
  BY <1>1, <1>2, <1>3, <1>4, <1>5, <1>6, <1>7, <1>8, <1>9 DEF Next

-----------------------------------------------------------------------------
\* Steps that change no list of their own accord: what is under way only
\* becomes less.
Shrinks ==
    /\ members' = members /\ odd \subseteq odd'
    /\ \A y \in Nodes : (Joins(y)' => Joins(y)) /\ (Leaves(y)' => Leaves(y))
    /\ \A j \in Changes : Working(j)' => /\ Working(j)
                                         /\ job'[j].by = job[j].by /\ job'[j].node = job[j].node

LEMMA ShrinksKeeps ==
  ASSUME TypeOK, Overlaps, TrueNews, Shrinks
  PROVE  Overlaps' /\ TrueNews'
<1>1. \A x, y : Odd(x, y) => Odd(x, y)'
  BY DEF Shrinks, Odd
<1>2. \A y : Doubtful(y) => Doubtful(y)'
  BY <1>1 DEF Doubtful
<1>3. \A y \in Nodes : Changing(y)' => Changing(y)
  BY DEF Shrinks, Changing
<1>4. TrueNews'
  BY <1>1 DEF TrueNews, Shrinks
<1>5. \A z, w \in Nodes : Leaves(z)' /\ Changing(w)' /\ z # w => Doubtful(z)' /\ Doubtful(w)'
  BY <1>2, <1>3 DEF Overlaps, Shrinks
<1>6. \A z \in Nodes : Leaves(z)' /\ Joins(z)' => Doubtful(z)'
  BY <1>2 DEF Overlaps, Shrinks
<1>7. \A w, y \in Nodes : Joins(w)' /\ Joins(y)' /\ w # y => Odd(w, y)'
  BY <1>1 DEF Overlaps, Shrinks
<1>8. ASSUME NEW j \in Changes, Working(j)', Changing(job[j].by)' \/ job'[j].by \notin members'
      PROVE  Doubtful(job[j].node)'
  <2>1. /\ Working(j) /\ job'[j].node = job[j].node /\ job'[j].by = job[j].by
        /\ job[j].by \in Nodes /\ members' = members
    BY <1>8, JobFacts DEF Shrinks
  <2>2. Changing(job[j].by)' => Changing(job[j].by)
    <3>1. \A x \in Nodes : x = job'[j].by /\ Changing(x)' => Changing(x)
      BY <1>3
    <3>. QED
      BY <2>1, <3>1 DEF Changing, Joins, Leaves
  <2>3. Doubtful(job[j].node)
    BY <1>8, <2>1, <2>2 DEF Overlaps
  <2>. QED
    BY <1>2, <2>1, <2>3
<1>. QED
  BY <1>4, <1>5, <1>6, <1>7, <1>8 DEF Overlaps

Kept == Overlaps' /\ TrueNews' /\ TrueLists' /\ Told'

\* Steps that leave the lists and the messages alone.
LEMMA WaitKeeps ==
  ASSUME IInv, UNCHANGED <<list, wire, members, odd>>,
         \A k \in Changes : /\ Working(k)' <=> Working(k)
                            /\ Working(k) => job'[k].by = job[k].by /\ job'[k].node = job[k].node
                            /\ job'[k].at = "list" <=> job[k].at = "list"
                            /\ job'[k].at = "untell" <=> job[k].at = "untell"
  PROVE  Kept
<1>. USE DEF IInv
<1>1. \A k \in Changes : job[k].at = "list" \/ job[k].at = "untell" => Working(k)
  BY JobFacts
<1>2. Shrinks
  BY <1>1 DEF Shrinks, Joins, Leaves
<1>3. TrueLists'
  BY <1>1 DEF TrueLists, Odd
<1>4. Told'
  <2>1. \A a, b : Coming(a, b) => Coming(a, b)'
    BY <1>1 DEF Coming, ComingToList, ComingToOthers, OnItsWay
  <2>. QED
    BY <2>1 DEF Told, Odd, Right
<1>. QED
  BY <1>2, <1>3, <1>4, ShrinksKeeps DEF Kept

LEMMA SendListKeeps ==
  ASSUME IInv, NEW j \in Changes, SendList(j)
  PROVE  Kept
<1>. USE DEF IInv
<1>. DEFINE n == job[j].by
            y == job[j].node
            new == [type |-> "nodeList", of |-> j, from |-> n, to |-> y, data |-> list[n] \ {y}]
<1>1. job[j].at = "list" /\ job[j] # Idle /\ Working(j) /\ y \in Nodes /\ n \in Nodes /\ Joins(y)
  BY JobFacts DEF SendList
<1>2. wire' = wire \cup {new} /\ UNCHANGED <<list, running, members, odd>>
  BY DEF SendList
<1>3. /\ job'[j].at = "answer"
      /\ \A k \in Changes : /\ Working(k)' <=> Working(k)
                            /\ job'[k].node = job[k].node /\ job'[k].by = job[k].by
                            /\ k # j => job'[k] = job[k]
                            /\ job'[k].at = "untell" <=> job[k].at = "untell"
  BY <1>1, AtFacts DEF SendList
<1>4. Subject(new) = {y} /\ new.type = "nodeList" /\ new.to = y /\ new.data = list[n] \ {y}
  BY DEF Subject
<1>5. Shrinks
  BY <1>1, <1>2, <1>3, <1>4 DEF Shrinks, Joins, Leaves
<1>6. TrueLists'
  <2>1. \A k \in Changes : job'[k].at = "list" => job'[k] = job[k]
    BY <1>3
  <2>2. \A z \in Nodes : z # y /\ ~Odd(y, z) => (z \in list[n] <=> z \in members)
    BY <1>1 DEF TrueLists
  <2>. QED
    BY <1>2, <1>4, <2>1, <2>2 DEF TrueLists, Odd
<1>7. ASSUME NEW a \in members', NEW b \in Nodes, ~Odd(a, b)'
      PROVE  Right(a, b)' \/ Coming(a, b)'
  <2>0. a \in members /\ ~Odd(a, b) /\ a \in Nodes
    BY <1>2, <1>7 DEF Odd, TypeOK
  <2>1. CASE Right(a, b)
    BY <1>2, <2>1 DEF Right
  <2>2. ASSUME NEW k \in Changes, ComingToList(k, a, b) PROVE Right(a, b)' \/ Coming(a, b)'
    <3>1. CASE k # j
      BY <1>2, <1>3, <2>2, <3>1 DEF ComingToList, Coming
    <3>2. CASE k = j /\ b # y
      BY <1>2, <1>4, <2>2, <3>2 DEF ComingToList, Coming, OnItsWay
    <3>3. CASE k = j /\ b = y
      BY <1>2, <2>0, <2>2, <3>3 DEF ComingToList, Right, ListsItself
    <3>. QED
      BY <3>1, <3>2, <3>3
  <2>3. ASSUME NEW k \in Changes, ComingToOthers(k, a, b) PROVE Coming(a, b)'
    BY <1>2, <1>3, <2>3 DEF ComingToOthers, Coming
  <2>4. ASSUME NEW m \in wire, OnItsWay(m, a, b) PROVE Coming(a, b)'
    BY <1>2, <2>4 DEF OnItsWay, Coming
  <2>. QED
    BY <2>0, <2>1, <2>2, <2>3, <2>4 DEF Told, Coming
<1>. QED
  BY <1>5, <1>6, <1>7, ShrinksKeeps DEF Kept, Told

LEMMA BroadcastKeeps ==
  ASSUME IInv, NEW j \in Changes, Tell(j) \/ Untell(j)
  PROVE  Kept
<1>. USE DEF IInv
<1>. DEFINE n == job[j].by
            y == job[j].node
            t == IF job[j].at = "tell" THEN "nodeJoined" ELSE "removeNode"
<1>1. /\ job[j].at \in {"tell", "untell"} /\ job[j] # Idle /\ Working(j) /\ y \in Nodes /\ n \in Nodes
      /\ job[j].at = "tell" => Joins(y)
      /\ job[j].at = "untell" => Leaves(y)
  BY JobFacts DEF Tell, Untell
<1>2. Broadcast(j, t) /\ Done({j}) /\ UNCHANGED <<list, running, members, odd>>
  BY DEF Tell, Untell
<1>3. /\ wire \subseteq wire'
      /\ \A m \in wire' \ wire : m.type = t /\ m.data = {y}
      /\ \A x \in list[n] : x # n /\ (x # y \/ t = "removeNode") =>
             \E m \in wire' : OnItsWay(m, x, y)
  BY <1>1, <1>2, BroadcastFacts
<1>4. /\ ~Working(j)' /\ job'[j].at = "idle"
      /\ \A k \in Changes \ {j} : job'[k] = job[k] /\ (Working(k)' <=> Working(k))
  BY <1>2, DoneFacts
<1>5. Shrinks
  <2>1. \A z \in Nodes : Joins(z)' => Joins(z)
    <3>1. \A m \in wire' \ wire : m.type # "removeNode" => Subject(m) = {y} /\ Joins(y)
      BY <1>1, <1>3 DEF Subject
    <3>. QED
      BY <1>4, <3>1 DEF Joins
  <2>2. \A z \in Nodes : Leaves(z)' => Leaves(z)
    <3>1. \A m \in wire' \ wire : m.type = "removeNode" => m.data = {y} /\ Leaves(y)
      BY <1>1, <1>3
    <3>. QED
      BY <1>4, <3>1 DEF Leaves
  <2>. QED
    BY <1>2, <1>4, <2>1, <2>2 DEF Shrinks
<1>6. TrueLists'
  BY <1>2, <1>3, <1>4 DEF TrueLists, Odd
<1>7. ASSUME NEW a \in members', NEW b \in Nodes, ~Odd(a, b)'
      PROVE  Right(a, b)' \/ Coming(a, b)'
  <2>0. a \in members /\ ~Odd(a, b) /\ a \in Nodes
    BY <1>2, <1>7 DEF Odd, TypeOK
  <2>1. CASE Right(a, b)
    BY <1>2, <2>1 DEF Right
  <2>2. ASSUME NEW k \in Changes, ComingToList(k, a, b) PROVE Coming(a, b)'
    BY <1>1, <1>2, <1>4, <2>2 DEF ComingToList, Coming
  <2>3. ASSUME NEW k \in Changes, ComingToOthers(k, a, b) PROVE Right(a, b)' \/ Coming(a, b)'
    <3>1. CASE k # j
      BY <1>2, <1>4, <2>3, <3>1 DEF ComingToOthers, Coming
    <3>2. CASE k = j /\ (a # y \/ t = "removeNode")
      BY <1>3, <2>3, <3>2 DEF ComingToOthers, Coming
    <3>3. CASE a = y /\ k = j
      BY <1>2, <2>0, <2>3, <3>3 DEF ComingToOthers, Right, ListsItself
    <3>. QED
      BY <3>1, <3>2, <3>3
  <2>4. ASSUME NEW m \in wire, OnItsWay(m, a, b) PROVE Coming(a, b)'
    BY <1>3, <2>4 DEF OnItsWay, Coming
  <2>. QED
    BY <2>0, <2>1, <2>2, <2>3, <2>4 DEF Told, Coming
<1>. QED
  BY <1>5, <1>6, <1>7, ShrinksKeeps DEF Kept, Told

LEMMA GiveUpKeeps ==
  ASSUME IInv, NEW j \in Changes, GiveUp(j)
  PROVE  Kept
<1>1. TypeOK /\ job[j].at = "answer" /\ job[j] # Idle /\ Working(j) /\ At(j, "tell")
  BY JobFacts DEF IInv, GiveUp
<1>2. \A k \in Changes : /\ Working(k)' <=> Working(k)
                         /\ job'[k].by = job[k].by /\ job'[k].node = job[k].node
                         /\ job'[k].at = "list" <=> job[k].at = "list"
                         /\ job'[k].at = "untell" <=> job[k].at = "untell"
  BY <1>1, AtFacts
<1>. QED
  BY <1>2, WaitKeeps DEF GiveUp

LEMMA CrashKeeps ==
  ASSUME IInv, NEW n \in Nodes, Crash(n) \/ Restart(n)
  PROVE  Kept
<1>. USE DEF IInv
<1>. DEFINE ended == IF Crash(n) THEN Of(n) ELSE {}
<1>1. /\ wire' = wire /\ members' = members /\ odd \subseteq odd'
      /\ \A k \in Nodes \ {n} : list'[k] = list[k]
      /\ \A a, b \in Nodes : ~Odd(a, b)' => list'[a] = list[a]
  BY DEF Crash, Restart, Put, TypeOK, Odd
<1>2. /\ \A k \in ended : job'[k] = Idle /\ ~Working(k)' /\ job'[k].at = "idle"
      /\ \A k \in Changes \ ended : job'[k] = job[k] /\ (Working(k)' <=> Working(k))
  <2>1. CASE Crash(n)
    BY <2>1, DoneFacts DEF Crash, Of
  <2>2. CASE ~Crash(n)
    BY <2>2 DEF Restart, Working
  <2>. QED
    BY <2>1, <2>2
<1>3. Shrinks
  BY <1>1, <1>2 DEF Shrinks, Joins, Leaves
\* Nobody is at a change at a node that starts.
<1>4. \A k \in Changes \ ended : Working(k) => job[k].by # n \/ list'[n] = list[n]
  <2>1. CASE Crash(n)
    BY <2>1 DEF Crash
  <2>2. CASE Restart(n) /\ ~Crash(n)
    BY <2>2, JobFacts DEF Restart, Workers
  <2>. QED
    BY <2>1, <2>2
<1>5. TrueLists'
  <2>1. \A k \in Changes : job'[k].at = "list" =>
            job'[k] = job[k] /\ job[k].by \in Nodes /\ list'[job[k].by] = list[job[k].by]
    BY <1>1, <1>2, <1>4, JobFacts
  <2>. QED
    BY <1>1, <2>1 DEF TrueLists, Odd
<1>6. ASSUME NEW a \in members', NEW b \in Nodes, ~Odd(a, b)'
      PROVE  Right(a, b)' \/ Coming(a, b)'
  <2>0. a \in members /\ ~Odd(a, b) /\ a \in Nodes /\ list'[a] = list[a]
    BY <1>1, <1>6 DEF Odd, TypeOK
  <2>1. \A k \in ended : Working(k) => a # job[k].node /\ b # job[k].node
    <3>1. ASSUME NEW k \in ended, Working(k) PROVE a # job[k].node /\ b # job[k].node
      <4>1. job[k].node \in {job[l].node : l \in {i \in Of(n) : Working(i)}}
        BY <3>1
      <4>2. AllAbout({job[l].node : l \in {i \in Of(n) : Working(i)}}) \subseteq odd'
        BY <3>1 DEF Crash
      <4>. QED
        BY <1>6, <2>0, <4>1, <4>2 DEF AllAbout, Odd
    <3>. QED
      BY <3>1
  <2>2. CASE Right(a, b)
    BY <1>1, <2>0, <2>2 DEF Right
  <2>3. ASSUME NEW k \in Changes, ComingToList(k, a, b) \/ ComingToOthers(k, a, b)
        PROVE  Coming(a, b)'
    <3>1. Working(k) /\ job[k].by \in Nodes
      BY <2>3, JobFacts DEF ComingToList, ComingToOthers
    <3>2. k \notin ended
      BY <2>1, <2>3, <3>1 DEF ComingToList, ComingToOthers
    <3>3. list'[job[k].by] = list[job[k].by]
      BY <1>1, <1>4, <3>1, <3>2
    <3>. QED
      BY <1>2, <2>3, <3>2, <3>3 DEF ComingToList, ComingToOthers, Coming
  <2>4. ASSUME NEW m \in wire, OnItsWay(m, a, b) PROVE Coming(a, b)'
    BY <1>1, <2>4 DEF OnItsWay, Coming
  <2>. QED
    BY <2>0, <2>2, <2>3, <2>4 DEF Told, Coming
<1>. QED
  BY <1>3, <1>5, <1>6, ShrinksKeeps DEF Kept, Told

LEMMA MessageKeeps ==
  ASSUME IInv, NEW m \in wire, Deliver(m) \/ Lose(m)
  PROVE  Kept
<1>. USE DEF IInv
<1>. DEFINE to == m.to
            taken == Deliver(m) /\ Accepts(m)
<1>1. /\ wire' = wire \ {m} /\ members' = members /\ odd \subseteq odd' /\ Answered(m)
      /\ \A a \in Nodes : a # to => list'[a] = list[a]
      /\ taken => list'[to] = Merged(m)
      /\ ~taken => list' = list /\ odd' = odd \cup ({to} \X m.data)
  BY WireFacts DEF Deliver, Lose, Put, TypeOK
<1>2. /\ to \in Nodes /\ m.data \subseteq Nodes
      /\ m.type \in {"nodeJoined", "removeNode", "nodeList"}
      /\ m.type = "nodeList" => Joins(to)
      /\ m.type = "nodeJoined" => \A y \in m.data : Joins(y)
      /\ m.type = "removeNode" => \A y \in m.data : Leaves(y)
      /\ m.type # "removeNode" => to \notin m.data
  BY WireFacts
<1>3. \A j \in Changes : /\ Working(j)' <=> Working(j)
                         /\ job'[j].by = job[j].by /\ job'[j].node = job[j].node
                         /\ \/ job'[j] = job[j]
                            \/ job[j].at = "answer" /\ job'[j].at = "tell"
  BY <1>1, AnsweredFacts
<1>4. Shrinks
  BY <1>1, <1>3 DEF Shrinks, Joins, Leaves
<1>5. \A a, b \in Nodes : Odd(a, b) => Odd(a, b)'
  BY <1>1 DEF Odd
\* What the message is about is put right, or odd.
<1>6. ASSUME NEW b \in m.data, to \in members, ~Odd(to, b)' PROVE Right(to, b)'
  <2>1. taken /\ ~Odd(to, b)
    BY <1>1, <1>2, <1>6 DEF Odd
  <2>2. CASE m.type = "nodeList"
    <3>1. b \in members
      BY <1>2, <2>1, <2>2 DEF TrueLists
    <3>. QED
      BY <1>1, <2>1, <2>2, <3>1 DEF Right, Merged
  <2>3. CASE m.type = "nodeJoined"
    <3>1. b \in members
      BY <1>2, <2>1, <2>3 DEF TrueNews
    <3>. QED
      BY <1>1, <2>1, <2>3, <3>1 DEF Right, Merged
  <2>4. CASE m.type = "removeNode"
    <3>1. b \notin members
      BY <1>2, <2>1, <2>4 DEF TrueNews
    <3>. QED
      BY <1>1, <1>6, <2>1, <2>4, <3>1 DEF Right, Merged
  <2>. QED
    BY <1>2, <2>2, <2>3, <2>4
<1>7. \A a, b \in Nodes : a # to \/ b \notin m.data => (b \in list'[a] <=> b \in list[a])
  BY <1>1, <1>2 DEF Merged
\* Only removeNode takes anything off a list.
<1>8. \A a, b \in Nodes : b \in list[a] => b \in list'[a] \/ Leaves(b)
  BY <1>1, <1>2, <1>7 DEF Merged
<1>9. TrueLists'
  <2>1. ASSUME NEW j \in Changes, NEW b \in Nodes,
               job'[j].at = "list", b # job'[j].node, ~Odd(job[j].node, b)'
        PROVE  b \in list'[job[j].by] <=> b \in members
    <3>1. /\ job'[j] = job[j] /\ job[j].node \in Nodes /\ job[j].by \in Nodes
          /\ Joins(job[j].node) /\ Changing(job[j].node)
      BY <1>3, <2>1, JobFacts
    <3>2. ~Odd(job[j].node, b) /\ b # job[j].node
      BY <1>5, <2>1, <3>1
    <3>3. b \in list[job[j].by] <=> b \in members
      BY <2>1, <3>1, <3>2 DEF TrueLists
    <3>4. CASE job[j].by # to \/ b \notin m.data
      BY <1>7, <3>1, <3>3, <3>4
    <3>5. CASE job[j].by = to /\ b \in m.data
      <4>1. CASE m.type = "nodeList"
        <5>1. Working(j) /\ Changing(job[j].by)
          BY <1>2, <2>1, <3>1, <3>5, <4>1, JobFacts DEF Changing
        <5>. QED
          BY <3>2, <5>1 DEF Overlaps, Doubtful
      <4>2. CASE m.type = "nodeJoined"
        BY <1>2, <3>1, <3>2, <3>5, <4>2 DEF Overlaps
      <4>3. CASE m.type = "removeNode"
        BY <1>2, <3>1, <3>2, <3>5, <4>3 DEF Overlaps, Doubtful
      <4>. QED
        BY <1>2, <4>1, <4>2, <4>3
    <3>. QED
      BY <3>4, <3>5
  <2>2. ASSUME NEW k \in wire', NEW b \in Nodes, k.type = "nodeList", b # k.to, ~Odd(k.to, b)'
        PROVE  b \in k.data <=> b \in members
    BY <1>1, <2>2 DEF TrueLists, Odd
  <2>. QED
    BY <1>1, <1>3, <2>1, <2>2 DEF TrueLists
<1>10. ASSUME NEW a \in members', NEW b \in Nodes, ~Odd(a, b)'
       PROVE  Right(a, b)' \/ Coming(a, b)'
  <2>0. a \in members /\ a \in Nodes /\ ~Odd(a, b)
    BY <1>1, <1>5, <1>10 DEF TypeOK
  <2>1. CASE a = to /\ b \in m.data
    BY <1>6, <1>10, <2>0, <2>1
  <2>2. CASE Right(a, b) /\ ~(a = to /\ b \in m.data)
    BY <1>1, <1>7, <2>0, <2>2 DEF Right
  <2>3. ASSUME NEW k \in Changes, ComingToList(k, a, b) PROVE Coming(a, b)'
    <3>1. job'[k] = job[k] /\ Joins(a) /\ job[k].by \in Nodes
      BY <1>3, <2>3, JobFacts DEF ComingToList
    <3>2. ~Leaves(b)
      BY <2>0, <3>1 DEF Overlaps, Changing, Doubtful
    <3>. QED
      BY <1>8, <2>3, <3>1, <3>2 DEF ComingToList, Coming
  <2>4. ASSUME NEW k \in Changes, ComingToOthers(k, a, b) PROVE Coming(a, b)'
    <3>1. /\ Working(k)' /\ job'[k].node = job[k].node /\ job'[k].by = job[k].by
          /\ job[k].by \in Nodes /\ Changing(b)
      BY <1>3, <2>4, JobFacts DEF ComingToOthers
    <3>2. ~Leaves(a)
      BY <2>0, <3>1 DEF Overlaps, TrueNews, Doubtful
    <3>. QED
      BY <1>8, <2>0, <2>4, <3>1, <3>2 DEF ComingToOthers, Coming
  <2>5. ASSUME NEW k \in wire, OnItsWay(k, a, b), k # m PROVE Coming(a, b)'
    BY <1>1, <2>5 DEF OnItsWay, Coming
  <2>. QED
    BY <2>0, <2>1, <2>2, <2>3, <2>4, <2>5 DEF Told, Coming, OnItsWay
<1>. QED
  BY <1>4, <1>9, <1>10, ShrinksKeeps DEF Kept, Told
-----------------------------------------------------------------------------
\* A change comes to where it has changed its node's list.
Changed(j, n, p, y) ==
    /\ j \in Changes /\ n \in Nodes /\ y \in Nodes /\ n # y
    /\ ~Working(j) /\ Working(j)'
    /\ job'[j].at = p /\ job'[j].by = n /\ job'[j].node = y
    /\ \A k \in Changes \ {j} : job'[k] = job[k] /\ (Working(k)' <=> Working(k))
    /\ wire' = wire

LEMMA ChangedFacts ==
  ASSUME TypeOK, NEW j, NEW n, NEW p \in {"list", "untell"}, NEW y, Changed(j, n, p, y)
  PROVE  /\ \A w : Joins(w)' <=> Joins(w) \/ (w = y /\ p = "list")
         /\ \A w : Leaves(w)' <=> Leaves(w) \/ (w = y /\ p = "untell")
         /\ \A w : Changing(w)' <=> Changing(w) \/ w = y
<1>1. job[j].at # "untell"
  BY JobFacts DEF Changed
<1>2. \A w : Joins(w)' <=> Joins(w) \/ (w = y /\ p = "list")
  BY DEF Changed, Joins, Subject
<1>3. \A w : Leaves(w)' <=> Leaves(w) \/ (w = y /\ p = "untell")
  BY <1>1 DEF Changed, Leaves
<1>. QED
  BY <1>2, <1>3 DEF Changing

LEMMA AddChanges ==
  ASSUME IInv, NEW j \in Changes, Add(j)
  PROVE  \E n, y \in Nodes : n = job[j].by /\ y = job[j].node /\ Changed(j, n, "list", y)
<1>1. /\ TypeOK /\ job[j].at = "add" /\ job[j] # Idle /\ At(j, "list") /\ wire' = wire
      /\ job[j].by \in Nodes /\ job[j].node \in Nodes /\ job[j].by # job[j].node
  BY JobFacts DEF IInv, Add, Workers
<1>2. ~Working(j)
  BY <1>1 DEF Working
<1>3. PICK n, y \in Nodes : n = job[j].by /\ y = job[j].node
  BY <1>1
<1>4. Changed(j, n, "list", y)
  BY <1>1, <1>2, <1>3, AtFacts DEF Changed
<1>. QED
  BY <1>3, <1>4

LEMMA RemoveChanges ==
  ASSUME IInv, NEW n \in Nodes, NEW z \in Nodes, Remove(n, z)
  PROVE  \E j \in Changes : Changed(j, n, "untell", z)
<1>1. TypeOK /\ Workers /\ Start(n, "untell", z) /\ n # z
  BY DEF IInv, Remove
<1>2. PICK j \in Changes : j = changes + 1
  BY <1>1, StartFacts
<1>3. /\ job[j] = Idle /\ wire' = wire
      /\ job'[j] = [at |-> "untell", by |-> n, node |-> z]
      /\ \A k \in Changes \ {j} : job'[k] = job[k]
  BY <1>1, <1>2, StartFacts
<1>4. ~Working(j) /\ Working(j)'
  BY <1>3 DEF Working, Idle
<1>5. \A k \in Changes \ {j} : Working(k)' <=> Working(k)
  BY <1>3 DEF Working
<1>. QED
  BY <1>1, <1>3, <1>4, <1>5 DEF Changed

\* Where more than admissions of newcomers by others overlap.
LEMMA AddDoubts ==
  ASSUME IInv, NEW j \in Changes, Add(j), NEW z \in Nodes,
         \/ Leaves(z) \/ Changing(job[j].by) \/ (job[j].node \in members /\ Changing(z))
         \/ job[j].by \notin members
  PROVE  /\ Doubtful(job[j].node)' /\ (job[j].by \notin members => Doubtful(job[j].by)')
         /\ \A w \in Nodes : Changing(w) => Doubtful(w)'
<1>. DEFINE n == job[j].by
            y == job[j].node
<1>0. TypeOK /\ n \in Nodes /\ y \in Nodes
      /\ job'[j].by = n /\ job'[j].node = y
  BY AddChanges DEF IInv, Changed
<1>1. Leaves(z) => Removing
  BY DEF Leaves, Removing
<1>2. n \notin members \/ (Pending # {} /\ (Removing \/ n \in Pending \/ y \in members))
  BY <1>0, <1>1, PendingFacts DEF Changing
<1>3. AllAbout(Pending \cup {y}) \subseteq odd' /\ (n \notin members => AllAbout({n}) \subseteq odd')
  BY <1>2 DEF Add, Together, AllAbout
<1>4. \A w \in Pending \cup {y} : \A x \in Nodes : <<x, w>> \in odd' /\ <<w, x>> \in odd'
  BY <1>3 DEF AllAbout
<1>5. n \notin members => \A x \in Nodes : <<x, n>> \in odd' /\ <<n, x>> \in odd'
  BY <1>3 DEF AllAbout
<1>. QED
  BY <1>0, <1>4, <1>5, PendingFacts DEF Doubtful, Odd

\* A removal that overlaps with any other change.
LEMMA RemoveDoubts ==
  ASSUME TypeOK, NEW n \in Nodes, NEW z \in Nodes, Remove(n, z), NEW w \in Nodes, Changing(w)
  PROVE  Doubtful(w)' /\ Doubtful(z)'
<1>1. w \in Pending
  BY PendingFacts
<1>2. AllAbout(Pending \cup {z}) \subseteq odd'
  BY <1>1 DEF Remove, Overtaken
<1>. QED
  BY <1>1, <1>2 DEF AllAbout, Doubtful, Odd

\* The look for a newcomer changes no list.
LEMMA JoinKeeps ==
  ASSUME IInv, NEW n \in Nodes, NEW y \in Nodes, Join(n, y)
  PROVE  Kept
<1>1. /\ TypeOK /\ Workers /\ Start(n, "add", y)
      /\ UNCHANGED <<list, wire, members, odd>>
  BY DEF IInv, Join, Start
<1>2. PICK j \in Changes : j = changes + 1
  BY <1>1, StartFacts
<1>3. /\ job[j] = Idle /\ job'[j] = [at |-> "add", by |-> n, node |-> y]
      /\ \A k \in Changes \ {j} : job'[k] = job[k]
  BY <1>1, <1>2, StartFacts
<1>4. /\ job[j].at = "idle" /\ job'[j].at = "add" /\ ~Working(j) /\ ~Working(j)'
      /\ \A k \in Changes \ {j} : Working(k)' <=> Working(k)
  BY <1>3 DEF Working, Idle
<1>5. \A k \in Changes : /\ Working(k)' <=> Working(k)
                         /\ Working(k) => job'[k].by = job[k].by /\ job'[k].node = job[k].node
                         /\ job'[k].at = "list" <=> job[k].at = "list"
                         /\ job'[k].at = "untell" <=> job[k].at = "untell"
  BY <1>3, <1>4
<1>. QED
  BY <1>1, <1>5, WaitKeeps

LEMMA AddKeeps ==
  ASSUME IInv, NEW j \in Changes, Add(j)
  PROVE  Kept
<1>. USE DEF IInv
<1>0. PICK n, y \in Nodes : n = job[j].by /\ y = job[j].node /\ Changed(j, n, "list", y)
  BY AddChanges
<1>1. /\ n \in Nodes /\ y \in Nodes /\ y # n /\ job[j].by = n /\ job[j].node = y
      /\ ~Working(j) /\ Working(j)' /\ job'[j].at = "list" /\ job'[j].by = n /\ job'[j].node = y
      /\ \A k \in Changes \ {j} : job'[k] = job[k] /\ (Working(k)' <=> Working(k))
      /\ wire' = wire
  BY <1>0 DEF Changed
<1>2. /\ \A w : Joins(w)' <=> Joins(w) \/ w = y
      /\ \A w : Leaves(w)' <=> Leaves(w)
      /\ \A w : Changing(w)' <=> Changing(w) \/ w = y
  BY <1>0, ChangedFacts
<1>3. /\ members' = IF n \in members THEN members \cup {y} ELSE members
      /\ list'[n] = list[n] \cup {y}
      /\ \A k \in Nodes \ {n} : list'[k] = list[k]
      /\ odd' = odd \cup Unheard(n, y) \cup Hearsay(n, y) \cup Together(n, y)
  BY <1>1 DEF Add, Put, TypeOK
<1>4. \A a, b : <<a, b>> \in odd => <<a, b>> \in odd'
  BY <1>3
<1>5. \A w \in Nodes : Doubtful(w) => Doubtful(w)'
  BY <1>4 DEF Doubtful, Odd
<1>6. \A w \in Nodes : Changing(w) => <<w, y>> \in odd' /\ <<y, w>> \in odd'
  BY <1>1, <1>3, PendingFacts DEF Together, AllAbout
<1>7. ASSUME NEW z \in Nodes, \/ Leaves(z) \/ Changing(n) \/ (y \in members /\ Changing(z))
                              \/ n \notin members
      PROVE  /\ \A x \in Nodes : <<x, y>> \in odd' /\ <<y, x>> \in odd'
             /\ \A w \in Nodes : Changing(w) => Doubtful(w)'
  BY <1>1, <1>7, AddDoubts DEF Doubtful, Odd
<1>8. Overlaps'
  <2>1. ASSUME NEW z \in Nodes, NEW w \in Nodes, Leaves(z)', Changing(w)', z # w
        PROVE  Doubtful(z)' /\ Doubtful(w)'
    BY <1>2, <1>7, <2>1 DEF Changing, Doubtful, Odd
  <2>2. ASSUME NEW z \in Nodes, Leaves(z)', Joins(z)' PROVE Doubtful(z)'
    BY <1>2, <1>7, <2>2 DEF Changing
  <2>3. \A w, v \in Nodes : Joins(w)' /\ Joins(v)' /\ w # v => <<w, v>> \in odd'
    BY <1>2, <1>4, <1>6 DEF Overlaps, Changing, Odd
  <2>4. ASSUME NEW k \in Changes, Working(k)', Changing(job[k].by)' \/ job'[k].by \notin members'
        PROVE  Doubtful(job[k].node)'
    <3>1. Changing(job[k].by)' => Changing(job'[k].by) \/ job'[k].by = y
      BY <1>2 DEF Changing, Joins, Leaves
    <3>2. CASE k = j
      <4>1. Changing(n) \/ n \notin members
        BY <1>1, <1>3, <2>4, <3>1, <3>2
      <4>2. \A x \in Nodes : <<x, y>> \in odd' /\ <<y, x>> \in odd'
        BY <1>1, <1>7, <4>1
      <4>. QED
        BY <1>1, <3>2, <4>2 DEF Doubtful, Odd
    <3>3. CASE k # j
      <4>1. /\ job'[k] = job[k] /\ Working(k) /\ job[k].node \in Nodes /\ job[k].by \in Nodes
            /\ Changing(job[k].node)
        BY <1>1, <2>4, <3>3, JobFacts
      <4>2. CASE Changing(job[k].by) \/ job[k].by \notin members
        <5>1. \A x \in Nodes : <<x, job[k].node>> \in odd' /\ <<job[k].node, x>> \in odd'
          BY <1>4, <4>1, <4>2 DEF Overlaps, Doubtful, Odd
        <5>. QED
          BY <4>1, <5>1 DEF Doubtful, Odd
      <4>3. CASE job[k].by = y /\ y \in members
        <5>1. \A w \in Nodes : Changing(w) => Doubtful(w)'
          BY <1>7, <4>1, <4>3
        <5>2. \A w \in Nodes : w = job'[k].node /\ Changing(w) => Doubtful(w)'
          BY <5>1
        <5>. QED
          BY <4>1, <5>2 DEF Doubtful
      <4>. QED
        BY <1>3, <2>4, <3>1, <4>1, <4>2, <4>3
    <3>. QED
      BY <3>2, <3>3
  <2>. QED
    BY <2>1, <2>2, <2>3, <2>4 DEF Overlaps, Odd
<1>9. TrueNews'
  <2>1. \A a, z \in Nodes : Leaves(z)' /\ <<a, z>> \notin odd' => z \notin members'
    <3>1. ASSUME NEW a \in Nodes, NEW z \in Nodes, Leaves(z), <<a, z>> \notin odd'
          PROVE  z \notin members /\ z # y
      BY <1>4, <1>7, <3>1 DEF TrueNews, Odd
    <3>. QED
      BY <1>2, <1>3, <3>1
  <2>2. ASSUME NEW a \in Nodes, NEW w \in Nodes, Joins(w)', <<a, w>> \notin odd'
        PROVE  w \in members'
    <3>1. CASE w = y
      BY <1>1, <1>3, <1>7, <2>2, <3>1
    <3>2. CASE w # y
      BY <1>2, <1>3, <1>4, <2>2, <3>2 DEF TrueNews, Odd
    <3>. QED
      BY <3>1, <3>2
  <2>. QED
    BY <2>1, <2>2 DEF TrueNews, Odd
\* The list the newcomer is sent agrees with the members.
<1>10. ASSUME NEW b \in Nodes, b # y, <<y, b>> \notin odd'
       PROVE  (b \in members <=> b \in list[n]) /\ (b \in list[y] => b \in members)
  BY <1>3, <1>10 DEF Hearsay
<1>11. TrueLists'
  <2>1. ASSUME NEW k \in Changes, NEW b \in Nodes,
               job'[k].at = "list", b # job'[k].node, <<job'[k].node, b>> \notin odd'
        PROVE  b \in list'[job'[k].by] <=> b \in members'
    <3>1. CASE k = j
      BY <1>1, <1>3, <1>10, <2>1, <3>1
    <3>2. CASE k # j
      <4>1. /\ job'[k] = job[k] /\ Changing(job[k].node) /\ job[k].node \in Nodes
            /\ job[k].by \in Nodes
        BY <1>1, <2>1, <3>2, JobFacts DEF Changing
      <4>2. b # y /\ <<job[k].node, b>> \notin odd
        BY <1>4, <1>6, <2>1, <4>1
      <4>3. b \in list'[job[k].by] <=> b \in list[job[k].by]
        BY <1>3, <4>1, <4>2
      <4>. QED
        BY <1>3, <2>1, <4>1, <4>2, <4>3 DEF TrueLists, Odd
    <3>. QED
      BY <3>1, <3>2
  <2>2. ASSUME NEW m \in wire', NEW b \in Nodes, m.type = "nodeList", b # m.to,
               <<m.to, b>> \notin odd'
        PROVE  b \in m.data <=> b \in members'
    <3>1. m \in wire /\ Changing(m.to) /\ m.to \in Nodes
      BY <1>1, <2>2, WireFacts DEF Changing
    <3>2. b # y /\ <<m.to, b>> \notin odd
      BY <1>4, <1>6, <2>2, <3>1
    <3>. QED
      BY <1>3, <2>2, <3>1, <3>2 DEF TrueLists, Odd
  <2>. QED
    BY <2>1, <2>2 DEF TrueLists, Odd
<1>12. ASSUME NEW a \in members', NEW b \in Nodes, <<a, b>> \notin odd'
       PROVE  Right(a, b)' \/ Coming(a, b)'
  <2>0. a \in Nodes
    BY <1>1, <1>3 DEF TypeOK
  <2>1. CASE a = y
    <3>1. CASE b = y
      BY <1>1, <1>3, <1>12, <2>1, <3>1 DEF Right, ListsItself
    <3>2. CASE b # y
      BY <1>1, <1>3, <1>10, <1>12, <2>1, <3>2 DEF Right, Coming, ComingToList
    <3>. QED
      BY <3>1, <3>2
  <2>2. CASE a # y /\ b = y
    <3>1. n \in members
      BY <1>1, <1>7, <1>12, <2>0, <2>2
    <3>2. a \in list[n]
      BY <1>3, <1>12, <2>2, <3>1 DEF Unheard
    <3>. QED
      BY <1>1, <1>3, <2>0, <2>2, <3>1, <3>2 DEF Right, Coming, ComingToOthers
  <2>3. CASE a # y /\ b # y
    <3>1. a \in members /\ ~Odd(a, b)
      BY <1>3, <1>4, <1>12, <2>3 DEF Odd
    <3>2. CASE Right(a, b)
      BY <1>3, <2>0, <2>3, <3>2 DEF Right
    <3>3. ASSUME NEW k \in Changes, ComingToList(k, a, b) \/ ComingToOthers(k, a, b)
          PROVE  Coming(a, b)'
      <4>1. Working(k) /\ k # j /\ job[k].by \in Nodes
        BY <1>1, <3>3, JobFacts DEF ComingToList, ComingToOthers
      <4>2. list[job[k].by] \subseteq list'[job[k].by]
        BY <1>3, <4>1
      <4>. QED
        BY <1>1, <3>3, <4>1, <4>2 DEF ComingToList, ComingToOthers, Coming
    <3>4. ASSUME NEW m \in wire, OnItsWay(m, a, b) PROVE Coming(a, b)'
      BY <1>1, <3>4 DEF OnItsWay, Coming
    <3>. QED
      BY <3>1, <3>2, <3>3, <3>4 DEF Told, Coming
  <2>. QED
    BY <2>1, <2>2, <2>3
<1>. QED
  BY <1>8, <1>9, <1>11, <1>12 DEF Kept, Told, Odd

LEMMA RemoveKeeps ==
  ASSUME IInv, NEW n \in Nodes, NEW z \in Nodes, Remove(n, z)
  PROVE  Kept
<1>. USE DEF IInv
<1>0. PICK j \in Changes : Changed(j, n, "untell", z)
  BY RemoveChanges
<1>1. /\ z # n
      /\ ~Working(j) /\ Working(j)' /\ job'[j].at = "untell" /\ job'[j].by = n /\ job'[j].node = z
      /\ \A k \in Changes \ {j} : job'[k] = job[k] /\ (Working(k)' <=> Working(k))
      /\ wire' = wire
  BY <1>0 DEF Changed
<1>2. /\ \A w : Joins(w)' <=> Joins(w)
      /\ \A w : Leaves(w)' <=> Leaves(w) \/ w = z
      /\ \A w : Changing(w)' <=> Changing(w) \/ w = z
  BY <1>0, ChangedFacts
<1>3. /\ members' = IF n \in members THEN members \ {z} ELSE members
      /\ list'[n] = list[n] \ {z}
      /\ \A k \in Nodes \ {n} : list'[k] = list[k]
      /\ odd' = odd \cup (IF n \in members THEN Unheard(n, z) ELSE AllAbout({z})) \cup Overtaken(z)
  BY DEF Remove, Put, TypeOK
<1>4. \A a, b : Odd(a, b) => Odd(a, b)'
  BY <1>3 DEF Odd
<1>5. n \notin members => Doubtful(z)'
  BY <1>3 DEF AllAbout, Doubtful, Odd
<1>6. ASSUME NEW w \in Nodes, Changing(w) PROVE Doubtful(w)' /\ Doubtful(z)'
  BY <1>6, RemoveDoubts
<1>7. \A k \in Changes : Working(k) => /\ job[k].node \in Nodes /\ Changing(job[k].node)
                                       /\ job[k].by \in Nodes
  BY JobFacts
\* What was under way is in doubt.
<1>8. \A k \in Changes, x \in Nodes :
          Working(k) => <<x, job[k].node>> \in odd' /\ <<job[k].node, x>> \in odd'
  BY <1>6, <1>7 DEF Doubtful, Odd
<1>9. Overlaps'
  <2>1. \A a, w \in Nodes : Leaves(a)' /\ Changing(w)' /\ a # w => Doubtful(a)' /\ Doubtful(w)'
    BY <1>2, <1>6 DEF Changing
  <2>2. \A a \in Nodes : Leaves(a)' /\ Joins(a)' => Doubtful(a)'
    BY <1>2, <1>6 DEF Changing
  <2>3. \A w, v \in Nodes : Joins(w)' /\ Joins(v)' /\ w # v => Odd(w, v)'
    BY <1>2, <1>4 DEF Overlaps
  <2>4. ASSUME NEW k \in Changes, Working(k)', Changing(job[k].by)' \/ job'[k].by \notin members'
        PROVE  Doubtful(job[k].node)'
    <3>1. CASE k = j
      <4>1. Changing(job[k].by)' => Changing(n)
        BY <1>1, <1>2, <3>1 DEF Changing, Joins, Leaves
      <4>2. Doubtful(z)'
        BY <1>1, <1>3, <1>5, <1>6, <2>4, <3>1, <4>1
      <4>. QED
        BY <1>1, <3>1, <4>2 DEF Doubtful
    <3>2. CASE k # j
      BY <1>1, <1>8, <2>4, <3>2 DEF Doubtful, Odd
    <3>. QED
      BY <3>1, <3>2
  <2>. QED
    BY <2>1, <2>2, <2>3, <2>4 DEF Overlaps
<1>10. TrueNews'
  <2>1. ASSUME NEW a \in Nodes, NEW w \in Nodes, Leaves(w)', ~Odd(a, w)' PROVE w \notin members'
    <3>1. CASE w = z
      BY <1>3, <1>5, <2>1, <3>1 DEF Doubtful
    <3>2. CASE w # z
      BY <1>2, <1>3, <1>4, <2>1, <3>2 DEF TrueNews
    <3>. QED
      BY <3>1, <3>2
  <2>2. \A a, w \in Nodes : Joins(w)' => Odd(a, w)'
    BY <1>2, <1>6 DEF Changing, Doubtful
  <2>. QED
    BY <2>1, <2>2 DEF TrueNews
<1>11. TrueLists'
  <2>1. \A k \in Changes, b \in Nodes : job'[k].at = "list" => <<job'[k].node, b>> \in odd'
    <3>1. \A k \in Changes : job'[k].at = "list" => job'[k] = job[k] /\ Working(k)
      BY <1>1, JobFacts
    <3>. QED
      BY <1>8, <3>1
  <2>2. \A m \in wire', b \in Nodes : m.type = "nodeList" => <<m.to, b>> \in odd'
    <3>1. \A m \in wire' : m.type = "nodeList" => m.to \in Nodes /\ Changing(m.to)
      BY <1>1, WireFacts DEF Changing
    <3>. QED
      BY <1>6, <3>1 DEF Doubtful, Odd
  <2>. QED
    BY <2>1, <2>2 DEF TrueLists, Odd
<1>12. ASSUME NEW a \in members', NEW b \in Nodes, ~Odd(a, b)'
       PROVE  Right(a, b)' \/ Coming(a, b)'
  <2>0. a \in members /\ a \in Nodes /\ ~Odd(a, b) /\ ~Doubtful(a)' /\ ~Doubtful(b)'
    BY <1>3, <1>4, <1>12 DEF TypeOK, Doubtful
  <2>1. ~Coming(a, b)
    <3>1. ~Changing(a) /\ ~Changing(b)
      BY <1>6, <2>0
    <3>2. \A k \in Changes : ~ComingToList(k, a, b) /\ ~ComingToOthers(k, a, b)
      BY <1>7, <3>1, JobFacts DEF ComingToList, ComingToOthers
    <3>3. \A m \in wire : ~OnItsWay(m, a, b)
      BY <3>1, WireFacts DEF OnItsWay, Changing
    <3>. QED
      BY <3>2, <3>3 DEF Coming
  <2>2. Right(a, b)
    BY <2>0, <2>1 DEF Told
  <2>3. CASE b # z
    BY <1>3, <2>0, <2>2, <2>3 DEF Right
  <2>4. CASE b = z
    <3>1. n \in members /\ a # z
      BY <1>3, <1>5, <1>12, <2>0, <2>4
    <3>2. a \in list[n]
      BY <1>3, <1>12, <2>0, <2>4, <3>1 DEF Unheard, Odd
    <3>3. CASE a = n
      BY <1>3, <2>4, <3>1, <3>3 DEF Right
    <3>4. CASE a # n
      BY <1>1, <1>3, <2>4, <3>1, <3>2, <3>4 DEF Coming, ComingToOthers
    <3>. QED
      BY <3>3, <3>4
  <2>. QED
    BY <2>3, <2>4
<1>. QED
  BY <1>9, <1>10, <1>11, <1>12 DEF Kept, Told
-----------------------------------------------------------------------------
(* Senders.  Who is heard of while it is itself being admitted or removed,  *)
(* or as no member, is in doubt: its news may be refused.                   *)

Admits(n) ==
    \/ \E j \in Changes : Working(j) /\ job[j].by = n /\ job[j].at # "untell"
    \/ \E m \in wire : m.from = n /\ m.type # "removeNode"
Active(n) ==
    \/ \E j \in Changes : Working(j) /\ job[j].by = n
    \/ \E m \in wire : m.from = n

Senders ==
    /\ \A m \in wire : m.type # "nodeList" => m.data # {}
    /\ \A n \in Nodes : Active(n) /\ Changing(n) => Doubtful(n)
    /\ \A n \in Nodes \ members : Admits(n) => Doubtful(n)

LEMMA ActiveFacts ==
  ASSUME TypeOK, Senders, NEW n \in Nodes, Active(n)
  PROVE  /\ \E w \in Nodes : Changing(w)
         /\ Admits(n) \/ \E w \in Nodes : Leaves(w)
<1>1. ASSUME NEW j \in Changes, Working(j), job[j].by = n
      PROVE  (\E w \in Nodes : Changing(w)) /\ (Admits(n) \/ \E w \in Nodes : Leaves(w))
  <2>1. job[j].node \in Nodes /\ Changing(job[j].node)
    BY <1>1, JobFacts
  <2>2. CASE job[j].at = "untell"
    BY <2>1, <2>2 DEF Leaves
  <2>3. CASE job[j].at # "untell"
    BY <1>1, <2>1, <2>3 DEF Admits
  <2>. QED
    BY <2>1, <2>2, <2>3
<1>2. ASSUME NEW m \in wire, m.from = n
      PROVE  (\E w \in Nodes : Changing(w)) /\ (Admits(n) \/ \E w \in Nodes : Leaves(w))
  <2>1. CASE m.type = "removeNode"
    <3>1. PICK w \in m.data : w \in Nodes /\ Leaves(w)
      BY <2>1, WireFacts DEF Senders
    <3>. QED
      BY <3>1 DEF Changing
  <2>2. CASE m.type = "nodeJoined"
    <3>1. PICK w \in m.data : w \in Nodes /\ Joins(w)
      BY <2>2, WireFacts DEF Senders
    <3>. QED
      BY <1>2, <2>2, <3>1 DEF Changing, Admits
  <2>3. CASE m.type = "nodeList"
    BY <1>2, <2>3, WireFacts DEF Changing, Admits
  <2>. QED
    BY <2>1, <2>2, <2>3, WireFacts
<1>. QED
  BY <1>1, <1>2 DEF Active

\* Steps that change no list of their own accord: those at work go on with it
\* and send news of it.
LEMMA NarrowsKeeps ==
  ASSUME TypeOK, Senders, members' = members, odd \subseteq odd',
         \A j \in Changes : Working(j)' =>
             /\ Working(j) /\ job'[j].by = job[j].by /\ job'[j].node = job[j].node
             /\ job'[j].at = "untell" <=> job[j].at = "untell",
         \A m \in wire' \ wire : \E j \in Changes :
             /\ Working(j) /\ m.from = job[j].by /\ Subject(m) = {job[j].node}
             /\ m.type # "nodeList" => m.data # {}
             /\ m.type = "removeNode" <=> job[j].at = "untell"
  PROVE  Senders'
<1>1. \A n \in Nodes : Active(n)' => Active(n)
  BY DEF Active
<1>2. \A n \in Nodes : Admits(n)' => Admits(n)
  BY DEF Admits
<1>3. \A y : Changing(y) <=> \/ \E j \in Changes : Working(j) /\ job[j].node = y
                             \/ \E m \in wire : y \in Subject(m)
  BY PendingFacts DEF Pending
<1>4. ASSUME NEW y \in Nodes, Changing(y)' PROVE Changing(y)
  <2>1. \/ \E j \in Changes : Working(j)' /\ job'[j].node = y
        \/ \E j \in Changes : job'[j].at = "untell" /\ job'[j].node = y
        \/ \E m \in wire' : y \in Subject(m)
    BY <1>4 DEF Changing, Joins, Leaves, Subject
  <2>2. \A j \in Changes : job'[j].at = "untell" => Working(j)'
    BY DEF Working
  <2>. QED
    BY <1>3, <2>1, <2>2
<1>5. \A n : Doubtful(n) => Doubtful(n)'
  BY DEF Doubtful, Odd
<1>. QED
  BY <1>1, <1>2, <1>4, <1>5 DEF Senders

LEMMA AddSenders ==
  ASSUME IInv, Senders, NEW j \in Changes, Add(j)
  PROVE  Senders'
<1>. USE DEF IInv
<1>0. PICK n, y \in Nodes : n = job[j].by /\ y = job[j].node /\ Changed(j, n, "list", y)
  BY AddChanges
<1>1. /\ y # n /\ job[j].by = n /\ job[j].node = y
      /\ members' = IF n \in members THEN members \cup {y} ELSE members
      /\ odd \subseteq odd'
  BY <1>0 DEF Add, Changed
<1>2. /\ Working(j)' /\ job'[j].at = "list" /\ job'[j].by = n /\ job'[j].node = y
      /\ \A k \in Changes \ {j} : job'[k] = job[k] /\ (Working(k)' <=> Working(k))
      /\ wire' = wire
      /\ \A w : Changing(w)' <=> Changing(w) \/ w = y
  BY <1>0, ChangedFacts DEF Changed
<1>3. \A k \in Nodes \ {n} : (Active(k)' <=> Active(k)) /\ (Admits(k)' <=> Admits(k))
  BY <1>2, <1>0 DEF Active, Admits, Changed
<1>4. \A k : Doubtful(k) => Doubtful(k)'
  BY <1>1 DEF Doubtful, Odd
<1>5. ASSUME NEW z \in Nodes, \/ Leaves(z) \/ Changing(n) \/ (y \in members /\ Changing(z))
                              \/ n \notin members
      PROVE  /\ Doubtful(y)' /\ (n \notin members => Doubtful(n)')
             /\ \A w \in Nodes : Changing(w) => Doubtful(w)'
  BY <1>1, <1>2, <1>5, AddDoubts DEF Doubtful
<1>6. ASSUME NEW k \in Nodes, Active(k)', Changing(k)' PROVE Doubtful(k)'
  <2>1. CASE k = n
    <3>1. Changing(n)
      BY <1>1, <1>2, <1>6, <2>1
    <3>. QED
      BY <1>5, <2>1, <3>1
  <2>2. CASE k # n /\ k # y
    BY <1>2, <1>3, <1>4, <1>6, <2>2 DEF Senders
  <2>3. CASE k = y
    <3>1. Active(y)
      BY <1>1, <1>3, <1>6, <2>3
    <3>2. CASE y \in members
      BY <1>5, <2>3, <3>1, <3>2, ActiveFacts
    <3>3. CASE y \notin members /\ Admits(y)
      BY <1>4, <2>3, <3>3 DEF Senders
    <3>4. CASE ~Admits(y)
      BY <1>5, <2>3, <3>1, <3>4, ActiveFacts
    <3>. QED
      BY <3>2, <3>3, <3>4
  <2>. QED
    BY <2>1, <2>2, <2>3
<1>7. ASSUME NEW k \in Nodes \ members', Admits(k)' PROVE Doubtful(k)'
  <2>1. CASE k = n
    BY <1>1, <1>5, <1>7, <2>1
  <2>2. CASE k # n
    BY <1>1, <1>3, <1>4, <1>7, <2>2 DEF Senders
  <2>. QED
    BY <2>1, <2>2
<1>. QED
  BY <1>2, <1>6, <1>7 DEF Senders

LEMMA RemoveSenders ==
  ASSUME IInv, Senders, NEW n \in Nodes, NEW z \in Nodes, Remove(n, z)
  PROVE  Senders'
<1>. USE DEF IInv
<1>0. PICK j \in Changes : Changed(j, n, "untell", z)
  BY RemoveChanges
<1>1. z # n /\ members' = IF n \in members THEN members \ {z} ELSE members
  BY DEF Remove
<1>2. /\ ~Working(j) /\ Working(j)' /\ job'[j].at = "untell" /\ job'[j].by = n
      /\ \A k \in Changes \ {j} : job'[k] = job[k] /\ (Working(k)' <=> Working(k))
      /\ wire' = wire
      /\ \A w : Changing(w)' <=> Changing(w) \/ w = z
  BY <1>0, ChangedFacts DEF Changed
<1>3. /\ \A k \in Nodes \ {n} : Active(k)' <=> Active(k)
      /\ \A k \in Nodes : Admits(k)' => Admits(k)
  BY <1>2 DEF Active, Admits
<1>4. \A k : Doubtful(k) => Doubtful(k)'
  BY DEF Remove, Doubtful, Odd
<1>5. ASSUME NEW k \in Nodes, Active(k)', Changing(k)' PROVE Doubtful(k)'
  <2>1. CASE Changing(k)
    BY <2>1, RemoveDoubts
  <2>2. CASE k = z
    <3>1. Active(z)
      BY <1>1, <1>3, <1>5, <2>2
    <3>. QED
      BY <2>2, <3>1, ActiveFacts, RemoveDoubts
  <2>. QED
    BY <1>2, <1>5, <2>1, <2>2
<1>6. ASSUME NEW k \in Nodes \ members', Admits(k)' PROVE Doubtful(k)'
  <2>1. Admits(k) /\ Active(k)
    BY <1>3, <1>6 DEF Admits, Active
  <2>2. CASE k \notin members
    BY <1>4, <2>1, <2>2 DEF Senders
  <2>3. CASE k \in members
    <3>1. k = z
      BY <1>1, <1>6, <2>3
    <3>. QED
      BY <2>1, <3>1, ActiveFacts, RemoveDoubts
  <2>. QED
    BY <2>2, <2>3
<1>. QED
  BY <1>2, <1>5, <1>6 DEF Senders

LEMMA SendersStep == IInv /\ Senders /\ [Next]_vars => Senders'
<1>. SUFFICES ASSUME IInv, Senders, [Next]_vars PROVE Senders'
  OBVIOUS
<1>. USE DEF IInv
<1>1. ASSUME NEW n \in Nodes, NEW y \in Nodes, Join(n, y) PROVE Senders'
  <2>1. Start(n, "add", y) /\ wire' = wire /\ members' = members /\ odd' = odd
    BY <1>1 DEF Join, Start
  <2>2. PICK j \in Changes : j = changes + 1
    BY <2>1, StartFacts
  <2>3. /\ job'[j] = [at |-> "add", by |-> n, node |-> y]
        /\ \A k \in Changes \ {j} : job'[k] = job[k]
    BY <2>1, <2>2, StartFacts
  <2>4. ~Working(j)' /\ \A k \in Changes \ {j} : Working(k)' <=> Working(k)
    BY <2>3 DEF Working
  <2>. QED
    BY <2>1, <2>3, <2>4, NarrowsKeeps
<1>2. ASSUME NEW j \in Changes, SendList(j) PROVE Senders'
  <2>1. Working(j) /\ job[j].at = "list" /\ job[j] # Idle
    BY <1>2, JobFacts DEF SendList
  <2>2. \A k \in Changes : Working(k)' =>
            /\ Working(k) /\ job'[k].by = job[k].by /\ job'[k].node = job[k].node
            /\ job'[k].at = "untell" <=> job[k].at = "untell"
    BY <1>2, <2>1, AtFacts DEF SendList
  <2>3. \A m \in wire' \ wire : /\ m.from = job[j].by /\ m.type = "nodeList"
                                /\ Subject(m) = {job[j].node}
    BY <1>2 DEF SendList, Subject
  <2>. QED
    BY <1>2, <2>1, <2>2, <2>3, NarrowsKeeps DEF SendList
<1>3. ASSUME NEW j \in Changes, NEW t \in {"nodeJoined", "removeNode"}, Broadcast(j, t),
             Done({j}), Working(j), t = "removeNode" <=> job[j].at = "untell",
             UNCHANGED <<list, running, members, odd, counters>>
      PROVE  Senders'
  <2>1. job[j] # Idle
    BY <1>3, JobFacts
  <2>2. \A k \in Changes : Working(k)' =>
            /\ Working(k) /\ job'[k].by = job[k].by /\ job'[k].node = job[k].node
            /\ job'[k].at = "untell" <=> job[k].at = "untell"
    BY <1>3, DoneFacts
  <2>3. \A m \in wire' \ wire : m.type = t /\ m.from = job[j].by /\ m.data = {job[j].node}
    BY <1>3, <2>1, BroadcastFacts
  <2>4. \A m \in wire' \ wire : Subject(m) = {job[j].node} /\ m.data # {}
    BY <2>3 DEF Subject
  <2>. QED
    BY <1>3, <2>2, <2>3, <2>4, NarrowsKeeps
<1>4. ASSUME NEW j \in Changes, Tell(j) \/ Untell(j) PROVE Senders'
  <2>1. Working(j)
    BY <1>4, JobFacts DEF Tell, Untell
  <2>. QED
    BY <1>3, <1>4, <2>1 DEF Tell, Untell
<1>5. ASSUME NEW m \in wire, Deliver(m) \/ Lose(m) PROVE Senders'
  <2>1. wire' = wire \ {m} /\ members' = members /\ odd \subseteq odd' /\ Answered(m)
    BY <1>5 DEF Deliver, Lose
  <2>. QED
    BY <2>1, AnsweredFacts, NarrowsKeeps
<1>6. ASSUME NEW j \in Changes, GiveUp(j) PROVE Senders'
  <2>1. Working(j) /\ job[j] # Idle /\ job[j].at = "answer" /\ At(j, "tell")
    BY <1>6, JobFacts DEF GiveUp
  <2>2. \A k \in Changes : Working(k)' =>
            /\ Working(k) /\ job'[k].by = job[k].by /\ job'[k].node = job[k].node
            /\ job'[k].at = "untell" <=> job[k].at = "untell"
    BY <2>1, AtFacts
  <2>. QED
    BY <1>6, <2>2, NarrowsKeeps DEF GiveUp
<1>7. ASSUME NEW n \in Nodes, Crash(n) \/ Restart(n) PROVE Senders'
  <2>1. \A k \in Changes : Working(k)' => Working(k) /\ job'[k] = job[k]
    <3>1. CASE Crash(n)
      BY <3>1, DoneFacts DEF Crash, Of
    <3>2. CASE Restart(n)
      BY <3>2 DEF Restart, Working
    <3>. QED
      BY <1>7, <3>1, <3>2
  <2>2. wire' = wire /\ members' = members /\ odd \subseteq odd'
    BY <1>7 DEF Crash, Restart
  <2>. QED
    BY <2>1, <2>2, NarrowsKeeps
<1>8. CASE UNCHANGED vars
  BY <1>8, NarrowsKeeps DEF vars, Working
<1>. QED
  BY <1>1, <1>2, <1>4, <1>5, <1>6, <1>7, <1>8, AddSenders, RemoveSenders DEF Next

-----------------------------------------------------------------------------
LEMMA InvInit == Init => IInv
<1>. SUFFICES ASSUME Init PROVE IInv
  OBVIOUS
<1>1. TypeOK /\ ListsItself /\ Workers
  BY TypeInit
<1>2. \A j \in Changes : ~Working(j) /\ job[j].at = "idle"
  BY DEF Init, Working, Idle
<1>3. \A y : ~Joins(y) /\ ~Leaves(y)
  BY <1>2 DEF Init, Joins, Leaves
<1>4. Overlaps /\ TrueNews
  BY <1>2, <1>3 DEF Overlaps, TrueNews
<1>5. TrueLists
  BY <1>2 DEF Init, TrueLists
<1>6. Told
  BY NodesAssumption DEF Init, Told, Right
<1>. QED
  BY <1>1, <1>4, <1>5, <1>6 DEF IInv

LEMMA InvStep == IInv /\ [Next]_vars => IInv'
<1>. SUFFICES ASSUME IInv, [Next]_vars PROVE IInv'
  OBVIOUS
<1>1. TypeOK' /\ ListsItself' /\ Workers'
  BY TypeStep DEF IInv
<1>2. CASE UNCHANGED vars
  BY <1>1, <1>2 DEF vars, counters, IInv, Kept, Overlaps, TrueNews, TrueLists, Told, Joins,
                    Leaves, Changing, Odd, Doubtful, Right, Coming, ComingToList, ComingToOthers,
                    OnItsWay, Working
<1>3. ASSUME Next PROVE Kept
  BY <1>3, JoinKeeps, AddKeeps, RemoveKeeps, SendListKeeps, BroadcastKeeps, GiveUpKeeps,
     CrashKeeps, MessageKeeps DEF Next
<1>. QED
  BY <1>1, <1>2, <1>3 DEF IInv, Kept

LEMMA Invariant == Spec => []IInv
  BY InvInit, InvStep, PTL DEF Spec

\* Every state the network reaches has the types of TypeOK: a message goes from
\* one node to another and a newcomer is never told of itself.
THEOREM NetworkTypeCorrect == Spec => []TypeOK
<1>1. IInv => TypeOK
  BY DEF IInv
<1>. QED
  BY <1>1, Invariant, PTL

\* No removal, lost message, overlap or restart makes a node drop its own row.
THEOREM OwnRowKept == Spec => []ListsItself
<1>1. IInv => ListsItself
  BY DEF IInv
<1>. QED
  BY <1>1, Invariant, PTL

\* Once nothing is under way, the lists of the members hold the members, but for
\* the pairs that a lost message, an overlap or an ignorant sender has touched.
THEOREM ListsAgreed == Spec => []ListsAgree
<1>1. IInv => ListsAgree
  <2>. SUFFICES ASSUME IInv, Quiet, NEW x \in members, NEW y \in Nodes, <<x, y>> \notin odd
                PROVE  y \in list[x] <=> y \in members
    BY DEF ListsAgree
  <2>1. Right(x, y) \/ Coming(x, y)
    BY DEF IInv, Told, Odd
  <2>2. ~Coming(x, y)
    <3>1. \A j \in Changes : job[j].at # "list"
      BY DEF Quiet, Working
    <3>. QED
      BY <3>1 DEF Quiet, Coming, ComingToList, ComingToOthers
  <2>. QED
    BY <2>1, <2>2 DEF Right
<1>. QED
  BY <1>1, Invariant, PTL

\* Between members that agree every signature is good: news on the way to a
\* member that is not wrong about the sender finds the sender on its list, or
\* the first list of the receiver is still to come.
THEOREM NewsTaken == Spec => []NewsIsTaken
<1>1. Init => Senders
  BY DEF Init, Senders, Active, Admits, Working, Idle
<1>2. IInv /\ Senders => NewsIsTaken
  <2>. SUFFICES ASSUME IInv, Senders, NEW m \in wire, {m.from, m.to} \subseteq members,
                       ~Odd(m.to, m.from)
                PROVE  \/ Accepts(m)
                       \/ \E j \in Changes : job[j].at = "list" /\ job[j].node = m.to
                       \/ \E l \in wire \ {m} : l.type = "nodeList" /\ l.to = m.to
    BY DEF NewsIsTaken, Odd
  <2>. USE DEF IInv
  <2>1. m.from \in Nodes /\ m.to \in Nodes
    BY WireFacts
  <2>2. ~Changing(m.from)
    BY <2>1 DEF Senders, Active, Doubtful
  <2>3. CASE Right(m.to, m.from)
    BY <2>3 DEF Right, Accepts
  <2>4. ASSUME NEW j \in Changes, ComingToOthers(j, m.to, m.from) PROVE FALSE
    BY <2>2, <2>4, JobFacts DEF ComingToOthers
  <2>5. ASSUME NEW l \in wire, OnItsWay(l, m.to, m.from), l.type # "nodeList" PROVE FALSE
    BY <2>2, <2>5, WireFacts DEF OnItsWay, Changing
  <2>6. \/ Right(m.to, m.from)
        \/ \E j \in Changes : ComingToList(j, m.to, m.from)
        \/ \E l \in wire : OnItsWay(l, m.to, m.from) /\ l.type = "nodeList"
    BY <2>1, <2>4, <2>5 DEF Told, Coming
  <2>. QED
    BY <2>3, <2>6 DEF ComingToList, OnItsWay, Accepts
<1>. QED
  BY <1>1, <1>2, SendersStep, Invariant, PTL DEF Spec
=============================================================================
