------------------------- MODULE RegistrationProofs -------------------------
(***************************************************************************)
(* What Registration promises, proved for every set of nodes and requests. *)
(* The invariant says of each place what a request there knows: a request  *)
(* that asks has a verified registration, one that counts has an approval, *)
(* one that admits has a registration all of whose approvals were given,   *)
(* and one about to insert a row has an address that is not on the list.   *)
(* Shape gathers what any step does to the documents and the places, so    *)
(* that each part of the invariant follows from it without the actions.    *)
(* Settling adds what is true of the status of a registration at each      *)
(* place of the one request that works on it.                              *)
(* The last part maps the documents to Admission and shows that each call  *)
(* is one of its steps or shows nothing.                                   *)
(***************************************************************************)
EXTENDS Registration, TLAPS

Asking == {"pend", "nodes", "ask"}
Counting == {"tally", "reject"}
Admitting == {"accept", "join", "add", "row"}

About(q) == Exists(job[q].reg) /\ reg[job[q].reg].addr = job[q].addr
Verified(q) == About(q) /\ reg[job[q].reg].verified
Round(i, g) == job[i].reg = g /\ Batch(i) # {} /\ Batch(i) \subseteq yes
Agreed(q) == Verified(q) /\ \E i \in Requests : Round(i, job[q].reg)

Documents ==
    /\ \A q \in Requests : Exists(q) => pc[q] = "done"
    /\ \A g \in linked : Exists(g)
    /\ \A p \in mailed : approval[p] # Unset
    /\ \A p \in Approvals : approval[p] = "approved" => p \in yes
    /\ \A p \in Approvals : approval[p] # Unset => pc[p[1]] = "done" /\ Verified(p[1])
    /\ \A q \in joined \cup heard : pc[q] = "done"

Knowledge ==
    \A q \in Requests :
        /\ pc[q] \in Asking => Verified(q)
        /\ pc[q] \in Counting => About(q) /\ Of(job[q].reg) # {}
        /\ pc[q] \in Admitting \/ q \in joined => Agreed(q)

Lists ==
    /\ \A q \in Requests :
           pc[q] \in {"row", "note"} /\ Listed(Row(q)) => Row(q) \in crossed
    /\ \A q, r \in Requests :
           pc[q] \in {"row", "note"} /\ pc[r] \in {"row", "note"} /\ Row(q) = Row(r) =>
               q = r \/ Row(q) \in crossed
    /\ ListedOnce

IInv == TypeOK /\ Documents /\ Knowledge /\ Lists

\* What any step does.
Shape ==
    /\ \A q \in Requests : pc[q] # "idle" =>
           pc'[q] # "idle" /\ job'[q].reg = job[q].reg /\ job'[q].addr = job[q].addr
    /\ \A q \in Requests : pc[q] = "done" => pc'[q] = "done"
    /\ \A g \in Requests : Exists(g) =>
           Exists(g)' /\ reg'[g].addr = reg[g].addr /\ (reg[g].verified => reg'[g].verified)
    /\ \A g \in Requests : Exists(g)' => Exists(g) \/ pc'[g] = "done"
    /\ \A p \in Approvals : approval[p] # Unset => approval'[p] # Unset
    /\ \A p \in Approvals : approval'[p] # Unset =>
           approval[p] # Unset \/ (pc[p[1]] = "ask" /\ pc'[p[1]] = "done")
    /\ yes \subseteq yes'
    /\ \A p \in Approvals : approval'[p] = "approved" => p \in yes'
    /\ \A p \in mailed' : approval'[p] # Unset
    /\ \A g \in linked' : Exists(g)'
    /\ \A q \in joined' : q \in joined \/ (pc[q] = "row" /\ pc'[q] = "done")
    /\ \A q \in heard' : q \in heard \/ (pc[q] = "note" /\ pc'[q] = "done")

\* Where a step may take a request.
Moves ==
    \A q \in Requests :
        /\ pc'[q] \in Asking => pc[q] \in Asking \/ Verified(q)'
        /\ pc'[q] \in Counting => pc[q] \in Counting \/ (About(q) /\ Of(job[q].reg) # {})'
        /\ pc'[q] \in Admitting =>
               \/ pc[q] \in Admitting
               \/ pc[q] \in Counting /\ \A p \in Of(job[q].reg) : approval[p] = "approved"
-----------------------------------------------------------------------------
LEMMA GoFacts ==
  ASSUME TypeOK, NEW q \in Requests, NEW l, Go(q, l), pc[q] # "done", pc[q] # "idle",
         l # "idle"
  PROVE  /\ \A r \in Requests : pc[r] # "idle" =>
               pc'[r] # "idle" /\ job'[r].reg = job[r].reg /\ job'[r].addr = job[r].addr
         /\ \A r \in Requests : pc[r] = "done" => pc'[r] = "done"
         /\ pc'[q] = l
         /\ \A r \in Requests : pc'[r] = pc[r] \/ r = q
  BY DEF TypeOK, Go

LEMMA BeginFacts ==
  ASSUME TypeOK, NEW q \in Requests, NEW k, NEW j, NEW l, Begin(q, k, j, l), l # "idle"
  PROVE  /\ \A r \in Requests : pc[r] # "idle" =>
               pc'[r] # "idle" /\ job'[r].reg = job[r].reg /\ job'[r].addr = job[r].addr
         /\ \A r \in Requests : pc[r] = "done" => pc'[r] = "done"
         /\ pc[q] = "idle" /\ pc'[q] = l /\ job'[q] = j
         /\ \A r \in Requests \ {q} : pc'[r] = pc[r] /\ job'[r] = job[r]
  BY DEF TypeOK, Begin

LEMMA StartFacts ==
  ASSUME TypeOK, NEW q \in Requests, NEW k, NEW j, NEW l, Start(q, k, j, l), l # "idle"
  PROVE  /\ \A r \in Requests : pc[r] # "idle" =>
               pc'[r] # "idle" /\ job'[r].reg = job[r].reg /\ job'[r].addr = job[r].addr
         /\ \A r \in Requests : pc[r] = "done" => pc'[r] = "done"
         /\ pc[q] = "idle" /\ pc'[q] = l /\ job'[q] = j
         /\ \A r \in Requests \ {q} : pc'[r] = pc[r] /\ job'[r] = job[r]
  BY BeginFacts DEF Start

LEMMA WithStatusFacts ==
  ASSUME TypeOK, NEW g \in Requests, NEW s \in RegistrationStatus, WithStatus(g, s), Exists(g)
  PROVE  /\ reg' \in [Requests -> Document \cup {Absent}]
         /\ \A h \in Requests : Exists(h)' <=> Exists(h)
         /\ \A h \in Requests : Exists(h) =>
               reg'[h].addr = reg[h].addr /\ reg'[h].verified = reg[h].verified
<1>1. reg[g] \in Document
  BY DEF TypeOK, Exists
<1>2. reg' = [reg EXCEPT ![g] = [reg[g] EXCEPT !.status = s]]
  BY DEF WithStatus
<1>3. [reg[g] EXCEPT !.status = s] \in Document /\ [reg[g] EXCEPT !.status = s] # Absent
  BY <1>1 DEF Document, Absent
<1>. QED
  BY <1>1, <1>2, <1>3 DEF TypeOK, Exists, Document

\* Type correctness.
LEMMA TypeInit == Init => TypeOK
  BY NodesAssumption, LimitsAssumption DEF Init, TypeOK, Places, Jobs, Approvals

LEMMA TypeStep == TypeOK /\ Documents /\ Knowledge /\ [Next]_vars => TypeOK'
<1>. SUFFICES ASSUME TypeOK, Documents, Knowledge, [Next]_vars PROVE TypeOK'
  OBVIOUS
<1>. USE DEF Places, Jobs, Approvals
<1>1. ASSUME NEW q \in Requests, NEW a \in Nodes, Register(q, a) PROVE TypeOK'
  BY <1>1 DEF Register, Start, Begin, TypeOK, registrationVars, approvalVars, listVars
<1>2. ASSUME NEW q \in Requests, NEW g \in Requests, Initiate(q, g) PROVE TypeOK'
  <2>1. reg[g] \in Document
    BY <1>2 DEF Initiate, Documents, TypeOK, Exists
  <2>. QED
    BY <1>2, <2>1 DEF Initiate, Start, Begin, TypeOK, registrationVars, approvalVars, listVars,
        Document
<1>3. ASSUME NEW q \in Requests, NEW p \in Approvals, NEW b \in BOOLEAN, Approve(q, p, b)
      PROVE  TypeOK'
  <2>1. approval[p] # Unset /\ p[1] \in Requests
    BY <1>3 DEF Approve, Documents
  <2>2. reg[job[p[1]].reg] \in Document /\ job[p[1]].reg \in Requests
    BY <2>1 DEF Documents, Verified, About, TypeOK, Exists
  <2>3. (IF b THEN "approved" ELSE "rejected") \in ApprovalStatus
    BY DEF ApprovalStatus
  <2>4. pc' \in [Requests -> Places] /\ job' \in [Requests -> Jobs]
    BY <1>3, <2>2 DEF Approve, Start, Begin, TypeOK, Document
  <2>5. met' \subseteq Requests /\ crashes' \in 0..MaxCrashes
    BY <1>3 DEF Approve, Start, Begin, TypeOK
  <2>6. approval' \in [Approvals -> ApprovalStatus \cup {Unset}] /\ yes' \subseteq Approvals
    BY <1>3, <2>3 DEF Approve, TypeOK
  <2>. QED
    BY <1>3, <2>4, <2>5, <2>6 DEF Approve, TypeOK, registrationVars, listVars
<1>4. ASSUME NEW g \in Requests, VerifyEmail(g) PROVE TypeOK'
  <2>1. reg[g] \in Document
    BY <1>4 DEF VerifyEmail, Documents, TypeOK, Exists
  <2>2. [reg[g] EXCEPT !.verified = TRUE] \in Document
    BY <2>1 DEF Document
  <2>3. reg' \in [Requests -> Document \cup {Absent}]
    BY <1>4, <2>2 DEF VerifyEmail, TypeOK
  <2>. QED
    BY <1>4, <2>3 DEF VerifyEmail, TypeOK, approvalVars, listVars, requestVars
<1>5. ASSUME NEW a \in Nodes, Remove(a) PROVE TypeOK'
  <2>1. /\ members' \subseteq members /\ joined' \subseteq joined /\ heard' \subseteq heard
        /\ gone' \subseteq Nodes
        /\ UNCHANGED <<reg, linked, approval, mailed, yes, crossed, pc, job, crashes, met>>
    BY <1>5 DEF Remove, TypeOK, registrationVars, approvalVars, requestVars
  <2>. QED
    BY <2>1 DEF TypeOK
<1>6. CASE Crash
  <2>1. pc' \in [Requests -> Places]
    BY <1>6 DEF Crash, TypeOK
  <2>2. crashes' \in 0..MaxCrashes
    BY <1>6, LimitsAssumption DEF Crash, TypeOK
  <2>3. met' \subseteq Requests /\ UNCHANGED <<registrationVars, approvalVars, listVars, job>>
    BY <1>6 DEF Crash, TypeOK
  <2>. QED
    BY <2>1, <2>2, <2>3 DEF TypeOK, registrationVars, approvalVars, listVars
<1>7. ASSUME NEW q \in Requests, Step(q) PROVE TypeOK'
  <2>. USE DEF TypeOK, Go, registrationVars, approvalVars, listVars
  <2>1. CASE RegisterCancel(q)
    <3>1. ASSUME NEW g \in Known(job[q].addr)
          PROVE  [reg[g] EXCEPT !.status = "cancelled"] \in Document
      BY DEF Known, Exists, Document, RegistrationStatus
    <3>2. reg' \in [Requests -> Document \cup {Absent}]
      BY <2>1, <3>1 DEF RegisterCancel
    <3>. QED
      BY <2>1, <3>2 DEF RegisterCancel
  <2>2. CASE RegisterInsert(q)
    BY <2>2 DEF RegisterInsert, Document, RegistrationStatus
  <2>3. CASE InitiatePend(q)
    <3>1. Exists(job[q].reg)
      BY <2>3 DEF InitiatePend, Knowledge, Asking, Verified, About
    <3>2. reg' \in [Requests -> Document \cup {Absent}]
      BY <2>3, <3>1, WithStatusFacts DEF InitiatePend, RegistrationStatus
    <3>. QED
      BY <2>3, <3>2 DEF InitiatePend, WithStatus
  <2>4. CASE InitiateNodes(q)
    BY <2>4 DEF InitiateNodes
  <2>5. CASE InitiateAsk(q)
    <3>1. approval' \in [Approvals -> ApprovalStatus \cup {Unset}]
      BY <2>5 DEF InitiateAsk, ApprovalStatus
    <3>2. Of(job[q].reg) \subseteq Approvals /\ ({q} \X job[q].asked) \subseteq Approvals
      BY DEF Of
    <3>. QED
      BY <2>5, <3>1, <3>2 DEF InitiateAsk
  <2>6. CASE ApproveTally(q)
    <3>1. Verdict(job[q].reg) \in Places
      BY DEF Verdict
    <3>. QED
      BY <2>6, <3>1 DEF ApproveTally
  <2>7. CASE ApproveReject(q)
    <3>1. Exists(job[q].reg)
      BY <2>7 DEF ApproveReject, Knowledge, Counting, About
    <3>2. reg' \in [Requests -> Document \cup {Absent}]
      BY <2>7, <3>1, WithStatusFacts DEF ApproveReject, RegistrationStatus
    <3>. QED
      BY <2>7, <3>2 DEF ApproveReject, WithStatus
  <2>8. CASE ApproveAccept(q)
    <3>1. Exists(job[q].reg)
      BY <2>8 DEF ApproveAccept, Knowledge, Admitting, Agreed, Verified, About
    <3>2. reg' \in [Requests -> Document \cup {Absent}]
      BY <2>8, <3>1, WithStatusFacts DEF ApproveAccept, RegistrationStatus
    <3>. QED
      BY <2>8, <3>2 DEF ApproveAccept, WithStatus
  <2>9. CASE Join(q) \/ Add(q)
    <3>1. pc' \in [Requests -> Places]
      BY <2>9 DEF Join, Add, After
    <3>2. crossed' \subseteq Nodes
      BY <2>9 DEF Join, Add, Crossing, Row
    <3>. QED
      BY <2>9, <3>1, <3>2 DEF Join, Add
  <2>10. CASE AddRow(q) \/ Note(q)
    BY <2>10 DEF AddRow, Note
  <2>. QED
    BY <1>7, <2>1, <2>2, <2>3, <2>4, <2>5, <2>6, <2>7, <2>8, <2>9, <2>10 DEF Step
<1>8. CASE UNCHANGED vars
  BY <1>8 DEF vars, TypeOK, registrationVars, approvalVars, listVars, requestVars
<1>9. ASSUME NEW q \in Requests, NEW a \in Nodes, Hear(q, a) PROVE TypeOK'
  BY <1>9 DEF Hear, Begin, TypeOK, registrationVars, approvalVars, listVars
<1>. QED
  BY <1>1, <1>2, <1>3, <1>4, <1>5, <1>6, <1>7, <1>8, <1>9 DEF Next

-----------------------------------------------------------------------------
LEMMA ShapeStep == TypeOK /\ Documents /\ Knowledge /\ [Next]_vars => Shape
<1>. SUFFICES ASSUME TypeOK, Documents, Knowledge, [Next]_vars PROVE Shape
  OBVIOUS
<1>. USE DEF registrationVars, approvalVars, listVars, requestVars
<1>1. ASSUME NEW q \in Requests, NEW a \in Nodes, Register(q, a) PROVE Shape
  <2>1. UNCHANGED <<reg, linked, approval, mailed, yes, joined, heard>>
    BY <1>1 DEF Register
  <2>. QED
    BY <1>1, <2>1, StartFacts DEF Register, Shape, Exists, Documents
<1>2. ASSUME NEW q \in Requests, NEW g \in Requests, Initiate(q, g) PROVE Shape
  <2>1. UNCHANGED <<reg, linked, approval, mailed, yes, joined, heard>>
    BY <1>2 DEF Initiate
  <2>. QED
    BY <1>2, <2>1, StartFacts DEF Initiate, Shape, Exists, Documents
<1>3. ASSUME NEW q \in Requests, NEW p \in Approvals, NEW b \in BOOLEAN, Approve(q, p, b)
      PROVE  Shape
  <2>1. UNCHANGED <<reg, linked, mailed, joined, heard>> /\ yes \subseteq yes'
    BY <1>3 DEF Approve
  <2>2. approval[p] # Unset
    BY <1>3 DEF Approve, Documents
  <2>3. \A r \in Approvals : /\ approval'[r] = "approved" => r \in yes'
                             /\ approval'[r] # Unset <=> approval[r] # Unset
    BY <1>3, <2>2 DEF Approve, Documents, TypeOK, Unset
  <2>4. /\ \A r \in Requests : pc[r] # "idle" =>
              pc'[r] # "idle" /\ job'[r].reg = job[r].reg /\ job'[r].addr = job[r].addr
        /\ \A r \in Requests : pc[r] = "done" => pc'[r] = "done"
    BY <1>3, StartFacts DEF Approve
  <2>5. mailed \subseteq Approvals
    BY DEF TypeOK
  <2>. QED
    BY <2>1, <2>3, <2>4, <2>5 DEF Shape, Exists, Documents
<1>4. ASSUME NEW g \in Requests, VerifyEmail(g) PROVE Shape
  <2>1. reg[g] \in Document
    BY <1>4 DEF VerifyEmail, Documents, TypeOK, Exists
  <2>2. \A h \in Requests : /\ Exists(h)' <=> Exists(h)
                            /\ Exists(h) => /\ reg'[h].addr = reg[h].addr
                                            /\ reg[h].verified => reg'[h].verified
    BY <1>4, <2>1 DEF VerifyEmail, TypeOK, Exists, Document, Absent
  <2>3. linked \subseteq Requests
    BY DEF TypeOK
  <2>. QED
    BY <1>4, <2>2, <2>3 DEF VerifyEmail, Shape, Documents
<1>5. ASSUME NEW a \in Nodes, Remove(a) PROVE Shape
  BY <1>5 DEF Remove, Shape, Exists, Documents
<1>6. CASE Crash
  <2>1. \A r \in Requests : /\ pc[r] # "idle" => pc'[r] # "idle"
                            /\ pc[r] = "done" => pc'[r] = "done"
    BY <1>6 DEF Crash
  <2>. QED
    BY <1>6, <2>1 DEF Crash, Shape, Exists, Documents
<1>7. ASSUME NEW q \in Requests, Step(q) PROVE Shape
  <2>0. job[q].reg \in Requests /\ linked \subseteq Requests
    BY DEF TypeOK, Jobs
  <2>1. CASE RegisterCancel(q)
    <3>1. \A h \in Requests : /\ Exists(h)' <=> Exists(h)
                              /\ Exists(h) => /\ reg'[h].addr = reg[h].addr
                                              /\ reg'[h].verified = reg[h].verified
      <4>1. \A h \in Requests : Exists(h) => reg[h] \in Document
        BY DEF TypeOK, Exists
      <4>. QED
        BY <2>1, <4>1 DEF RegisterCancel, Known, TypeOK, Exists, Document, Absent
    <3>. QED
      BY <2>0, <2>1, <3>1, GoFacts DEF RegisterCancel, Shape, Documents
  <2>2. CASE RegisterInsert(q)
    <3>1. ~Exists(q)
      BY <2>2 DEF RegisterInsert, Documents
    <3>2. \A h \in Requests : /\ Exists(h)' <=> Exists(h) \/ h = q
                              /\ h # q => reg'[h] = reg[h]
      BY <2>2 DEF RegisterInsert, TypeOK, Exists, Absent
    <3>3. linked' \subseteq linked \cup {q}
      BY <2>2 DEF RegisterInsert
    <3>. QED
      BY <2>0, <2>2, <3>1, <3>2, <3>3, GoFacts DEF RegisterInsert, Shape, Documents
  <2>3. CASE InitiatePend(q)
    <3>1. Exists(job[q].reg)
      BY <2>3 DEF InitiatePend, Knowledge, Asking, Verified, About
    <3>. QED
      BY <2>0, <2>3, <3>1, GoFacts, WithStatusFacts
      DEF InitiatePend, WithStatus, RegistrationStatus, Shape, Documents
  <2>4. CASE InitiateNodes(q)
    BY <2>4 DEF InitiateNodes, TypeOK, Shape, Exists, Documents, Jobs
  <2>5. CASE InitiateAsk(q)
    <3>1. \A p \in Approvals :
              /\ approval[p] # Unset => approval'[p] # Unset
              /\ approval'[p] # Unset => approval[p] # Unset \/ p[1] = q
              /\ approval'[p] = "approved" => approval[p] = "approved"
      BY <2>5 DEF InitiateAsk, Unset
    <3>2. \A p \in Of(job[q].reg) \cup ({q} \X job[q].asked) : p \in Approvals /\ approval'[p] # Unset
      <4>1. \A p \in {q} \X job[q].asked :
                p \in Approvals /\ p[1] = q /\ p[2] \in job[q].asked
        BY DEF TypeOK, Jobs, Approvals
      <4>2. \A p \in {q} \X job[q].asked : approval'[p] = "pendingApproval"
        BY <2>5, <4>1 DEF InitiateAsk
      <4>. QED
        BY <3>1, <4>1, <4>2 DEF Of, Unset
    <3>3. \A p \in mailed' : approval'[p] # Unset
      BY <2>5, <3>1, <3>2 DEF InitiateAsk, Documents, TypeOK
    <3>. QED
      BY <2>5, <3>1, <3>3, GoFacts DEF InitiateAsk, Shape, Exists, Documents
  <2>6. CASE ApproveTally(q)
    <3>1. Verdict(job[q].reg) # "idle"
      BY DEF Verdict
    <3>. QED
      BY <2>6, <3>1, GoFacts DEF ApproveTally, Shape, Exists, Documents
  <2>7. CASE ApproveReject(q)
    <3>1. Exists(job[q].reg)
      BY <2>7 DEF ApproveReject, Knowledge, Counting, About
    <3>. QED
      BY <2>0, <2>7, <3>1, GoFacts, WithStatusFacts
      DEF ApproveReject, WithStatus, RegistrationStatus, Shape, Documents
  <2>8. CASE ApproveAccept(q)
    <3>1. Exists(job[q].reg)
      BY <2>8 DEF ApproveAccept, Knowledge, Admitting, Agreed, Verified, About
    <3>. QED
      BY <2>0, <2>8, <3>1, GoFacts, WithStatusFacts
      DEF ApproveAccept, WithStatus, RegistrationStatus, Shape, Documents
  <2>9. CASE Join(q) \/ Add(q)
    <3>1. After[pc[q]] \in {"row", "note"} \/ Join(q)
      BY <2>9 DEF Add, After
    <3>. QED
      BY <2>9, <3>1, GoFacts DEF Join, Add, Shape, Exists, Documents
  <2>10. CASE AddRow(q) \/ Note(q)
    BY <2>10, GoFacts DEF AddRow, Note, Shape, Exists, Documents
  <2>. QED
    BY <1>7, <2>1, <2>2, <2>3, <2>4, <2>5, <2>6, <2>7, <2>8, <2>9, <2>10 DEF Step
<1>8. CASE UNCHANGED vars
  BY <1>8 DEF vars, Shape, Exists, Documents
<1>9. ASSUME NEW q \in Requests, NEW a \in Nodes, Hear(q, a) PROVE Shape
  <2>1. UNCHANGED <<reg, linked, approval, mailed, yes, joined, heard>>
    BY <1>9 DEF Hear
  <2>. QED
    BY <1>9, <2>1, BeginFacts DEF Hear, Shape, Exists, Documents
<1>. QED
  BY <1>1, <1>2, <1>3, <1>4, <1>5, <1>6, <1>7, <1>8, <1>9 DEF Next

LEMMA VerdictFacts ==
  ASSUME NEW g, Verdict(g) \in Counting \cup Asking \cup Admitting
  PROVE  \/ Verdict(g) = "reject"
         \/ Verdict(g) = "accept" /\ \A p \in Of(g) : approval[p] = "approved"
  BY DEF Verdict, Counting, Asking, Admitting

LEMMA MovesStep == TypeOK /\ Documents /\ Knowledge /\ [Next]_vars => Moves
<1>. SUFFICES ASSUME TypeOK, Documents, Knowledge, [Next]_vars PROVE Moves
  OBVIOUS
<1>. USE DEF registrationVars, approvalVars, listVars, requestVars, Asking, Counting, Admitting
<1>1. ASSUME NEW q \in Requests, NEW a \in Nodes, Register(q, a) PROVE Moves
  BY <1>1, StartFacts DEF Register, Moves
<1>2. ASSUME NEW q \in Requests, NEW g \in Requests, Initiate(q, g) PROVE Moves
  <2>1. /\ pc'[q] \in {"pend", "done"}
        /\ pc'[q] = "pend" => reg[g].verified
        /\ job'[q].reg = g /\ job'[q].addr = reg[g].addr
        /\ \A r \in Requests \ {q} : pc'[r] = pc[r]
    BY <1>2, StartFacts DEF Initiate, MayInitiate
  <2>2. Exists(g) /\ UNCHANGED reg
    BY <1>2 DEF Initiate, Documents
  <2>. QED
    BY <2>1, <2>2 DEF Moves, Verified, About, Exists
<1>3. ASSUME NEW q \in Requests, NEW p \in Approvals, NEW b \in BOOLEAN, Approve(q, p, b)
      PROVE  Moves
  <2>. DEFINE i == p[1]
  <2>0. i \in Requests
    BY DEF Approvals
  <2>1. approval[p] # Unset /\ pc[i] = "done" /\ Exists(job[i].reg)
    BY <1>3 DEF Approve, Documents, Verified, About
  <2>2. /\ pc'[q] = "tally" /\ pc[q] = "idle"
        /\ job'[q].reg = job[i].reg /\ job'[q].addr = reg[job[i].reg].addr
        /\ \A r \in Requests \ {q} : pc'[r] = pc[r] /\ job'[r] = job[r]
    BY <1>3, StartFacts DEF Approve
  <2>3. About(q)'
    BY <1>3, <2>1, <2>2 DEF Approve, About, Exists
  <2>4. approval'[p] # Unset
    BY <1>3 DEF Approve, TypeOK, Unset
  <2>5. i # q /\ job'[i] = job[i]
    BY <2>0, <2>1, <2>2
  <2>6. p \in Of(job[q].reg)'
    BY <2>2, <2>4, <2>5 DEF Of
  <2>. QED
    BY <2>2, <2>3, <2>6 DEF Moves
<1>4. ASSUME NEW g \in Requests, VerifyEmail(g) PROVE Moves
  BY <1>4 DEF VerifyEmail, Moves
<1>5. ASSUME NEW a \in Nodes, Remove(a) PROVE Moves
  BY <1>5 DEF Remove, Moves
<1>6. CASE Crash
  BY <1>6 DEF Crash, Moves
<1>7. ASSUME NEW q \in Requests, Step(q) PROVE Moves
  <2>1. \A r \in Requests \ {q} : pc'[r] = pc[r]
    BY <1>7 DEF Step, RegisterCancel, RegisterInsert, InitiatePend, InitiateNodes, InitiateAsk,
                ApproveTally, ApproveReject, ApproveAccept, Join, Add, AddRow, Note, Go, TypeOK
  <2>2. CASE ApproveTally(q)
    <3>1. pc[q] = "tally" /\ pc'[q] = Verdict(job[q].reg)
      BY <2>2 DEF ApproveTally, Go, TypeOK
    <3>. QED
      BY <2>1, <3>1, VerdictFacts DEF Moves
  <2>3. CASE RegisterCancel(q) \/ RegisterInsert(q) \/ InitiateAsk(q) \/ ApproveReject(q)
            \/ AddRow(q) \/ Note(q)
    <3>1. pc'[q] \in {"insert", "done"}
      BY <2>3 DEF RegisterCancel, RegisterInsert, InitiateAsk, ApproveReject, AddRow, Note, Go,
          TypeOK
    <3>. QED
      BY <2>1, <3>1 DEF Moves
  <2>4. CASE InitiatePend(q) \/ InitiateNodes(q)
    <3>1. pc[q] \in Asking /\ pc'[q] \in Asking
      BY <2>4 DEF InitiatePend, InitiateNodes, Go, TypeOK
    <3>. QED
      BY <2>1, <3>1 DEF Moves
  <2>5. CASE ApproveAccept(q) \/ Join(q) \/ Add(q)
    <3>1. \/ pc[q] \in Admitting /\ pc'[q] \in {"join", "add", "row", "done"}
          \/ pc'[q] \in {"note", "done"}
      BY <2>5 DEF ApproveAccept, Join, Add, After, Go, TypeOK
    <3>. QED
      BY <2>1, <3>1 DEF Moves
  <2>. QED
    BY <1>7, <2>2, <2>3, <2>4, <2>5 DEF Step
<1>8. CASE UNCHANGED vars
  BY <1>8 DEF vars, Moves
<1>9. ASSUME NEW q \in Requests, NEW a \in Nodes, Hear(q, a) PROVE Moves
  BY <1>9, BeginFacts DEF Hear, Moves
<1>. QED
  BY <1>1, <1>2, <1>3, <1>4, <1>5, <1>6, <1>7, <1>8, <1>9 DEF Next
-----------------------------------------------------------------------------
\* What a request that has started knows stays true.
LEMMA KnownStays ==
  ASSUME TypeOK, Documents, Shape, NEW q \in Requests, pc[q] # "idle"
  PROVE  /\ About(q) => About(q)'
         /\ Verified(q) => Verified(q)'
         /\ Of(job[q].reg) # {} => (Of(job[q].reg) # {})'
         /\ Agreed(q) => Agreed(q)'
<1>0. job[q].reg \in Requests /\ job'[q].reg = job[q].reg /\ job'[q].addr = job[q].addr
  BY DEF TypeOK, Jobs, Shape
<1>1. About(q) => About(q)'
  BY <1>0 DEF About, Shape, Exists
<1>2. Verified(q) => Verified(q)'
  BY <1>0, <1>1 DEF Verified, Shape, About
<1>3. ASSUME NEW p \in Of(job[q].reg) PROVE p \in Of(job[q].reg)'
  <2>1. p \in Approvals /\ p[1] \in Requests /\ approval[p] # Unset /\ job[p[1]].reg = job[q].reg
    BY DEF Of, Approvals
  <2>2. pc[p[1]] = "done"
    BY <2>1 DEF Documents
  <2>3. approval'[p] # Unset /\ job'[p[1]].reg = job[p[1]].reg
    BY <2>1, <2>2 DEF Shape
  <2>. QED
    BY <1>0, <2>1, <2>3 DEF Of
<1>4. ASSUME NEW i \in Requests, Round(i, job[q].reg) PROVE Round(i, job[q].reg)'
  <2>1. PICK p \in Approvals : p[1] = i /\ approval[p] # Unset
    BY <1>4 DEF Round, Batch
  <2>2. pc[i] = "done"
    BY <2>1 DEF Documents
  <2>3. job'[i].reg = job[i].reg
    BY <2>2 DEF Shape
  <2>4. Batch(i)' = Batch(i)
    BY <2>2 DEF Batch, Shape
  <2>. QED
    BY <1>0, <1>4, <2>3, <2>4 DEF Round, Shape
<1>. QED
  BY <1>1, <1>2, <1>3, <1>4 DEF Agreed

LEMMA DocumentsStep ==
  ASSUME TypeOK, Documents, Knowledge, Shape, TypeOK'
  PROVE  Documents'
<1>1. \A q \in Requests : Exists(q)' => pc'[q] = "done"
  BY DEF Shape, Documents
<1>2. ASSUME NEW p \in Approvals, approval'[p] # Unset PROVE pc'[p[1]] = "done" /\ Verified(p[1])'
  <2>1. p[1] \in Requests
    BY DEF Approvals
  <2>2. CASE approval[p] # Unset
    BY <2>1, <2>2, KnownStays DEF Documents, Shape
  <2>3. CASE pc[p[1]] = "ask" /\ pc'[p[1]] = "done"
    <3>1. Verified(p[1])
      BY <2>1, <2>3 DEF Knowledge, Asking
    <3>. QED
      BY <2>1, <2>3, <3>1, KnownStays
  <2>. QED
    BY <1>2, <2>2, <2>3 DEF Shape
<1>3. \A q \in joined' \cup heard' : pc'[q] = "done"
  BY DEF Shape, Documents, TypeOK
<1>. QED
  BY <1>1, <1>2, <1>3 DEF Documents, Shape

LEMMA KnowledgeStep ==
  ASSUME TypeOK, Documents, Knowledge, Shape, Moves, TypeOK'
  PROVE  Knowledge'
<1>. SUFFICES ASSUME NEW q \in Requests
              PROVE  /\ pc'[q] \in Asking => Verified(q)'
                     /\ pc'[q] \in Counting => About(q)' /\ (Of(job[q].reg) # {})'
                     /\ pc'[q] \in Admitting \/ q \in joined' => Agreed(q)'
  BY DEF Knowledge
<1>1. ASSUME pc'[q] \in Asking PROVE Verified(q)'
  <2>1. pc[q] \in Asking => pc[q] # "idle" /\ Verified(q)
    BY DEF Knowledge, Asking
  <2>. QED
    BY <1>1, <2>1, KnownStays DEF Moves
<1>2. ASSUME pc'[q] \in Counting PROVE About(q)' /\ (Of(job[q].reg) # {})'
  <2>1. pc[q] \in Counting => pc[q] # "idle" /\ About(q) /\ Of(job[q].reg) # {}
    BY DEF Knowledge, Counting
  <2>. QED
    BY <1>2, <2>1, KnownStays DEF Moves
<1>3. ASSUME pc[q] \in Counting, \A p \in Of(job[q].reg) : approval[p] = "approved"
      PROVE  Agreed(q)
  <2>1. About(q) /\ Of(job[q].reg) # {}
    BY <1>3 DEF Knowledge
  <2>2. PICK p \in Of(job[q].reg) : TRUE
    BY <2>1
  <2>3. p \in Approvals /\ p[1] \in Requests /\ approval[p] # Unset /\ job[p[1]].reg = job[q].reg
    BY DEF Of, Approvals
  <2>4. Verified(p[1])
    BY <2>3 DEF Documents
  <2>5. Verified(q)
    BY <2>1, <2>3, <2>4 DEF Verified, About
  <2>6. p \in Batch(p[1])
    BY <2>3 DEF Batch
  <2>7. Batch(p[1]) \subseteq Of(job[q].reg)
    BY <2>3 DEF Batch, Of
  <2>8. Batch(p[1]) \subseteq yes
    BY <1>3, <2>7 DEF Documents, Batch
  <2>. QED
    BY <2>3, <2>5, <2>6, <2>8 DEF Agreed, Round
<1>4. ASSUME pc'[q] \in Admitting \/ q \in joined' PROVE Agreed(q)'
  <2>1. CASE pc[q] \in Admitting \/ q \in joined
    <3>1. pc[q] # "idle" /\ Agreed(q)
      BY <2>1 DEF Knowledge, Documents, Admitting
    <3>. QED
      BY <3>1, KnownStays
  <2>2. CASE pc[q] \in Counting /\ \A p \in Of(job[q].reg) : approval[p] = "approved"
    <3>1. pc[q] # "idle" /\ Agreed(q)
      BY <1>3, <2>2 DEF Counting
    <3>. QED
      BY <3>1, KnownStays
  <2>. QED
    BY <1>4, <2>1, <2>2 DEF Moves, Shape, Admitting
<1>. QED
  BY <1>1, <1>2, <1>4

-----------------------------------------------------------------------------
\* The list: rows come only from AddRow, which two requests may have reached
\* with one address only if crossed says so.
LEMMA ListsKept ==
  ASSUME TypeOK, Documents, Shape, Lists, members' \subseteq members, crossed \subseteq crossed',
         Rows' \subseteq Rows,
         \A q \in Requests : pc'[q] \in {"row", "note"} => pc[q] \in {"row", "note"}
  PROVE  Lists'
<1>1. \A q \in Rows : q \in Requests /\ job'[q].addr = job[q].addr
  BY DEF Documents, Shape, TypeOK, Rows
<1>2. \A q \in Requests : pc'[q] \in {"row", "note"} => job'[q].addr = job[q].addr
  BY DEF Shape
<1>3. \A a : Listed(a)' => Listed(a)
  BY <1>1 DEF Listed, Row, Rows
<1>4. ListedOnce'
  BY <1>1 DEF Lists, ListedOnce, Row, Rows
<1>5. \A q \in Requests : (pc[q] \in {"row", "note"} /\ Listed(Row(q)))' => (Row(q) \in crossed)'
  BY <1>2, <1>3 DEF Lists, Row
<1>6. \A q, r \in Requests : (pc[q] \in {"row", "note"} /\ pc[r] \in {"row", "note"} /\ Row(q) = Row(r))' =>
                                 q = r \/ (Row(q) \in crossed)'
  BY <1>2 DEF Lists, Row
<1>. QED
  BY <1>4, <1>5, <1>6 DEF Lists

LEMMA ListsStep ==
  ASSUME TypeOK, Documents, Shape, Lists, [Next]_vars
  PROVE  Lists'
<1>. USE DEF registrationVars, approvalVars, listVars, requestVars
<1>1. CASE UNCHANGED vars
  BY <1>1, ListsKept DEF vars, Rows
<1>2. CASE Crash
  BY <1>2, ListsKept DEF Crash, Rows
<1>3. ASSUME NEW a \in Nodes, Remove(a) PROVE Lists'
  BY <1>3, ListsKept DEF Remove, Rows
<1>4. ASSUME NEW g \in Requests, VerifyEmail(g) PROVE Lists'
  BY <1>4, ListsKept DEF VerifyEmail, Rows
<1>5. ASSUME NEW q \in Requests, NEW k, NEW j, NEW l, Begin(q, k, j, l), l \notin {"idle", "row", "note"},
             UNCHANGED listVars
      PROVE  Lists'
  <2>1. \A r \in Requests : pc'[r] \in {"row", "note"} => pc[r] \in {"row", "note"}
    BY <1>5, BeginFacts
  <2>. QED
    BY <1>5, <2>1, ListsKept DEF Rows
<1>6. ASSUME NEW q \in Requests, Step(q) PROVE Lists'
  <2>1. \A r \in Requests \ {q} : pc'[r] = pc[r]
    BY <1>6 DEF Step, RegisterCancel, RegisterInsert, InitiatePend, InitiateNodes, InitiateAsk,
                ApproveTally, ApproveReject, ApproveAccept, Join, Add, AddRow, Note, Go, TypeOK
  <2>2. CASE Add(q)
    <3>1. UNCHANGED <<job, members, joined, heard>> /\ crossed \subseteq crossed'
          /\ pc[q] \in {"add", "hear"}
      BY <2>2 DEF Add, Crossing, Go
    <3>2. CASE Listed(Row(q))
      <4>1. pc'[q] = "done"
        BY <2>2, <3>2 DEF Add, Go, TypeOK, Row
      <4>2. \A r \in Requests : pc'[r] \in {"row", "note"} => pc[r] \in {"row", "note"}
        BY <2>1, <4>1
      <4>. QED
        BY <3>1, <4>2, ListsKept DEF Rows
    <3>3. CASE ~Listed(Row(q))
      <4>1. \A r \in Requests :
                pc[r] \in {"row", "note"} /\ Row(r) = Row(q) => Row(q) \in crossed'
        BY <2>2 DEF Add, Crossing, Inserting
      <4>2. \A r \in Requests \ {q} : pc'[r] \in {"row", "note"} => pc[r] \in {"row", "note"}
        BY <2>1
      <4>3. ListedOnce'
        BY <3>1 DEF Lists, ListedOnce, Row, Rows
      <4>. QED
        BY <3>1, <3>3, <4>1, <4>2, <4>3 DEF Lists, Listed, Row, Rows
    <3>. QED
      BY <3>2, <3>3
  <2>3. CASE AddRow(q) \/ Note(q)
    <3>1. pc[q] \in {"row", "note"} /\ pc'[q] = "done" /\ Rows' = Rows \cup {q}
          /\ UNCHANGED <<job, members, crossed>>
      BY <2>3 DEF AddRow, Note, Rows, Go, TypeOK
    <3>2. Row(q) \in crossed \/ ~Listed(Row(q))
      BY <3>1 DEF Lists
    <3>3. ListedOnce'
      BY <3>1, <3>2 DEF Lists, ListedOnce, Listed, Row
    <3>4. \A r \in Requests : pc'[r] \in {"row", "note"} => pc[r] \in {"row", "note"} /\ r # q
      BY <2>1, <3>1
    <3>5. \A a : Listed(a)' => Listed(a) \/ a = Row(q)
      BY <3>1 DEF Listed, Row
    <3>6. \A r \in Requests : Row(r)' = Row(r)
      BY <3>1 DEF Row
    <3>. QED
      BY <3>1, <3>3, <3>4, <3>5, <3>6 DEF Lists
  <2>4. CASE ~Add(q) /\ ~AddRow(q) /\ ~Note(q)
    <3>1. pc'[q] \notin {"row", "note"} /\ UNCHANGED listVars
      <4>1. \A g : Verdict(g) \notin {"row", "note"}
        BY DEF Verdict
      <4>. QED
        BY <1>6, <2>4, <4>1 DEF Step, RegisterCancel, RegisterInsert, InitiatePend,
           InitiateNodes, InitiateAsk, ApproveTally, ApproveReject, ApproveAccept, Join, Go, TypeOK
    <3>. QED
      BY <2>1, <3>1, ListsKept DEF Rows
  <2>. QED
    BY <2>2, <2>3, <2>4
<1>7. ASSUME NEW q \in Requests, NEW a \in Nodes, Register(q, a) PROVE Lists'
  <2>1. (IF Known(a) = {} THEN "insert" ELSE "cancel") \notin {"idle", "row", "note"}
    OBVIOUS
  <2>. QED
    BY <1>5, <1>7, <2>1 DEF Register, Start
<1>8. ASSUME NEW q \in Requests, NEW g \in Requests, Initiate(q, g) PROVE Lists'
  <2>1. (IF MayInitiate(g) THEN "pend" ELSE "done") \notin {"idle", "row", "note"}
    OBVIOUS
  <2>. QED
    BY <1>5, <1>8, <2>1 DEF Initiate, Start
<1>9. ASSUME NEW q \in Requests, NEW p \in Approvals, NEW b \in BOOLEAN, Approve(q, p, b)
      PROVE  Lists'
  BY <1>5, <1>9 DEF Approve, Start
<1>10. ASSUME NEW q \in Requests, NEW a \in Nodes, Hear(q, a) PROVE Lists'
  BY <1>5, <1>10 DEF Hear
<1>. QED
  BY <1>1, <1>2, <1>3, <1>4, <1>6, <1>7, <1>8, <1>9, <1>10 DEF Next
-----------------------------------------------------------------------------
(* Settled registrations.  On a registration that no two requests met on,   *)
(* at most one request is at work, and what the status and the approvals    *)
(* say at each of its places is what it leaves behind when it is done.  A   *)
(* request about another registration of the same address does no more to   *)
(* it than cancel it, when nobody is at work on it.                         *)

Works(q, g) == InProgress(q) /\ job[q].reg = g
AllYes(g) == \A p \in Of(g) : approval[p] = "approved"
Refused(g) == \E p \in Of(g) : approval[p] = "rejected"
Unanswered(g) == \E p \in Of(g) : approval[p] = "pendingApproval"
WasListed(a) == Listed(a) \/ a \in gone

Settled(g) ==
    /\ reg[g].status = "approved" => Of(g) # {} /\ AllYes(g) /\ WasListed(reg[g].addr)
    /\ reg[g].status = "rejected" => ~AllYes(g)
    /\ reg[g].status = "pendingApproval" => Unanswered(g)

\* What is true of g while q is at work on it.
Knows(q, g) ==
    /\ pc[q] \in {"nodes", "ask"} => reg[g].status = "pendingApproval"
    /\ pc[q] = "ask" => job[q].asked # {}
    /\ pc[q] = "tally" /\ reg[g].status = "approved" =>
           WasListed(reg[g].addr) /\ (AllYes(g) \/ Refused(g))
    /\ pc[q] = "reject" => Refused(g)
    /\ pc[q] = "accept" => AllYes(g)
    /\ pc[q] \in {"join", "add", "row"} => reg[g].status = "approved" /\ AllYes(g)

Solo(g) ==
    \A q, r \in Requests : Works(q, g) /\ InProgress(r) /\ job[r].addr = reg[g].addr => q = r

Followed(g) ==
    /\ (\A q \in Requests : ~Works(q, g)) => Settled(g)
    /\ \A q \in Requests : Works(q, g) => Knows(q, g)

Settling ==
    /\ This \in members
    /\ \A q \in Requests : pc[q] \in {"cancel", "insert"} => job[q].reg = q
    /\ \A g \in Requests \ met : Exists(g) => Solo(g) /\ Followed(g)

\* A request that starts meets those in progress about its address.
Meets ==
    \A q \in Requests : InProgress(q)' /\ ~InProgress(q) =>
        /\ pc[q] = "idle"
        /\ \A r \in Requests \ {q} : pc'[r] = pc[r] /\ job'[r] = job[r]
        /\ \A g \in Requests : Exists(g) /\ reg[g].addr = job'[q].addr /\ Busy(g) => g \in met'

LEMMA StartMeets ==
  ASSUME TypeOK, NEW q \in Requests, NEW k, NEW j, NEW l, Start(q, k, j, l), l # "idle"
  PROVE  Meets /\ met \subseteq met'
<1>1. /\ pc[q] = "idle" /\ job'[q] = j
      /\ \A r \in Requests \ {q} : pc'[r] = pc[r] /\ job'[r] = job[r]
  BY StartFacts
<1>2. met' = met \cup {g \in Requests : Exists(g) /\ reg[g].addr = j.addr /\ Busy(g)}
  BY DEF Start
<1>3. \A r \in Requests : InProgress(r)' /\ ~InProgress(r) => r = q
  BY <1>1 DEF InProgress
<1>. QED
  BY <1>1, <1>2, <1>3 DEF Meets

LEMMA MeetsStep == TypeOK /\ Documents /\ Knowledge /\ [Next]_vars => Meets /\ met \subseteq met'
<1>. SUFFICES ASSUME TypeOK, Documents, Knowledge, [Next]_vars PROVE Meets /\ met \subseteq met'
  OBVIOUS
<1>1. ASSUME NEW q \in Requests, NEW a \in Nodes, Register(q, a) PROVE Meets /\ met \subseteq met'
  BY <1>1, StartMeets DEF Register
<1>2. ASSUME NEW q \in Requests, NEW g \in Requests, Initiate(q, g) PROVE Meets /\ met \subseteq met'
  BY <1>2, StartMeets DEF Initiate
<1>3. ASSUME NEW q \in Requests, NEW p \in Approvals, NEW b \in BOOLEAN, Approve(q, p, b)
      PROVE  Meets /\ met \subseteq met'
  BY <1>3, StartMeets DEF Approve
<1>4. ASSUME NEW q \in Requests, Step(q) PROVE Meets /\ met \subseteq met'
  <2>1. \A r \in Requests \ {q} : pc'[r] = pc[r]
    BY <1>4 DEF Step, RegisterCancel, RegisterInsert, InitiatePend, InitiateNodes, InitiateAsk,
                ApproveTally, ApproveReject, ApproveAccept, Join, Add, AddRow, Note, Go, TypeOK
  <2>2. (InProgress(q)' => InProgress(q)) /\ met \subseteq met'
    BY <1>4 DEF Step, RegisterCancel, RegisterInsert, InitiatePend, InitiateNodes, InitiateAsk,
                ApproveTally, ApproveReject, ApproveAccept, Join, Add, After, AddRow, Note, Go,
                InProgress, TypeOK
  <2>. QED
    BY <2>1, <2>2 DEF Meets, InProgress
<1>5. CASE (\E g \in Requests : VerifyEmail(g)) \/ (\E a \in Nodes : Remove(a)) \/ UNCHANGED vars
  BY <1>5 DEF VerifyEmail, Remove, vars, requestVars, Meets, InProgress
<1>6. CASE Crash
  BY <1>6 DEF Crash, Meets, InProgress, TypeOK
<1>7. ASSUME NEW q \in Requests, NEW a \in Nodes, Hear(q, a) PROVE Meets /\ met \subseteq met'
  BY <1>7, BeginFacts DEF Hear, Meets, InProgress
<1>. QED
  BY <1>1, <1>2, <1>3, <1>4, <1>5, <1>6, <1>7 DEF Next

\* An address that has been on the list is on it or was removed from it.
LEMMA ListedStays ==
  ASSUME TypeOK, Documents, Knowledge, Shape, [Next]_vars, NEW a, WasListed(a)
  PROVE  WasListed(a)'
<1>. USE DEF registrationVars, approvalVars, listVars, requestVars, WasListed, Listed, Row, Rows
<1>1. \A q \in Rows : job'[q].addr = job[q].addr
  BY DEF Documents, Shape, TypeOK
<1>2. CASE UNCHANGED <<members, joined, heard, gone>>
  BY <1>1, <1>2
<1>3. ASSUME NEW n \in Nodes, Remove(n) PROVE WasListed(a)'
  BY <1>1, <1>3 DEF Remove
<1>4. ASSUME NEW q \in Requests, AddRow(q) \/ Note(q) PROVE WasListed(a)'
  BY <1>1, <1>4 DEF AddRow, Note
<1>5. ASSUME NEW q \in Requests, Step(q), ~AddRow(q), ~Note(q)
      PROVE  UNCHANGED <<members, joined, heard, gone>>
  BY <1>5 DEF Step, RegisterCancel, RegisterInsert, InitiatePend, InitiateNodes, InitiateAsk,
              ApproveTally, ApproveReject, ApproveAccept, Join, Add
<1>. QED
  BY <1>2, <1>3, <1>4, <1>5 DEF Next, Register, Initiate, Approve, VerifyEmail, Crash, Hear, vars

\* Approvals are never taken from a registration, and new ones come from a
\* request that asks.
LEMMA OfStays ==
  ASSUME TypeOK, Documents, Shape, NEW g \in Requests, NEW p \in Approvals
  PROVE  /\ p \in Of(g) => p \in Of(g)'
         /\ p \in Of(g)' =>
              p \in Of(g) \/ (pc[p[1]] = "ask" /\ pc'[p[1]] = "done" /\ job[p[1]].reg = g)
<1>1. p[1] \in Requests
  BY DEF Approvals
<1>2. pc[p[1]] # "idle" => job'[p[1]].reg = job[p[1]].reg
  BY <1>1 DEF Shape
<1>3. approval[p] # Unset => pc[p[1]] = "done" /\ approval'[p] # Unset
  BY DEF Documents, Shape
<1>4. approval'[p] # Unset => approval[p] # Unset \/ (pc[p[1]] = "ask" /\ pc'[p[1]] = "done")
  BY DEF Shape
<1>. QED
  BY <1>2, <1>3, <1>4 DEF Of

LEMMA ApprovalsKept ==
  ASSUME TypeOK, Documents, Shape, NEW g \in Requests, approval' = approval
  PROVE  /\ Of(g)' = Of(g) /\ AllYes(g)' = AllYes(g)
         /\ Refused(g)' = Refused(g) /\ Unanswered(g)' = Unanswered(g)
<1>1. ASSUME NEW p \in Approvals
      PROVE  p \in Of(g)' <=> p \in Of(g)
  <2>1. p[1] \in Requests
    BY DEF Approvals
  <2>2. approval[p] # Unset => job'[p[1]].reg = job[p[1]].reg
    BY <2>1 DEF Documents, Shape
  <2>. QED
    BY <2>2 DEF Of
<1>2. Of(g)' = Of(g)
  BY <1>1 DEF Of
<1>. QED
  BY <1>2 DEF AllYes, Refused, Unanswered

\* A step that is not about g.
LEMMA Undisturbed ==
  ASSUME TypeOK, Documents, Shape, NEW g \in Requests, Exists(g), Followed(g),
         reg'[g].status = reg[g].status,
         \A p \in Of(g) : approval'[p] = approval[p],
         \A r \in Requests : Works(r, g)' <=> Works(r, g),
         \A r \in Requests : Works(r, g) => pc'[r] = pc[r] /\ job'[r].asked = job[r].asked,
         \A a : WasListed(a) => WasListed(a)'
  PROVE  Followed(g)'
<1>1. reg'[g].addr = reg[g].addr
  BY DEF Shape
<1>2. ASSUME NEW p \in Approvals PROVE p \in Of(g)' <=> p \in Of(g)
  <2>1. p[1] \in Requests
    BY DEF Approvals
  <2>2. ~(pc[p[1]] = "ask" /\ pc'[p[1]] = "done" /\ job[p[1]].reg = g)
    BY <2>1 DEF Works, InProgress
  <2>. QED
    BY <2>2, OfStays
<1>3. Of(g)' = Of(g)
  BY <1>2 DEF Of
<1>4. AllYes(g)' = AllYes(g) /\ Refused(g)' = Refused(g) /\ Unanswered(g)' = Unanswered(g)
  BY <1>3 DEF AllYes, Refused, Unanswered
<1>5. Settled(g) => Settled(g)'
  BY <1>1, <1>3, <1>4 DEF Settled
<1>6. ASSUME NEW r \in Requests, Works(r, g), Knows(r, g) PROVE Knows(r, g)'
  BY <1>1, <1>4, <1>6 DEF Knows
<1>. QED
  BY <1>5, <1>6 DEF Followed

\* Who is at work on a registration knows that it exists.
LEMMA WorkersKnow ==
  ASSUME TypeOK, Documents, Knowledge, Settling, NEW g \in Requests, Exists(g),
         NEW q \in Requests, Works(q, g)
  PROVE  /\ About(q) /\ job[q].addr = reg[g].addr
         /\ pc[q] \in Asking \cup Counting \cup Admitting
<1>1. pc[q] \notin {"cancel", "insert", "idle", "done", "hear", "note"}
  BY DEF Settling, Documents, Works, InProgress
<1>2. pc[q] \in Asking \cup Counting \cup Admitting
  BY <1>1 DEF TypeOK, Places, Asking, Counting, Admitting
<1>. QED
  BY <1>2 DEF Knowledge, Verified, Agreed, About, Works

LEMMA SoloStep ==
  ASSUME TypeOK, Documents, Knowledge, Settling, Shape, Meets, TypeOK', Documents', Knowledge',
         \A q \in Requests : pc'[q] \in {"cancel", "insert"} => job'[q].reg = q,
         NEW g \in Requests, Exists(g), Solo(g), g \notin met'
  PROVE  Solo(g)'
<1>. SUFFICES ASSUME NEW q \in Requests, NEW r \in Requests, Works(q, g)', InProgress(r)',
                     (job[r].addr = reg[g].addr)'
              PROVE  q = r
  BY DEF Solo
<1>1. reg'[g].addr = reg[g].addr /\ Exists(g)'
  BY DEF Shape
<1>2. job'[q].addr = reg[g].addr
  <2>1. pc'[q] \notin {"cancel", "insert", "idle", "done", "hear", "note"}
    BY <1>1 DEF Documents, Works, InProgress
  <2>2. pc'[q] \in Asking \cup Counting \cup Admitting
    BY <2>1 DEF TypeOK, Places, Asking, Counting, Admitting
  <2>. QED
    BY <1>1, <2>2 DEF Knowledge, Verified, Agreed, About, Works
<1>3. ASSUME NEW s \in Requests, InProgress(s)
      PROVE  job'[s].reg = job[s].reg /\ job'[s].addr = job[s].addr
  BY <1>3 DEF Shape, InProgress
<1>4. CASE InProgress(q) /\ InProgress(r)
  BY <1>1, <1>3, <1>4 DEF Solo, Works
<1>5. CASE ~InProgress(q)
  BY <1>1, <1>2, <1>5 DEF Meets, Works, InProgress, Busy
<1>6. CASE InProgress(q) /\ ~InProgress(r)
  <2>1. Busy(g)
    BY <1>3, <1>6 DEF Works, Busy
  <2>. QED
    BY <1>1, <1>6, <2>1 DEF Meets
<1>. QED
  BY <1>4, <1>5, <1>6

\* The steps of the one request at work on g.
LEMMA WorkerStep ==
  ASSUME TypeOK, Documents, Knowledge, Settling, Shape, TypeOK',
         NEW g \in Requests, Exists(g), g \notin met', Solo(g), Followed(g),
         \A a : WasListed(a) => WasListed(a)',
         NEW q \in Requests, Works(q, g), Step(q)
  PROVE  Followed(g)'
<1>. USE DEF Go, registrationVars, approvalVars, listVars
<1>1. /\ job[q].reg = g /\ InProgress(q) /\ Knows(q, g)
      /\ About(q) /\ job[q].addr = reg[g].addr
      /\ reg[g] \in Document /\ reg'[g].addr = reg[g].addr
  BY WorkersKnow DEF Works, Followed, TypeOK, Exists, Shape
<1>2. \A r \in Requests \ {q} : pc'[r] = pc[r] /\ job'[r] = job[r]
  BY DEF Step, RegisterCancel, RegisterInsert, InitiatePend, InitiateNodes, InitiateAsk,
         ApproveTally, ApproveReject, ApproveAccept, Join, Add, AddRow, Note, TypeOK
<1>3. \A r \in Requests \ {q} : ~Works(r, g)'
  BY <1>1, <1>2, WorkersKnow DEF Works, InProgress, Solo
<1>4. Works(q, g)' <=> pc'[q] # "done"
  <2>1. \A h : Verdict(h) \notin {"hear", "note"}
    BY DEF Verdict
  <2>2. pc'[q] \notin {"hear", "note"}
    BY <1>1, <2>1 DEF Step, RegisterCancel, RegisterInsert, InitiatePend, InitiateNodes,
       InitiateAsk, ApproveTally, ApproveReject, ApproveAccept, Join, Add, After, AddRow, Note,
       InProgress, TypeOK
  <2>. QED
    BY <1>1, <2>2 DEF Works, InProgress, Shape
<1>5. SUFFICES /\ pc'[q] = "done" => Settled(g)'
               /\ pc'[q] # "done" => Knows(q, g)'
  BY <1>3, <1>4 DEF Followed
<1>6. CASE RegisterCancel(q) \/ RegisterInsert(q)
  BY <1>1, <1>6, WorkersKnow DEF RegisterCancel, RegisterInsert, Asking, Counting, Admitting
<1>7. CASE InitiatePend(q)
  <2>1. pc'[q] = "nodes" /\ reg'[g].status = "pendingApproval"
    BY <1>1, <1>7 DEF InitiatePend, WithStatus, TypeOK, Document
  <2>. QED
    BY <2>1 DEF Knows
<1>8. CASE InitiateNodes(q)
  <2>1. pc[q] = "nodes" /\ pc'[q] = "ask" /\ reg'[g].status = "pendingApproval"
    BY <1>1, <1>8 DEF InitiateNodes, TypeOK, Knows
  <2>2. This \in job'[q].asked
    BY <1>8, NodesAssumption DEF InitiateNodes, Settling, Listed, TypeOK, Jobs
  <2>. QED
    BY <2>1, <2>2 DEF Knows
<1>9. CASE InitiateAsk(q)
  <2>1. pc[q] = "ask" /\ pc'[q] = "done" /\ reg'[g].status = "pendingApproval" /\ job'[q].reg = g
    BY <1>1, <1>9 DEF InitiateAsk, TypeOK, Knows
  <2>2. PICK a \in job[q].asked : a \in Nodes
    BY <1>1, <2>1 DEF Knows, TypeOK, Jobs
  <2>3. <<q, a>> \in Approvals /\ approval'[<<q, a>>] = "pendingApproval"
    BY <1>9, <2>2 DEF InitiateAsk, Approvals
  <2>4. Unanswered(g)'
    BY <2>1, <2>3 DEF Unanswered, Of, Unset
  <2>. QED
    BY <2>1, <2>4 DEF Settled
<1>10. CASE ApproveTally(q)
  <2>1. pc[q] = "tally" /\ pc'[q] = Verdict(g) /\ reg' = reg /\ approval' = approval
    BY <1>1, <1>10 DEF ApproveTally, TypeOK
  <2>2. CASE Refused(g)
    BY <2>1, <2>2, ApprovalsKept DEF Refused, Verdict, Knows
  <2>3. CASE ~Refused(g) /\ AllYes(g)
    BY <2>1, <2>3, ApprovalsKept DEF Refused, AllYes, Verdict, Knows
  <2>4. CASE ~Refused(g) /\ ~AllYes(g)
    <3>1. pc'[q] = "done" /\ reg[g].status # "approved"
      BY <1>1, <2>1, <2>4 DEF Refused, AllYes, Verdict, Knows
    <3>2. Unanswered(g)
      BY <2>4 DEF Refused, AllYes, Unanswered, Of, TypeOK, ApprovalStatus
    <3>. QED
      BY <2>1, <2>4, <3>1, <3>2, ApprovalsKept DEF Settled
  <2>. QED
    BY <2>2, <2>3, <2>4
<1>11. CASE ApproveReject(q)
  <2>1. pc'[q] = "done" /\ reg'[g].status = "rejected" /\ approval' = approval /\ Refused(g)
    BY <1>1, <1>11 DEF ApproveReject, WithStatus, TypeOK, Document, Knows
  <2>2. ~AllYes(g)'
    BY <2>1, ApprovalsKept DEF Refused, AllYes
  <2>. QED
    BY <2>1, <2>2 DEF Settled
<1>12. CASE ApproveAccept(q)
  <2>1. pc'[q] = "join" /\ reg'[g].status = "approved" /\ approval' = approval /\ AllYes(g)
    BY <1>1, <1>12 DEF ApproveAccept, WithStatus, TypeOK, Document, Knows
  <2>. QED
    BY <2>1, ApprovalsKept DEF Knows
<1>13. CASE Join(q) \/ Add(q) \/ AddRow(q) \/ Note(q)
  <2>1. /\ reg' = reg /\ approval' = approval /\ pc[q] \in {"join", "add", "row"}
        /\ reg[g].status = "approved" /\ AllYes(g)
    BY <1>1, <1>13 DEF Join, Add, AddRow, Note, Knows, InProgress
  <2>2. Of(g) # {}
    BY <1>1, <2>1 DEF Knowledge, Admitting, Agreed, Round, Batch, Of
  <2>3. pc'[q] = "done" => WasListed(reg[g].addr)'
    <3>1. CASE Join(q) \/ Add(q)
      BY <1>1, <2>1, <3>1 DEF Join, Add, After, WasListed, Row, TypeOK
    <3>2. CASE AddRow(q)
      BY <1>1, <3>2 DEF AddRow, WasListed, Listed, Row, Rows
    <3>. QED
      BY <1>13, <2>1, <3>1, <3>2 DEF Note
  <2>4. pc'[q] \in {"add", "row", "done"}
    BY <1>13, <2>1 DEF Join, Add, After, AddRow, Note, TypeOK
  <2>. QED
    BY <1>1, <2>1, <2>2, <2>3, <2>4, ApprovalsKept DEF Settled, Knows
<1>. QED
  BY <1>6, <1>7, <1>8, <1>9, <1>10, <1>11, <1>12, <1>13 DEF Step

\* A step of a request at work on another registration.
LEMMA OtherStep ==
  ASSUME TypeOK, Documents, Knowledge, Settling, Shape,
         NEW g \in Requests, Exists(g), Solo(g), Followed(g),
         \A a : WasListed(a) => WasListed(a)',
         NEW q \in Requests, ~Works(q, g), Step(q)
  PROVE  Followed(g)'
<1>. USE DEF Go, registrationVars, approvalVars, listVars
<1>1. job[q].reg \in Requests /\ job'[q].reg = job[q].reg
  BY DEF Step, RegisterCancel, RegisterInsert, InitiatePend, InitiateNodes, InitiateAsk,
         ApproveTally, ApproveReject, ApproveAccept, Join, Add, AddRow, Note, TypeOK, Jobs, Shape
<1>2. \A r \in Requests \ {q} : pc'[r] = pc[r] /\ job'[r] = job[r]
  BY DEF Step, RegisterCancel, RegisterInsert, InitiatePend, InitiateNodes, InitiateAsk,
         ApproveTally, ApproveReject, ApproveAccept, Join, Add, AddRow, Note, TypeOK
<1>3. CASE ~InProgress(q)
  <2>1. /\ UNCHANGED <<reg, approval>> /\ pc'[q] \in {"note", "done"}
    BY <1>3 DEF Step, RegisterCancel, RegisterInsert, InitiatePend, InitiateNodes, InitiateAsk,
       ApproveTally, ApproveReject, ApproveAccept, Join, Add, After, AddRow, Note, InProgress, TypeOK
  <2>2. /\ \A r \in Requests : Works(r, g)' <=> Works(r, g)
        /\ \A r \in Requests : Works(r, g) => pc'[r] = pc[r] /\ job'[r].asked = job[r].asked
    BY <1>2, <1>3, <2>1 DEF Works, InProgress
  <2>. QED
    BY <2>1, <2>2, Undisturbed
<1>4. SUFFICES ASSUME InProgress(q) PROVE Followed(g)'
  BY <1>3
<1>5. InProgress(q) /\ job[q].reg # g /\ job[q].reg \in Requests /\ job'[q].reg = job[q].reg
  BY <1>1, <1>4 DEF Works
<1>6. /\ \A r \in Requests : Works(r, g)' <=> Works(r, g)
      /\ \A r \in Requests : Works(r, g) => pc'[r] = pc[r] /\ job'[r].asked = job[r].asked
  BY <1>5, <1>2 DEF Works, InProgress
<1>7. \A p \in Of(g) : approval'[p] = approval[p]
  <2>1. CASE InitiateAsk(q)
    <3>1. \A p \in Of(g) : p \in Approvals /\ p[1] # q
      BY <1>5 DEF Of
    <3>. QED
      BY <2>1, <3>1 DEF InitiateAsk
  <2>2. CASE ~InitiateAsk(q)
    BY <2>2 DEF Step, RegisterCancel, RegisterInsert, InitiatePend, InitiateNodes,
         ApproveTally, ApproveReject, ApproveAccept, Join, Add, AddRow, Note
  <2>. QED
    BY <2>1, <2>2
<1>8. CASE reg'[g].status = reg[g].status
  BY <1>6, <1>7, <1>8, Undisturbed
<1>9. CASE RegisterCancel(q) /\ g \in Known(job[q].addr)
  <2>1. reg[g].addr = job[q].addr /\ reg[g] \in Document
    BY <1>9 DEF Known, TypeOK, Exists
  <2>2. reg'[g].status = "cancelled"
    BY <1>9, <2>1 DEF RegisterCancel, TypeOK, Document
  <2>3. \A r \in Requests : ~Works(r, g)
    BY <1>5, <2>1 DEF Solo, Works
  <2>4. Settled(g)'
    BY <2>2 DEF Settled
  <2>. QED
    BY <1>6, <2>3, <2>4 DEF Followed
<1>10. CASE ~(RegisterCancel(q) /\ g \in Known(job[q].addr))
  <2>1. CASE RegisterCancel(q)
    <3>1. reg'[g] = reg[g]
      BY <1>10, <2>1 DEF RegisterCancel
    <3>. QED
      BY <1>8, <3>1
  <2>2. CASE RegisterInsert(q)
    <3>1. g # q
      BY <1>5 DEF Documents, InProgress
    <3>2. reg'[g] = reg[g]
      BY <2>2, <3>1 DEF RegisterInsert, TypeOK
    <3>. QED
      BY <1>8, <3>2
  <2>3. CASE InitiatePend(q) \/ ApproveReject(q) \/ ApproveAccept(q)
    <3>1. reg'[g] = reg[g]
      BY <1>5, <2>3 DEF InitiatePend, ApproveReject, ApproveAccept, WithStatus, TypeOK
    <3>. QED
      BY <1>8, <3>1
  <2>4. CASE InitiateNodes(q) \/ InitiateAsk(q) \/ ApproveTally(q) \/ Join(q)
           \/ Add(q) \/ AddRow(q) \/ Note(q)
    <3>1. reg' = reg
      BY <2>4 DEF InitiateNodes, InitiateAsk, ApproveTally, Join, Add, AddRow, Note
    <3>. QED
      BY <1>8, <3>1
  <2>. QED
    BY <2>1, <2>2, <2>3, <2>4 DEF Step
<1>. QED
  BY <1>9, <1>10

\* A request starts.  If it is one on g, nobody was at work on g.
LEMMA StartStep ==
  ASSUME TypeOK, Documents, Knowledge, Settling, Shape,
         NEW g \in Requests, Exists(g), g \notin met', Followed(g),
         \A a : WasListed(a) => WasListed(a)',
         NEW q \in Requests, NEW k, NEW j, NEW l, Start(q, k, j, l), l # "idle",
         j.reg # g, UNCHANGED reg,
         \A p \in Of(g) : approval'[p] = approval[p]
  PROVE  Followed(g)'
<1>1. /\ pc[q] = "idle" /\ job'[q] = j
      /\ \A r \in Requests \ {q} : pc'[r] = pc[r] /\ job'[r] = job[r]
  BY StartFacts
<1>2. /\ \A r \in Requests : Works(r, g)' <=> Works(r, g)
      /\ \A r \in Requests : Works(r, g) => pc'[r] = pc[r] /\ job'[r].asked = job[r].asked
  BY <1>1 DEF Works, InProgress
<1>. QED
  BY <1>2, Undisturbed

LEMMA StartOn ==
  ASSUME TypeOK, Documents, Knowledge, Settling,
         NEW g \in Requests, Exists(g), g \notin met', Followed(g),
         NEW q \in Requests, NEW k, NEW j, NEW l, Start(q, k, j, l), l \notin {"idle", "hear", "note"},
         j.reg = g, j.addr = reg[g].addr
  PROVE  /\ Settled(g)
         /\ \A r \in Requests \ {q} : ~Works(r, g)'
         /\ pc'[q] = l /\ (Works(q, g)' <=> l # "done")
<1>1. ~Busy(g)
  BY DEF Start
<1>2. \A r \in Requests : ~Works(r, g)
  BY <1>1 DEF Busy, Works
<1>. QED
  BY <1>2, StartFacts DEF Followed, Works, InProgress

LEMMA FollowedStep ==
  ASSUME TypeOK, Documents, Knowledge, Settling, Shape, [Next]_vars, TypeOK',
         NEW g \in Requests, Exists(g), g \notin met', Solo(g), Followed(g),
         \A a : WasListed(a) => WasListed(a)'
  PROVE  Followed(g)'
<1>. USE DEF registrationVars, approvalVars, listVars, requestVars
<1>1. ASSUME NEW q \in Requests, NEW a \in Nodes, Register(q, a) PROVE Followed(g)'
  <2>. DEFINE j == [reg |-> q, addr |-> a, asked |-> {}]
              l == IF Known(a) = {} THEN "insert" ELSE "cancel"
  <2>1. Start(q, "register", j, l) /\ l # "idle" /\ UNCHANGED <<reg, approval>>
    BY <1>1 DEF Register
  <2>2. j.reg # g
    BY <2>1 DEF Start, Begin, Documents
  <2>. HIDE DEF j, l
  <2>. QED
    BY <2>1, <2>2, StartStep
<1>2. ASSUME NEW q \in Requests, NEW h \in Requests, Initiate(q, h) PROVE Followed(g)'
  <2>. DEFINE j == [reg |-> h, addr |-> reg[h].addr, asked |-> {}]
              l == IF MayInitiate(h) THEN "pend" ELSE "done"
  <2>1. Start(q, "initiate", j, l) /\ l # "idle" /\ UNCHANGED <<reg, approval>> /\ j.reg = h
        /\ j.addr = reg[h].addr
    BY <1>2 DEF Initiate
  <2>2. l \in {"pend", "done"}
    OBVIOUS
  <2>. HIDE DEF j, l
  <2>3. CASE h # g
    BY <2>1, <2>3, StartStep
  <2>4. CASE h = g
    <3>1. /\ Settled(g) /\ \A r \in Requests \ {q} : ~Works(r, g)'
          /\ pc'[q] = l /\ (Works(q, g)' <=> l # "done")
      BY <2>1, <2>2, <2>4, StartOn
    <3>2. UNCHANGED <<members, joined, heard, gone>>
      BY <1>2 DEF Initiate
    <3>3. Settled(g)'
      BY <2>1, <3>1, ApprovalsKept DEF Settled
    <3>4. l = "pend" => Knows(q, g)'
      BY <3>1 DEF Knows
    <3>. QED
      BY <2>2, <3>1, <3>3, <3>4 DEF Followed
  <2>. QED
    BY <2>3, <2>4
<1>3. ASSUME NEW q \in Requests, NEW p \in Approvals, NEW b \in BOOLEAN, Approve(q, p, b)
      PROVE  Followed(g)'
  <2>. DEFINE h == job[p[1]].reg
              j == [reg |-> h, addr |-> reg[h].addr, asked |-> {}]
  <2>1. Start(q, "approve", j, "tally") /\ UNCHANGED reg /\ j.reg = h /\ j.addr = reg[h].addr
    BY <1>3 DEF Approve
  <2>2. approval' = [approval EXCEPT ![p] = IF b THEN "approved" ELSE "rejected"]
    BY <1>3 DEF Approve
  <2>3. approval[p] # Unset /\ p[1] \in Requests
    BY <1>3 DEF Approve, Documents, Approvals
  <2>. HIDE DEF j
  <2>4. CASE h # g
    <3>1. p \notin Of(g)
      BY <2>4 DEF Of
    <3>2. \A x \in Of(g) : approval'[x] = approval[x]
      BY <2>2, <3>1 DEF Of, TypeOK
    <3>. QED
      BY <2>1, <2>4, <3>2, StartStep
  <2>5. CASE h = g
    <3>1. /\ Settled(g) /\ \A r \in Requests \ {q} : ~Works(r, g)'
          /\ pc'[q] = "tally" /\ Works(q, g)'
      BY <2>1, <2>5, StartOn
    <3>2. p \in Of(g) /\ p \in Of(g)'
      BY <2>3, <2>5, OfStays DEF Of
    <3>3. AllYes(g) => (AllYes(g) \/ Refused(g))'
      <4>1. CASE b = FALSE
        BY <2>2, <3>2, <4>1 DEF Refused, TypeOK
      <4>2. CASE b = TRUE
        <5>1. ASSUME NEW x \in Of(g)', AllYes(g) PROVE approval'[x] = "approved"
          <6>1. x \in Approvals /\ (x \in Of(g) \/ (pc[x[1]] = "ask" /\ pc'[x[1]] = "done"))
            BY OfStays DEF Of
          <6>2. x[1] \in Requests
            BY <6>1 DEF Approvals
          <6>3. x \in Of(g)
            <7>1. pc[q] = "idle" /\ pc'[q] = "tally" /\ \A r \in Requests \ {q} : pc'[r] = pc[r]
              BY <2>1, StartFacts
            <7>. QED
              BY <6>1, <6>2, <7>1
          <6>. QED
            BY <2>2, <4>2, <5>1, <6>1, <6>3 DEF AllYes, TypeOK
        <5>. QED
          BY <5>1 DEF AllYes
      <4>. QED
        BY <4>1, <4>2
    <3>4. Knows(q, g)'
      BY <2>1, <3>1, <3>3 DEF Knows, Settled
    <3>. QED
      BY <3>1, <3>4 DEF Followed
  <2>. QED
    BY <2>4, <2>5
<1>4. ASSUME NEW q \in Requests, Step(q) PROVE Followed(g)'
  BY <1>4, WorkerStep, OtherStep
<1>5. ASSUME NEW h \in Requests, VerifyEmail(h) PROVE Followed(g)'
  <2>1. reg[g] \in Document
    BY DEF TypeOK, Exists
  <2>2. reg'[g].status = reg[g].status
    BY <1>5, <2>1 DEF VerifyEmail, TypeOK, Document
  <2>. QED
    BY <1>5, <2>2, Undisturbed DEF VerifyEmail, Works, InProgress
<1>6. ASSUME NEW a \in Nodes, Remove(a) PROVE Followed(g)'
  BY <1>6, Undisturbed DEF Remove, Works, InProgress
<1>7. CASE Crash
  <2>1. ~Busy(g)
    BY <1>7 DEF Crash
  <2>2. \A r \in Requests : ~Works(r, g) /\ ~Works(r, g)'
    BY <1>7, <2>1 DEF Crash, Busy, Works, InProgress, TypeOK
  <2>. QED
    BY <1>7, <2>2, Undisturbed DEF Crash
<1>8. CASE UNCHANGED vars
  BY <1>8, Undisturbed DEF vars, Works, InProgress
<1>9. ASSUME NEW q \in Requests, NEW a \in Nodes, Hear(q, a) PROVE Followed(g)'
  <2>1. UNCHANGED <<reg, approval>>
    BY <1>9 DEF Hear
  <2>2. /\ \A r \in Requests : Works(r, g)' <=> Works(r, g)
        /\ \A r \in Requests : Works(r, g) => pc'[r] = pc[r] /\ job'[r].asked = job[r].asked
    BY <1>9, BeginFacts DEF Hear, Works, InProgress
  <2>. QED
    BY <2>1, <2>2, Undisturbed
<1>. QED
  BY <1>1, <1>2, <1>3, <1>4, <1>5, <1>6, <1>7, <1>8, <1>9 DEF Next

\* Documents are inserted by the request they are known by.
LEMMA NewDocument ==
  ASSUME TypeOK, Documents, Knowledge, [Next]_vars, NEW g \in Requests, ~Exists(g), Exists(g)'
  PROVE  RegisterInsert(g)
<1>. USE DEF registrationVars, approvalVars, listVars, requestVars
<1>1. reg' # reg
  BY DEF Exists
<1>2. ASSUME NEW q \in Requests, Step(q) PROVE RegisterInsert(g)
  <2>1. CASE RegisterCancel(q)
    BY <2>1 DEF RegisterCancel, Known, Exists, TypeOK
  <2>2. CASE RegisterInsert(q)
    BY <2>2 DEF RegisterInsert, Exists, TypeOK
  <2>3. CASE InitiatePend(q) \/ ApproveReject(q) \/ ApproveAccept(q)
    <3>1. Exists(job[q].reg)
      BY <2>3 DEF InitiatePend, ApproveReject, ApproveAccept, Knowledge, Asking, Counting,
                  Admitting, Verified, Agreed, About
    <3>2. job[q].reg # g
      BY <3>1
    <3>3. reg'[g] = reg[g]
      BY <2>3, <3>2 DEF InitiatePend, ApproveReject, ApproveAccept, WithStatus, TypeOK
    <3>. QED
      BY <3>3 DEF Exists
  <2>. QED
    BY <1>1, <1>2, <2>1, <2>2, <2>3
    DEF Step, InitiateNodes, InitiateAsk, ApproveTally, Join, Add, AddRow, Note
<1>3. ASSUME NEW h \in Requests, VerifyEmail(h) PROVE FALSE
  <2>1. h # g
    BY <1>3 DEF VerifyEmail, Documents
  <2>. QED
    BY <1>3, <2>1 DEF VerifyEmail, Exists, TypeOK
<1>. QED
  BY <1>1, <1>2, <1>3 DEF Next, Register, Initiate, Approve, Remove, Crash, Hear, vars

LEMMA SettlingStep ==
  ASSUME TypeOK, Documents, Knowledge, Settling, Shape, [Next]_vars,
         TypeOK', Documents', Knowledge'
  PROVE  Settling'
<1>. USE DEF registrationVars, approvalVars, listVars, requestVars
<1>1. This \in members'
  BY DEF Settling, Next, Register, Initiate, Approve, VerifyEmail, Remove, Crash, Hear, vars,
      Step,
         RegisterCancel, RegisterInsert, InitiatePend, InitiateNodes, InitiateAsk,
         ApproveTally, ApproveReject, ApproveAccept, Join, Add, AddRow, Note
<1>2. ASSUME NEW q \in Requests, pc'[q] \in {"cancel", "insert"} PROVE job'[q].reg = q
  <2>1. CASE pc[q] \in {"cancel", "insert"}
    BY <2>1 DEF Settling, Shape
  <2>2. CASE pc[q] \notin {"cancel", "insert"}
    <3>1. ASSUME NEW r \in Requests, NEW a \in Nodes, Register(r, a) PROVE job'[q].reg = q
      BY <1>2, <2>2, <3>1, StartFacts DEF Register
    <3>2. ASSUME NEW r \in Requests, NEW h \in Requests, Initiate(r, h) PROVE FALSE
      <4>1. (IF MayInitiate(h) THEN "pend" ELSE "done") \notin {"idle", "cancel", "insert"}
        OBVIOUS
      <4>. QED
        BY <1>2, <2>2, <3>2, <4>1, StartFacts DEF Initiate
    <3>3. ASSUME NEW r \in Requests, NEW p \in Approvals, NEW b \in BOOLEAN, Approve(r, p, b)
          PROVE  FALSE
      BY <1>2, <2>2, <3>3, StartFacts DEF Approve
    <3>4. ASSUME NEW r \in Requests, Step(r) PROVE FALSE
      <4>1. \A g : Verdict(g) \notin {"cancel", "insert"}
        BY DEF Verdict
      <4>. QED
        BY <1>2, <2>2, <3>4, <4>1
        DEF Step, RegisterCancel, RegisterInsert, InitiatePend, InitiateNodes, InitiateAsk,
            ApproveTally, ApproveReject, ApproveAccept, Join, Add, After, AddRow, Note, Go, TypeOK
    <3>5. ASSUME NEW r \in Requests, NEW a \in Nodes, Hear(r, a) PROVE FALSE
      BY <1>2, <2>2, <3>5, BeginFacts DEF Hear
    <3>. QED
      BY <1>2, <2>2, <3>1, <3>2, <3>3, <3>4, <3>5 DEF Next, VerifyEmail, Remove, Crash, vars
  <2>. QED
    BY <2>1, <2>2
<1>3. Meets /\ met \subseteq met' /\ \A a : WasListed(a) => WasListed(a)'
  BY MeetsStep, ListedStays
<1>4. ASSUME NEW g \in Requests, g \notin met', Exists(g)' PROVE Solo(g)' /\ Followed(g)'
  <2>1. CASE Exists(g)
    <3>1. Solo(g) /\ Followed(g)
      BY <1>3, <1>4, <2>1 DEF Settling
    <3>. QED
      BY <1>2, <1>3, <1>4, <2>1, <3>1, SoloStep, FollowedStep
  <2>2. CASE ~Exists(g)
    <3>1. \A r \in Requests : ~Works(r, g)'
      <4>1. SUFFICES ASSUME NEW r \in Requests, Works(r, g)' PROVE FALSE
        OBVIOUS
      <4>2. pc'[g] = "done"
        BY <2>2, <1>4 DEF Shape
      <4>3. r # g
        BY <4>1, <4>2 DEF Works, InProgress
      <4>4. pc'[r] \in Asking \cup Counting \cup Admitting
        BY <1>2, <4>1, <4>3 DEF Works, InProgress, TypeOK, Places, Asking, Counting, Admitting
      <4>5. PICK q \in Requests : RegisterInsert(q) /\ q = g
        BY <2>2, <1>4, NewDocument
      <4>6. r # q /\ pc'[r] = pc[r] /\ job'[r] = job[r]
        BY <4>3, <4>5 DEF RegisterInsert, Go, TypeOK
      <4>7. Exists(g)
        BY <4>1, <4>4, <4>6 DEF Works, Knowledge, Verified, Agreed, About
      <4>. QED
        BY <2>2, <4>7
    <3>2. reg'[g].status = "pendingInitiation"
      BY <2>2, <1>4, NewDocument DEF RegisterInsert, TypeOK
    <3>. QED
      BY <3>1, <3>2 DEF Solo, Followed, Settled
  <2>. QED
    BY <2>1, <2>2
<1>. QED
  BY <1>1, <1>2, <1>4 DEF Settling

-----------------------------------------------------------------------------
LEMMA InvInit == Init => IInv
<1>. SUFFICES ASSUME Init PROVE IInv
  OBVIOUS
<1>1. TypeOK
  BY TypeInit
<1>2. Documents /\ Knowledge
  BY DEF Init, Documents, Knowledge, Exists, Absent, Unset, Asking, Counting, Admitting, Approvals
<1>3. Lists
  BY DEF Init, Lists, ListedOnce, Rows
<1>. QED
  BY <1>1, <1>2, <1>3 DEF IInv

LEMMA InvStep == IInv /\ [Next]_vars => IInv'
<1>. SUFFICES ASSUME IInv, [Next]_vars PROVE IInv'
  OBVIOUS
<1>1. TypeOK /\ Documents /\ Knowledge /\ Lists
  BY DEF IInv
<1>2. TypeOK' /\ Shape /\ Moves
  BY <1>1, TypeStep, ShapeStep, MovesStep
<1>3. Documents' /\ Knowledge' /\ Lists'
  BY <1>1, <1>2, DocumentsStep, KnowledgeStep, ListsStep
<1>. QED
  BY <1>2, <1>3 DEF IInv

LEMMA Invariant == Spec => []IInv
  BY InvInit, InvStep, PTL DEF Spec

\* Documents, places and histories keep their types under every interleaving
\* of requests and every restart.
THEOREM RegistrationTypeCorrect == Spec => []TypeOK
<1>1. IInv => TypeOK
  BY DEF IInv
<1>. QED
  BY <1>1, Invariant, PTL

\* Behind every row that approve has added is a verified registration of its
\* address and a round of approvals all of which were given.
THEOREM JoinsAgreed == Spec => []JoinsAreAgreed
<1>1. IInv => JoinsAreAgreed
  BY DEF IInv, TypeOK, Knowledge, Agreed, Verified, About, Round, JoinsAreAgreed, Row
<1>. QED
  BY <1>1, Invariant, PTL

\* Where no two requests met and none was cut short, the status of a
\* registration is what its approvals say, whatever order the clicks come in.
THEOREM VerdictsSettled == Spec => []VerdictSettles
<1>1. Init => Settling
  BY NodesAssumption DEF Init, Settling, Exists
<1>2. IInv /\ IInv' /\ Settling /\ [Next]_vars => Settling'
  BY SettlingStep, ShapeStep DEF IInv
<1>3. IInv /\ Settling => VerdictSettles
  <2>1. ASSUME Settling, NEW g \in Requests \ met, Exists(g), ~Busy(g) PROVE Settled(g)
    BY <2>1 DEF Settling, Followed, Works, Busy
  <2>. QED
    BY <2>1 DEF VerdictSettles, Settled, AllYes, Unanswered, WasListed
<1>. QED
  BY <1>1, <1>2, <1>3, Invariant, PTL DEF Spec

\* The list names a node once unless two requests were at once between the
\* look and the insertion of addNode.
THEOREM OnceListed == Spec => []ListedOnce
<1>1. IInv => ListedOnce
  BY DEF IInv, Lists
<1>. QED
  BY <1>1, Invariant, PTL

-----------------------------------------------------------------------------
(* Registration implements Admission.  Rounds says that the approvals of a  *)
(* round are those of the nodes that were on the list, all or none.         *)

Rounds ==
    /\ This \in members
    /\ \A q \in Requests : pc[q] \in {"idle", "pend", "nodes"} => job[q].asked = {}
    /\ \A p \in Approvals : approval[p] # Unset =>
           \A b \in Nodes : approval[<<p[1], b>>] # Unset <=> b \in job[p[1]].asked

KeepsRounds == \A q \in Requests : job'[q].asked = job[q].asked
KeepsConfirmed ==
    \A g \in Requests : Exists(g)' /\ reg'[g].verified <=> Exists(g) /\ reg[g].verified

LEMMA BeginKeepsRounds ==
  ASSUME TypeOK, Rounds, NEW q \in Requests, NEW k, NEW g, NEW a, NEW l, l # "nodes",
         Begin(q, k, [reg |-> g, addr |-> a, asked |-> {}], l)
  PROVE  /\ KeepsRounds
         /\ \A r \in Requests : pc'[r] \in {"idle", "pend", "nodes"} => job'[r].asked = {}
<1>1. /\ pc[q] = "idle" /\ pc'[q] = l /\ job'[q].asked = {}
      /\ \A r \in Requests \ {q} : pc'[r] = pc[r] /\ job'[r] = job[r]
  BY DEF TypeOK, Begin
<1>. QED
  BY <1>1 DEF KeepsRounds, Rounds

\* Where the answers stay answers, and nobody is asked, the rounds stay as they are.
LEMMA RoundsFrame ==
  ASSUME TypeOK, Rounds, This \in members', KeepsRounds,
         \A q \in Requests : pc'[q] \in {"idle", "pend", "nodes"} => job'[q].asked = {},
         \A p \in Approvals : approval'[p] # Unset <=> approval[p] # Unset
  PROVE  Rounds'
<1>1. ASSUME NEW p \in Approvals, approval'[p] # Unset, NEW b \in Nodes
      PROVE  approval'[<<p[1], b>>] # Unset <=> b \in job'[p[1]].asked
  <2>1. p[1] \in Requests /\ <<p[1], b>> \in Approvals
    BY DEF Approvals
  <2>. QED
    BY <1>1, <2>1 DEF Rounds, KeepsRounds
<1>. QED
  BY <1>1 DEF Rounds

LEMMA RoundsStep == IInv /\ Rounds /\ [Next]_vars => Rounds'
<1>. SUFFICES ASSUME IInv, Rounds, [Next]_vars PROVE Rounds'
  OBVIOUS
<1>. USE DEF registrationVars, approvalVars, listVars, requestVars, IInv
<1>1. ASSUME NEW q \in Requests, NEW a \in Nodes, Register(q, a) PROVE Rounds'
  BY <1>1, BeginKeepsRounds, RoundsFrame DEF Register, Start, Rounds
<1>2. ASSUME NEW q \in Requests, NEW g \in Requests, Initiate(q, g) PROVE Rounds'
  BY <1>2, BeginKeepsRounds, RoundsFrame DEF Initiate, Start, Rounds
<1>3. ASSUME NEW q \in Requests, NEW p \in Approvals, NEW b \in BOOLEAN, Approve(q, p, b)
      PROVE  Rounds'
  <2>1. \A r \in Approvals : approval'[r] # Unset <=> approval[r] # Unset
    BY <1>3 DEF Approve, Documents, TypeOK, Unset
  <2>2. /\ KeepsRounds
        /\ \A r \in Requests : pc'[r] \in {"idle", "pend", "nodes"} => job'[r].asked = {}
    BY <1>3, BeginKeepsRounds DEF Approve, Start
  <2>. QED
    BY <1>3, <2>1, <2>2, RoundsFrame DEF Approve, Rounds
<1>4. ASSUME NEW g \in Requests, VerifyEmail(g) PROVE Rounds'
  BY <1>4 DEF VerifyEmail, Rounds
<1>5. ASSUME NEW a \in Nodes, Remove(a) PROVE Rounds'
  BY <1>5 DEF Remove, Rounds
<1>6. CASE Crash
  <2>1. \A q \in Requests : pc'[q] \in {pc[q], "done"}
    BY <1>6 DEF Crash
  <2>. QED
    BY <1>6, <2>1 DEF Crash, Rounds
<1>7. ASSUME NEW q \in Requests, Step(q) PROVE Rounds'
  <2>1. CASE InitiateNodes(q)
    <3>1. /\ pc[q] = "nodes" /\ pc'[q] = "ask"
          /\ \A r \in Requests \ {q} : pc'[r] = pc[r] /\ job'[r] = job[r]
          /\ approval' = approval /\ members' = members
      BY <2>1 DEF InitiateNodes, TypeOK
    <3>2. ASSUME NEW p \in Approvals, approval[p] # Unset PROVE p[1] \in Requests \ {q}
      BY <3>1, <3>2 DEF Documents, Approvals
    <3>. QED
      BY <3>1, <3>2 DEF Rounds
  <2>2. CASE InitiateAsk(q)
    <3>1. /\ pc[q] = "ask" /\ job' = job /\ members' = members
          /\ \A r \in Requests : pc'[r] \in {pc[r], "done"}
      BY <2>2 DEF InitiateAsk, Go, TypeOK
    <3>2. \A p \in Approvals : approval'[p] # Unset <=>
              approval[p] # Unset \/ (p[1] = q /\ p[2] \in job[q].asked)
      BY <2>2 DEF InitiateAsk, Unset
    <3>3. \A p \in Approvals : p[1] = q => approval[p] = Unset
      BY <3>1 DEF Documents
    <3>4. ASSUME NEW p \in Approvals, approval'[p] # Unset, NEW b \in Nodes
          PROVE  approval'[<<p[1], b>>] # Unset <=> b \in job'[p[1]].asked
      <4>1. <<p[1], b>> \in Approvals /\ <<p[1], b>>[1] = p[1] /\ <<p[1], b>>[2] = b
        BY DEF Approvals
      <4>2. CASE p[1] = q
        BY <3>1, <3>2, <3>3, <4>1, <4>2
      <4>3. CASE p[1] # q
        BY <3>1, <3>2, <3>4, <4>1, <4>3 DEF Rounds
      <4>. QED
        BY <4>2, <4>3
    <3>. QED
      BY <3>1, <3>4 DEF Rounds
  <2>3. CASE ~InitiateNodes(q) /\ ~InitiateAsk(q)
    <3>1. UNCHANGED <<approval, members, job>>
      BY <1>7, <2>3 DEF Step, RegisterCancel, RegisterInsert, InitiatePend, ApproveTally,
                        ApproveReject, ApproveAccept, Join, Add, AddRow, Note, Go
    <3>2. CASE InitiatePend(q)
      <4>1. pc[q] = "pend" /\ \A r \in Requests \ {q} : pc'[r] = pc[r]
        BY <3>2 DEF InitiatePend, Go, TypeOK
      <4>. QED
        BY <3>1, <4>1 DEF Rounds
    <3>3. CASE ~InitiatePend(q)
      <4>1. Verdict(job[q].reg) \notin {"idle", "pend", "nodes"}
        BY DEF Verdict
      <4>2. \A r \in Requests : pc'[r] = pc[r] \/ pc'[r] \notin {"idle", "pend", "nodes"}
        BY <1>7, <2>3, <3>3, <4>1
        DEF Step, RegisterCancel, RegisterInsert, ApproveTally, ApproveReject, ApproveAccept,
            Join, Add, After, AddRow, Note, Go, TypeOK
      <4>. QED
        BY <3>1, <4>2 DEF Rounds
    <3>. QED
      BY <3>2, <3>3
  <2>. QED
    BY <2>1, <2>2, <2>3
<1>8. CASE UNCHANGED vars
  BY <1>8 DEF vars, Rounds
<1>9. ASSUME NEW q \in Requests, NEW a \in Nodes, Hear(q, a) PROVE Rounds'
  BY <1>9, BeginKeepsRounds, RoundsFrame DEF Hear, Rounds
<1>. QED
  BY <1>1, <1>2, <1>3, <1>4, <1>5, <1>6, <1>7, <1>8, <1>9 DEF Next

\* What Admission sees of a step that keeps the rounds, the confirmations or the list.
LEMMA SameRounds ==
  ASSUME Shape, Rounds, KeepsRounds, job' \in [Requests -> Jobs]
  PROVE  [i \in Requests |-> Asked(i)'] = [i \in Requests |-> Asked(i)]
<1>1. ASSUME NEW i \in Requests PROVE Asked(i)' = Asked(i)
  BY DEF Asked, Shape, Rounds, KeepsRounds
<1>. QED
  BY <1>1

LEMMA SameConfirmed ==
  ASSUME Shape, KeepsConfirmed
  PROVE  Confirmed' = Confirmed
<1>1. ASSUME NEW g \in Requests, Exists(g), reg[g].verified PROVE reg'[g].addr = reg[g].addr
  BY <1>1 DEF Shape
<1>. QED
  BY <1>1 DEF Confirmed, Known, KeepsConfirmed

LEMMA SameOwn ==
  ASSUME TypeOK, Documents, Shape, UNCHANGED <<members, joined>>
  PROVE  Own' = Own
<1>1. \A q \in joined : q \in Requests /\ Row(q)' = Row(q)
  BY DEF TypeOK, Documents, Shape, Row
<1>. QED
  BY <1>1 DEF Own

LEMMA SameTold ==
  ASSUME TypeOK, Documents, Shape, UNCHANGED heard
  PROVE  Told' = Told
<1>1. \A q \in heard : q \in Requests /\ Row(q)' = Row(q)
  BY DEF TypeOK, Documents, Shape, Row
<1>. QED
  BY <1>1 DEF Told

LEMMA ListOf == TypeOK => {a \in Nodes : Listed(a)} = Own \cup Told
  BY DEF TypeOK, Jobs, Listed, Own, Told, Row, Rows

Implements == [Admitted!Next]_(Admitted!vars)

LEMMA NothingShown ==
  ASSUME TypeOK, TypeOK', Documents, Shape, Rounds, KeepsRounds, KeepsConfirmed,
         UNCHANGED <<yes, members, joined, heard>>
  PROVE  Implements
<1>1. job' \in [Requests -> Jobs]
  BY DEF TypeOK
<1>. QED
  BY <1>1, SameRounds, SameConfirmed, SameOwn, SameTold DEF Implements, Admitted!vars,
      Admitted!listVars

\* The steps that Admission sees.
LEMMA ConfirmShown ==
  ASSUME IInv, IInv', Shape, Rounds, NEW g \in Requests, VerifyEmail(g)
  PROVE  Admitted!Confirm(reg[g].addr) /\ reg[g].addr \in Nodes
<1>. USE DEF IInv, approvalVars, listVars, requestVars
<1>1. reg[g] \in Document /\ Exists(g)
  BY DEF VerifyEmail, Documents, TypeOK, Exists
<1>2. /\ \A h \in Requests \ {g} : reg'[h] = reg[h]
      /\ reg'[g].addr = reg[g].addr /\ reg'[g].verified /\ Exists(g)'
  BY <1>1 DEF VerifyEmail, TypeOK, Shape, Document
<1>3. Confirmed' = Confirmed \cup {reg[g].addr}
  BY <1>1, <1>2 DEF Confirmed, Known, Exists, Document
<1>4. KeepsRounds /\ UNCHANGED <<yes, members, joined, heard>> /\ job' \in [Requests -> Jobs]
  BY DEF VerifyEmail, KeepsRounds, TypeOK
<1>. QED
  BY <1>1, <1>3, <1>4, SameRounds, SameOwn, SameTold DEF Admitted!Confirm, Admitted!listVars,
      Document

LEMMA AskShown ==
  ASSUME IInv, IInv', Shape, Rounds, NEW q \in Requests, InitiateNodes(q)
  PROVE  Admitted!Ask(q, job[q].addr) /\ job[q].addr \in Nodes
<1>. USE DEF IInv, registrationVars, approvalVars, listVars
<1>1. /\ pc[q] = "nodes" /\ job[q] \in Jobs /\ UNCHANGED <<reg, yes, members, joined, heard>>
      /\ job' = [job EXCEPT ![q].asked = Own \cup Told]
  BY ListOf DEF InitiateNodes, TypeOK
<1>2. Asked(q) = Admitted!NotYet
  BY <1>1 DEF Rounds, Asked, Admitted!NotYet
<1>3. job[q].addr \in Confirmed /\ job[q].addr \in Nodes
  BY <1>1 DEF Knowledge, Asking, Verified, About, Confirmed, Known, Jobs
<1>4. This \in Own
  BY NodesAssumption DEF Rounds, Own
<1>5. Asked(q)' = [about |-> job[q].addr, asked |-> Own \cup Told]
  BY <1>1, <1>4 DEF Asked, TypeOK, Jobs
<1>6. \A i \in Requests \ {q} : Asked(i)' = Asked(i)
  BY <1>1 DEF Asked, TypeOK
<1>7. [i \in Requests |-> Asked(i)'] =
        [[i \in Requests |-> Asked(i)] EXCEPT ![q] = [about |-> job[q].addr, asked |-> Own \cup Told]]
  BY <1>5, <1>6
<1>8. Confirmed' = Confirmed /\ Own' = Own /\ Told' = Told
  <2>1. KeepsConfirmed
    BY <1>1 DEF KeepsConfirmed, Exists
  <2>. QED
    BY <1>1, <2>1, SameConfirmed, SameOwn, SameTold
<1>. QED
  BY <1>1, <1>2, <1>3, <1>7, <1>8 DEF Admitted!Ask, Admitted!listVars

LEMMA AnswerShown ==
  ASSUME IInv, IInv', Shape, Rounds, NEW q \in Requests, NEW p \in Approvals,
         NEW b \in BOOLEAN, Approve(q, p, b)
  PROVE  Implements
<1>. USE DEF IInv, registrationVars, listVars
<1>1. p[1] \in Requests /\ p[2] \in Nodes /\ p = <<p[1], p[2]>> /\ approval[p] # Unset
  BY DEF Approve, Documents, Approvals
<1>2. p[2] \in job[p[1]].asked
  BY <1>1 DEF Rounds
<1>3. KeepsRounds /\ KeepsConfirmed /\ UNCHANGED <<members, joined, heard>> /\ job' \in [Requests -> Jobs]
  BY BeginKeepsRounds DEF Approve, Start, KeepsConfirmed, Exists, TypeOK
<1>4. CASE b
  <2>1. yes' = yes \cup {<<p[1], p[2]>>}
    BY <1>1, <1>4 DEF Approve
  <2>2. Admitted!Agree(p[1], p[2])
    BY <1>1, <1>2, <1>3, <2>1, SameRounds, SameConfirmed, SameOwn, SameTold DEF Admitted!Agree,
        Admitted!listVars, Asked
  <2>. QED
    BY <1>1, <2>2 DEF Implements, Admitted!Next
<1>5. CASE ~b
  <2>1. yes' = yes
    BY <1>5 DEF Approve
  <2>. QED
    BY <1>3, <2>1, NothingShown
<1>. QED
  BY <1>4, <1>5

LEMMA AdmitShown ==
  ASSUME IInv, IInv', Shape, Rounds, NEW q \in Requests, AddRow(q)
  PROVE  Admitted!Admit(job[q].addr) /\ job[q].addr \in Nodes
<1>. USE DEF IInv, registrationVars, approvalVars
<1>1. /\ pc[q] = "row" /\ job[q] \in Jobs /\ job' = job
      /\ joined' = joined \cup {q} /\ UNCHANGED <<reg, yes, members, heard>>
  BY DEF AddRow, Go, TypeOK
<1>2. PICK i \in Requests : Round(i, job[q].reg) /\ About(q)
  BY <1>1 DEF Knowledge, Admitting, Agreed, Verified
<1>3. PICK p \in Approvals : p[1] = i /\ approval[p] # Unset
  BY <1>2 DEF Round, Batch
<1>4. job[i].addr = job[q].addr
  BY <1>2, <1>3 DEF Documents, Verified, About, Round
<1>5. p[2] \in job[i].asked
  <2>1. p[2] \in Nodes /\ p = <<p[1], p[2]>>
    BY DEF Approvals
  <2>. QED
    BY <1>3, <2>1 DEF Rounds
<1>6. \A b \in job[i].asked : <<i, b>> \in yes
  <2>1. ASSUME NEW b \in job[i].asked PROVE <<i, b>> \in Batch(i)
    <3>1. <<i, b>> \in Approvals /\ b \in Nodes /\ <<i, b>>[1] = i
      BY DEF TypeOK, Jobs, Approvals
    <3>. QED
      BY <1>3, <3>1 DEF Rounds, Batch
  <2>. QED
    BY <1>2, <2>1 DEF Round
<1>7. Asked(i) # Admitted!NotYet /\ Asked(i).about = job[q].addr /\ Asked(i).asked = job[i].asked
  BY <1>4, <1>5 DEF Asked, Admitted!NotYet
<1>8. \E k \in Requests : /\ [j \in Requests |-> Asked(j)][k].about = job[q].addr
                          /\ Admitted!Unanimous(k)
  BY <1>6, <1>7 DEF Admitted!Unanimous
<1>9. job[q].addr \in Nodes
  BY <1>1 DEF Jobs
<1>10. Own' = Own \cup {job[q].addr} /\ Told' = Told
  BY <1>1, <1>9 DEF Own, Told, Row
<1>11. Confirmed' = Confirmed /\ [j \in Requests |-> Asked(j)'] = [j \in Requests |-> Asked(j)]
  <2>1. KeepsConfirmed /\ KeepsRounds /\ job' \in [Requests -> Jobs]
    BY <1>1 DEF KeepsConfirmed, KeepsRounds, Exists, TypeOK
  <2>. QED
    BY <2>1, SameConfirmed, SameRounds
<1>. QED
  BY <1>1, <1>8, <1>9, <1>10, <1>11 DEF Admitted!Admit

LEMMA HearShown ==
  ASSUME IInv, IInv', Shape, Rounds, NEW q \in Requests, Note(q)
  PROVE  Admitted!Hear(job[q].addr) /\ job[q].addr \in Nodes
<1>. USE DEF IInv, registrationVars, approvalVars
<1>1. /\ job[q] \in Jobs /\ job' = job
      /\ heard' = heard \cup {q} /\ UNCHANGED <<reg, yes, members, joined>>
  BY DEF Note, Go, TypeOK
<1>2. job[q].addr \in Nodes /\ Own' = Own /\ Told' = Told \cup {job[q].addr}
  BY <1>1 DEF Jobs, Own, Told, Row
<1>3. Confirmed' = Confirmed /\ [j \in Requests |-> Asked(j)'] = [j \in Requests |-> Asked(j)]
  <2>1. KeepsConfirmed /\ KeepsRounds /\ job' \in [Requests -> Jobs]
    BY <1>1 DEF KeepsConfirmed, KeepsRounds, Exists, TypeOK
  <2>. QED
    BY <2>1, SameConfirmed, SameRounds
<1>. QED
  BY <1>1, <1>2, <1>3 DEF Admitted!Hear

LEMMA RemoveShown ==
  ASSUME IInv, IInv', Shape, Rounds, NEW a \in Nodes, Remove(a)
  PROVE  Admitted!Remove(a)
<1>. USE DEF IInv, registrationVars, approvalVars, requestVars
<1>1. /\ UNCHANGED <<reg, job, yes>> /\ a # This
      /\ members' = members \ {a} /\ joined' = {q \in joined : Row(q) # a}
      /\ heard' = {q \in heard : Row(q) # a}
  BY DEF Remove
<1>2. Own' = Own \ {a} /\ Told' = Told \ {a}
  BY <1>1 DEF Own, Told, Row
<1>3. KeepsConfirmed /\ KeepsRounds /\ job' \in [Requests -> Jobs]
  BY <1>1 DEF KeepsConfirmed, KeepsRounds, Exists, TypeOK
<1>. QED
  BY <1>1, <1>2, <1>3, SameConfirmed, SameRounds DEF Admitted!Remove

LEMMA StatusKeepsConfirmed ==
  ASSUME TypeOK, NEW g \in Requests, NEW s \in RegistrationStatus, WithStatus(g, s), Exists(g)
  PROVE  KeepsConfirmed
  BY WithStatusFacts DEF KeepsConfirmed

LEMMA RequestShown ==
  ASSUME IInv, IInv', Shape, Rounds, NEW q \in Requests, Step(q)
  PROVE  Implements
<1>. USE DEF IInv, registrationVars, approvalVars, listVars
<1>1. CASE InitiateNodes(q)
  BY <1>1, AskShown DEF Implements, Admitted!Next
<1>2. CASE AddRow(q)
  BY <1>2, AdmitShown DEF Implements, Admitted!Next
<1>3. CASE Note(q)
  BY <1>3, HearShown DEF Implements, Admitted!Next
<1>4. CASE ~InitiateNodes(q) /\ ~AddRow(q) /\ ~Note(q)
  <2>1. KeepsRounds /\ UNCHANGED <<yes, members, joined, heard>>
    BY <1>4 DEF Step, RegisterCancel, RegisterInsert, InitiatePend, InitiateAsk, ApproveTally,
                ApproveReject, ApproveAccept, Join, Add, Go, KeepsRounds
  <2>2. job[q].reg \in Requests
    BY DEF TypeOK, Jobs
  <2>3. CASE RegisterCancel(q)
    <3>1. \A h \in Requests : Exists(h) => reg[h] \in Document
      BY DEF TypeOK, Exists
    <3>2. KeepsConfirmed
      BY <2>3, <3>1 DEF RegisterCancel, Known, TypeOK, Exists, Document, Absent, KeepsConfirmed
    <3>. QED
      BY <2>1, <3>2, NothingShown
  <2>4. CASE RegisterInsert(q)
    <3>1. ~Exists(q) /\ reg'[q].verified = FALSE /\ \A h \in Requests \ {q} : reg'[h] = reg[h]
      BY <2>4 DEF RegisterInsert, Documents, TypeOK
    <3>2. KeepsConfirmed
      BY <3>1 DEF KeepsConfirmed, Exists
    <3>. QED
      BY <2>1, <3>2, NothingShown
  <2>5. CASE InitiatePend(q) \/ ApproveReject(q) \/ ApproveAccept(q)
    <3>1. Exists(job[q].reg)
      BY <2>5 DEF InitiatePend, ApproveReject, ApproveAccept, Knowledge, Asking, Counting,
                  Admitting, Agreed, Verified, About
    <3>2. \E s \in RegistrationStatus : WithStatus(job[q].reg, s)
      BY <2>5 DEF InitiatePend, ApproveReject, ApproveAccept, RegistrationStatus
    <3>3. KeepsConfirmed
      BY <2>2, <3>1, <3>2, StatusKeepsConfirmed
    <3>. QED
      BY <2>1, <3>3, NothingShown
  <2>6. CASE InitiateAsk(q) \/ ApproveTally(q) \/ Join(q) \/ Add(q)
    <3>1. KeepsConfirmed
      BY <2>6 DEF InitiateAsk, ApproveTally, Join, Add, KeepsConfirmed, Exists
    <3>. QED
      BY <2>1, <3>1, NothingShown
  <2>. QED
    BY <1>4, <2>3, <2>4, <2>5, <2>6 DEF Step
<1>. QED
  BY <1>1, <1>2, <1>3, <1>4

LEMMA AdmissionNext == IInv /\ IInv' /\ Shape /\ Rounds /\ [Next]_vars => Implements
<1>. SUFFICES ASSUME IInv, IInv', Shape, Rounds, [Next]_vars PROVE Implements
  OBVIOUS
<1>. USE DEF IInv, registrationVars, approvalVars, listVars, requestVars
<1>1. ASSUME NEW q \in Requests, NEW a \in Nodes, Register(q, a) PROVE Implements
  BY <1>1, BeginKeepsRounds, NothingShown DEF Register, Start, KeepsConfirmed, Exists
<1>2. ASSUME NEW q \in Requests, NEW g \in Requests, Initiate(q, g) PROVE Implements
  BY <1>2, BeginKeepsRounds, NothingShown DEF Initiate, Start, KeepsConfirmed, Exists
<1>3. ASSUME NEW q \in Requests, NEW p \in Approvals, NEW b \in BOOLEAN, Approve(q, p, b)
      PROVE  Implements
  BY <1>3, AnswerShown
<1>4. ASSUME NEW g \in Requests, VerifyEmail(g) PROVE Implements
  BY <1>4, ConfirmShown DEF Implements, Admitted!Next
<1>5. ASSUME NEW a \in Nodes, Remove(a) PROVE Implements
  BY <1>5, RemoveShown DEF Implements, Admitted!Next
<1>6. CASE Crash \/ UNCHANGED vars
  BY <1>6, NothingShown DEF Crash, vars, KeepsConfirmed, KeepsRounds, Exists
<1>7. ASSUME NEW q \in Requests, Step(q) PROVE Implements
  BY <1>7, RequestShown
<1>8. ASSUME NEW q \in Requests, NEW a \in Nodes, Hear(q, a) PROVE Implements
  BY <1>8, BeginKeepsRounds, NothingShown DEF Hear, KeepsConfirmed, Exists
<1>. QED
  BY <1>1, <1>2, <1>3, <1>4, <1>5, <1>6, <1>7, <1>8 DEF Next

\* Registration implements Admission: whatever overlaps, is repeated or cut
\* short, and whatever other nodes tell meanwhile, the node admits others on its
\* own account only by rounds in which everybody who was on the list when the
\* round began, admitted or heard of, has said yes.
THEOREM AdmissionImplemented == Spec => ImplementsAdmission
<1>1. Init => Rounds
  BY NodesAssumption DEF Init, Rounds
<1>2. Init => Admitted!Init
  <2>1. ASSUME Init PROVE Admitted!Init
    <3>1. Confirmed = {} /\ This \in Own /\ yes = {} /\ Told = {}
      BY <2>1, NodesAssumption DEF Init, Confirmed, Known, Exists, Own, Told
    <3>2. \A i \in Requests : Asked(i) = Admitted!NotYet
      BY <2>1 DEF Init, Asked, Admitted!NotYet
    <3>3. Own \subseteq Nodes
      BY DEF Own
    <3>. QED
      BY <3>1, <3>2, <3>3 DEF Admitted!Init
  <2>. QED
    BY <2>1
<1>3. IInv /\ Rounds /\ [Next]_vars => Rounds'
  BY RoundsStep
<1>4. IInv /\ IInv' /\ Rounds /\ [Next]_vars => [Admitted!Next]_(Admitted!vars)
  BY AdmissionNext, ShapeStep DEF IInv, Implements
<1>. QED
  BY <1>1, <1>2, <1>3, <1>4, Invariant, PTL DEF Spec, ImplementsAdmission, Admitted!Spec
=============================================================================
