----------------------- MODULE HoldingsSettledProofs -----------------------
(***************************************************************************)
(* Submissions and statuses settle, and a customer is told the truth,      *)
(* whatever has gone wrong before.  The invariant has three layers, each   *)
(* resting on the one before: the submissions (SubmissionInv), the status  *)
(* documents (StatusInv), and the verifications (CalmInv).                 *)
(***************************************************************************)
EXTENDS HoldingsProofs

----------------------------------------------------------------------------
(* The inductive invariant.                                                *)

\* Two submissions of one exchange at once know of each other.
SubmitsAlone ==
    \A q, r \in Requests :
        /\ q # r /\ job[q].exch = job[r].exch
        /\ pc[q] \in Submitting /\ pc[r] \in Submitting
        => r \in met

\* What a submission that is alone has done so far.
AloneClears ==
    \A r \in Requests \ met :
        /\ pc[r] \in {"clearHoldings", "insertSubmission"} => Of(job[r].exch, current) = {}
        /\ pc[r] \in {"insertSubmission", "insertHoldings"} => Of(job[r].exch, live) = {}
        /\ pc[r] = "insertHoldings" => Of(job[r].exch, current) = {r}

SubmissionInv == SubmitsAlone /\ AloneClears /\ SubmissionsSettle

\* Two calls of updateStatus for one exchange at once know of each other.
UpdatesAlone ==
    \A q, r \in Requests :
        /\ q # r /\ job[q].exch = job[r].exch
        /\ pc[q] \in Updating /\ pc[r] \in Updating
        => r \in met

\* No change of e is under way that another updateStatus is to follow.
Still(e) == At(e, Submitting \cup {"readFunds"}) = {}

\* What an updateStatus that is alone has read is still so.
AloneReads ==
    \A r \in Requests \ met : Still(job[r].exch) =>
        /\ pc[r] \in Updating => seenFunds[r] = funding[job[r].exch]
        /\ pc[r] = "record" => seenHoldings[r] \in Totals(job[r].exch)

StatusInv == UpdatesAlone /\ AloneReads /\ StatusSettles

CalmIsSettled == \A p \in calm : p[2] \notin mixed \cup stale /\ Quiet(p[2])

\* What a verification has found and verified is still so where it is calm.
CalmChecks ==
    \A r \in Requests : \A id \in toCheck[r] \cup verified[r] :
        /\ pc[id] # "ready"
        /\ <<r, job[id].exch>> \in calm =>
             /\ id \in live
             /\ id \in verified[r] => doc[job[id].exch].status = "ok"

NothingVerified == \A r \in Requests : pc[r] = "ready" => verified[r] = {}

CalmInv == CalmIsSettled /\ CalmChecks /\ NothingVerified

LEMMA SettledInit == Init => SubmissionInv /\ StatusInv /\ CalmInv
<1>. SUFFICES ASSUME Init PROVE SubmissionInv /\ StatusInv /\ CalmInv
  OBVIOUS
<1>1. SubmissionInv
  BY DEF Init, SubmissionInv, SubmitsAlone, AloneClears, SubmissionsSettle, Submitting, Of
<1>2. StatusInv
  BY DEF Init, StatusInv, UpdatesAlone, AloneReads, StatusSettles, Updating
<1>3. CalmInv
  BY DEF Init, CalmInv, CalmIsSettled, CalmChecks, NothingVerified
<1>. QED
  BY <1>1, <1>2, <1>3

----------------------------------------------------------------------------
(* The submissions.                                                        *)

\* A request keeps its exchange once it has begun.
JobsKept == \A q \in Requests : pc[q] # "ready" => job'[q] = job[q] /\ pc'[q] # "ready"

\* The step is none of a submission and changes none.
SubmissionsIdle ==
    /\ JobsKept
    /\ \A q \in Requests : pc[q] \in Submitting \/ pc'[q] \in Submitting =>
         pc'[q] = pc[q] /\ (q \in met => q \in met')

LEMMA SubmissionFrame ==
  ASSUME TypeOK, SubmissionInv, SubmissionsIdle, UNCHANGED submissionVars, mixed \subseteq mixed'
  PROVE  SubmissionInv'
<1>. USE DEF SubmissionInv, SubmissionsIdle, JobsKept, Submitting
<1>1. \A e : Of(e, current)' = Of(e, current) /\ Of(e, live)' = Of(e, live)
  BY DEF TypeOK, Of, submissionVars
<1>2. SubmitsAlone'
  BY DEF SubmitsAlone
<1>3. AloneClears'
  BY <1>1 DEF AloneClears
<1>4. \A e : At(e, Submitting)' = {} => At(e, Submitting) = {}
  BY DEF At
<1>5. SubmissionsSettle'
  BY <1>1, <1>4 DEF SubmissionsSettle
<1>. QED
  BY <1>2, <1>3, <1>5

LEMMA SubmitSettles ==
  ASSUME TypeOK, SubmissionInv, NEW r \in Requests, Submit(r)
  PROVE  SubmissionInv'
<1>. USE DEF Submitting
<1>1. PICK e \in Exchanges, b \in Bodies :
        /\ job' = [job EXCEPT ![r] = [exch |-> e, body |-> b]]
        /\ current' = current \ Of(e, current)
        /\ Meet(r, e, Submitting)
  BY DEF Submit
<1>2. /\ pc[r] = "ready" /\ pc'[r] = "clearHoldings"
      /\ \A q \in Requests \ {r} : pc'[q] = pc[q]
      /\ live' = live /\ mixed' = mixed
  BY DEF Submit, Receives, Goto, TypeOK
<1>3. job'[r].exch = e /\ \A q \in Requests \ {r} : job'[q] = job[q]
  BY <1>1 DEF TypeOK
<1>4. r \notin current /\ r \notin live
  BY <1>2 DEF TypeOK
<1>5. /\ Of(e, current)' = {}
      /\ \A x : x # e => Of(x, current)' = Of(x, current)
      /\ \A x : Of(x, live)' = Of(x, live)
  BY <1>1, <1>2, <1>3, <1>4 DEF Of, TypeOK
<1>6. \A q \in Requests : q # r /\ job[q].exch = e /\ pc[q] \in Submitting =>
        q \in met' /\ r \in met'
  BY <1>1 DEF Meet, At
<1>7. met \subseteq met'
  BY <1>1 DEF Meet
<1>8. SubmitsAlone'
  BY <1>2, <1>3, <1>6, <1>7 DEF SubmissionInv, SubmitsAlone
<1>9. AloneClears'
  BY <1>2, <1>3, <1>5, <1>6, <1>7 DEF SubmissionInv, AloneClears
<1>10. SubmissionsSettle'
  <2>1. r \in At(e, Submitting)'
    BY <1>2, <1>3 DEF At
  <2>2. \A x \in Exchanges : x # e => At(x, Submitting)' = At(x, Submitting)
    BY <1>2, <1>3 DEF At
  <2>. QED
    BY <1>2, <1>5, <2>1, <2>2 DEF SubmissionInv, SubmissionsSettle
<1>. QED
  BY <1>8, <1>9, <1>10 DEF SubmissionInv

LEMMA ClearHoldingsSettles ==
  ASSUME TypeOK, SubmissionInv, NEW r \in Requests, ClearHoldings(r)
  PROVE  SubmissionInv'
<1>. USE DEF Submitting
<1>1. /\ pc[r] = "clearHoldings" /\ pc'[r] = "insertSubmission"
      /\ \A q \in Requests \ {r} : pc'[q] = pc[q]
      /\ live' = live \ Of(job[r].exch, live)
      /\ UNCHANGED <<current, job, met, mixed>>
  BY DEF ClearHoldings, Goto, TypeOK, historyVars
<1>2. /\ Of(job[r].exch, live)' = {}
      /\ \A x : x # job[r].exch => Of(x, live)' = Of(x, live)
      /\ \A x : Of(x, current)' = Of(x, current)
  BY <1>1 DEF Of
<1>3. SubmitsAlone'
  BY <1>1 DEF SubmissionInv, SubmitsAlone
<1>4. AloneClears'
  BY <1>1, <1>2 DEF SubmissionInv, AloneClears
<1>5. SubmissionsSettle'
  <2>1. r \in At(job[r].exch, Submitting)'
    BY <1>1 DEF At
  <2>2. \A x \in Exchanges : x # job[r].exch => At(x, Submitting)' = At(x, Submitting)
    BY <1>1 DEF At
  <2>. QED
    BY <1>1, <1>2, <2>1, <2>2 DEF SubmissionInv, SubmissionsSettle
<1>. QED
  BY <1>3, <1>4, <1>5 DEF SubmissionInv

LEMMA InsertSubmissionSettles ==
  ASSUME TypeOK, SubmissionInv, NEW r \in Requests, InsertSubmission(r)
  PROVE  SubmissionInv'
<1>. USE DEF Submitting
<1>1. /\ pc[r] = "insertSubmission" /\ pc'[r] = "insertHoldings"
      /\ \A q \in Requests \ {r} : pc'[q] = pc[q]
      /\ current' = current \cup {r}
      /\ UNCHANGED <<live, job, met, mixed>>
  BY DEF InsertSubmission, Goto, TypeOK, historyVars
<1>2. /\ Of(job[r].exch, current)' = Of(job[r].exch, current) \cup {r}
      /\ \A x : x # job[r].exch => Of(x, current)' = Of(x, current)
      /\ \A x : Of(x, live)' = Of(x, live)
  BY <1>1 DEF Of
<1>3. SubmitsAlone'
  BY <1>1 DEF SubmissionInv, SubmitsAlone
<1>4. AloneClears'
  <2>. SUFFICES ASSUME NEW q \in Requests \ met
                PROVE  /\ pc'[q] \in {"clearHoldings", "insertSubmission"} =>
                              Of(job[q].exch, current)' = {}
                       /\ pc'[q] \in {"insertSubmission", "insertHoldings"} =>
                              Of(job[q].exch, live)' = {}
                       /\ pc'[q] = "insertHoldings" => Of(job[q].exch, current)' = {q}
    BY <1>1 DEF AloneClears, Of
  <2>1. CASE q = r
    BY <1>1, <1>2, <2>1 DEF SubmissionInv, AloneClears
  <2>2. CASE q # r /\ job[q].exch = job[r].exch
    BY <1>1, <2>2 DEF SubmissionInv, SubmitsAlone
  <2>3. CASE q # r /\ job[q].exch # job[r].exch
    BY <1>1, <1>2, <2>3 DEF SubmissionInv, AloneClears
  <2>. QED
    BY <2>1, <2>2, <2>3
<1>5. SubmissionsSettle'
  <2>1. r \in At(job[r].exch, Submitting)'
    BY <1>1 DEF At
  <2>2. \A x \in Exchanges : x # job[r].exch => At(x, Submitting)' = At(x, Submitting)
    BY <1>1 DEF At
  <2>. QED
    BY <1>1, <1>2, <2>1, <2>2 DEF SubmissionInv, SubmissionsSettle
<1>. QED
  BY <1>3, <1>4, <1>5 DEF SubmissionInv

LEMMA InsertHoldingsSettles ==
  ASSUME TypeOK, SubmissionInv, NEW r \in Requests, InsertHoldings(r)
  PROVE  SubmissionInv'
<1>. USE DEF Submitting
<1>. DEFINE e == job[r].exch
<1>1. /\ pc[r] = "insertHoldings" /\ pc'[r] = "readFunds"
      /\ \A q \in Requests \ {r} : pc'[q] = pc[q]
      /\ live' = live \cup {r}
      /\ mixed' = IF r \in met THEN mixed \cup {e} ELSE mixed \ {e}
      /\ met' = met \ {r}
      /\ UNCHANGED <<current, job>>
  BY DEF InsertHoldings, Goto, TypeOK
<1>2. /\ Of(e, live)' = Of(e, live) \cup {r}
      /\ \A x : x # e => Of(x, live)' = Of(x, live)
      /\ \A x : Of(x, current)' = Of(x, current)
  BY <1>1 DEF Of
<1>3. SubmitsAlone'
  BY <1>1 DEF SubmissionInv, SubmitsAlone
<1>4. AloneClears'
  <2>. SUFFICES ASSUME NEW q \in Requests \ met'
                PROVE  /\ pc'[q] \in {"clearHoldings", "insertSubmission"} =>
                              Of(job[q].exch, current)' = {}
                       /\ pc'[q] \in {"insertSubmission", "insertHoldings"} =>
                              Of(job[q].exch, live)' = {}
                       /\ pc'[q] = "insertHoldings" => Of(job[q].exch, current)' = {q}
    BY <1>1 DEF AloneClears, Of
  <2>1. CASE q = r
    BY <1>1, <2>1
  <2>2. CASE q # r /\ job[q].exch = e
    BY <1>1, <2>2 DEF SubmissionInv, SubmitsAlone
  <2>3. CASE q # r /\ job[q].exch # e
    BY <1>1, <1>2, <2>3 DEF SubmissionInv, AloneClears
  <2>. QED
    BY <2>1, <2>2, <2>3
<1>5. SubmissionsSettle'
  <2>1. ASSUME NEW x \in Exchanges, x # e, x \notin mixed', At(x, Submitting)' = {}
        PROVE  /\ Of(x, current)' = Of(x, live)'
               /\ \A i, j \in Of(x, current)' : i = j
    <3>1. At(x, Submitting) = {} /\ x \notin mixed
      BY <1>1, <2>1 DEF At
    <3>. QED
      BY <1>2, <2>1, <3>1 DEF SubmissionInv, SubmissionsSettle
  <2>2. ASSUME e \notin mixed'
        PROVE  /\ Of(e, current)' = Of(e, live)'
               /\ \A i, j \in Of(e, current)' : i = j
    <3>1. r \notin met
      BY <1>1, <2>2
    <3>2. Of(e, current) = {r} /\ Of(e, live) = {}
      BY <1>1, <3>1 DEF SubmissionInv, AloneClears
    <3>. QED
      BY <1>1, <1>2, <3>2
  <2>. QED
    BY <1>1, <2>1, <2>2 DEF SubmissionsSettle
<1>. QED
  BY <1>3, <1>4, <1>5 DEF SubmissionInv

LEMMA CancelSettles ==
  ASSUME TypeOK, SubmissionInv, NEW r \in Requests, Cancel(r)
  PROVE  SubmissionInv'
<1>. USE DEF Submitting
<1>1. PICK id \in current :
        /\ current' = current \ {id}
        /\ met' = met \cup At(job[id].exch, Submitting \cup Updating)
        /\ mixed' = mixed \cup {job[id].exch}
  BY DEF Cancel
<1>. DEFINE e == job[id].exch
<1>2. /\ \A q \in Requests : pc[q] \in Submitting \/ pc'[q] \in Submitting => pc'[q] = pc[q]
      /\ UNCHANGED <<live, job>>
  BY DEF Cancel, Receives, Goto, TypeOK
<1>3. /\ \A x : x # e => Of(x, current)' = Of(x, current)
      /\ \A x : Of(x, live)' = Of(x, live)
  BY <1>1, <1>2 DEF Of
<1>4. SubmitsAlone'
  BY <1>1, <1>2 DEF SubmissionInv, SubmitsAlone
<1>5. AloneClears'
  <2>. SUFFICES ASSUME NEW q \in Requests \ met'
                PROVE  /\ pc'[q] \in {"clearHoldings", "insertSubmission"} =>
                              Of(job[q].exch, current)' = {}
                       /\ pc'[q] \in {"insertSubmission", "insertHoldings"} =>
                              Of(job[q].exch, live)' = {}
                       /\ pc'[q] = "insertHoldings" => Of(job[q].exch, current)' = {q}
    BY <1>2 DEF AloneClears, Of
  <2>1. CASE pc[q] \in Submitting /\ job[q].exch = e
    BY <1>1, <2>1 DEF At
  <2>2. CASE pc[q] \in Submitting /\ job[q].exch # e
    BY <1>1, <1>2, <1>3, <2>2 DEF SubmissionInv, AloneClears
  <2>3. CASE pc[q] \notin Submitting
    BY <1>2, <2>3
  <2>. QED
    BY <2>1, <2>2, <2>3
<1>6. \A x : At(x, Submitting)' = {} => At(x, Submitting) = {}
  BY <1>2 DEF At
<1>7. SubmissionsSettle'
  <2>1. \A x \in Exchanges \ mixed' : x # e /\ x \notin mixed
    BY <1>1
  <2>. QED
    BY <1>3, <1>6, <2>1 DEF SubmissionInv, SubmissionsSettle
<1>. QED
  BY <1>4, <1>5, <1>7 DEF SubmissionInv

LEMMA RestartSettles ==
  ASSUME TypeOK, SubmissionInv, Restart
  PROVE  SubmissionInv'
<1>. USE DEF Submitting
<1>1. /\ \A q \in Requests : pc'[q] \in {"ready", "done"}
      /\ mixed' = mixed \cup {e \in Exchanges : At(e, Submitting) # {}}
      /\ UNCHANGED <<current, live, job>>
  BY DEF Restart, submissionVars
<1>2. \A x : Of(x, current)' = Of(x, current) /\ Of(x, live)' = Of(x, live)
  BY <1>1 DEF Of
<1>3. SubmitsAlone' /\ AloneClears'
  BY <1>1 DEF SubmitsAlone, AloneClears
<1>4. SubmissionsSettle'
  <2>1. \A x \in Exchanges \ mixed' : x \notin mixed /\ At(x, Submitting) = {}
    BY <1>1
  <2>. QED
    BY <1>2, <2>1 DEF SubmissionInv, SubmissionsSettle
<1>. QED
  BY <1>3, <1>4 DEF SubmissionInv

LEMMA StatusStepIdles ==
  ASSUME TypeOK, NEW r \in Requests, StatusStep(r)
  PROVE  SubmissionsIdle /\ UNCHANGED submissionVars /\ mixed \subseteq mixed'
<1>. USE DEF SubmissionsIdle, JobsKept, Submitting, Updating, Goto, TypeOK
<1>1. CASE ChangeFunding(r)
  BY <1>1 DEF ChangeFunding, Receives
<1>2. CASE QueueFunding(r)
  BY <1>2 DEF QueueFunding, Receives
<1>3. CASE ReadFunds(r)
  BY <1>3 DEF ReadFunds, Meet
<1>4. CASE ReadHoldings(r)
  BY <1>4 DEF ReadHoldings, historyVars
<1>5. CASE Record(r)
  BY <1>5 DEF Record
<1>. QED
  BY <1>1, <1>2, <1>3, <1>4, <1>5 DEF StatusStep

\* The step is one of a verification, or none.
StatusesIdle ==
    /\ UNCHANGED <<submissionVars, funding, updateVars, job, met, mixed, stale>>
    /\ \A q \in Requests : pc[q] # "ready" => pc'[q] # "ready"
    /\ \A q \in Requests :
         pc[q] \in Submitting \cup Updating \cup {"readFunds"}
           \/ pc'[q] \in Submitting \cup Updating \cup {"readFunds"}
         => pc'[q] = pc[q]

LEMMA VerificationStepIdles ==
  ASSUME TypeOK, NEW r \in Requests, VerificationStep(r)
  PROVE  StatusesIdle
<1>. USE DEF StatusesIdle, Submitting, Updating, Goto, TypeOK
<1>1. CASE LookUp(r)
  BY <1>1 DEF LookUp, Receives
<1>2. CASE Check(r)
  BY <1>2 DEF Check, historyVars
<1>3. CASE Save(r)
  BY <1>3 DEF Save, historyVars
<1>4. CASE Mail(r)
  BY <1>4 DEF Mail, historyVars
<1>5. CASE Confirm(r)
  BY <1>5 DEF Confirm, historyVars
<1>. QED
  BY <1>1, <1>2, <1>3, <1>4, <1>5 DEF VerificationStep

LEMMA IdleSubmissions ==
  ASSUME TypeOK, SubmissionInv, StatusesIdle
  PROVE  SubmissionInv'
<1>1. SubmissionsIdle
  BY DEF StatusesIdle, SubmissionsIdle, JobsKept
<1>. QED
  BY <1>1, SubmissionFrame DEF StatusesIdle

LEMMA SubmissionNext == TypeOK /\ SubmissionInv /\ [Next]_vars => SubmissionInv'
<1>. SUFFICES ASSUME TypeOK, SubmissionInv, [Next]_vars PROVE SubmissionInv'
  OBVIOUS
<1>1. ASSUME NEW r \in Requests, SubmissionStep(r) PROVE SubmissionInv'
  BY <1>1, SubmitSettles, ClearHoldingsSettles, InsertSubmissionSettles,
     InsertHoldingsSettles, CancelSettles DEF SubmissionStep
<1>2. ASSUME NEW r \in Requests, StatusStep(r) PROVE SubmissionInv'
  BY <1>2, StatusStepIdles, SubmissionFrame
<1>3. ASSUME NEW r \in Requests, VerificationStep(r) PROVE SubmissionInv'
  BY <1>3, VerificationStepIdles, IdleSubmissions
<1>4. CASE UNCHANGED vars
  <2>1. StatusesIdle
    BY <1>4 DEF vars, StatusesIdle, historyVars
  <2>. QED
    BY <2>1, IdleSubmissions
<1>. QED
  BY <1>1, <1>2, <1>3, <1>4, RestartSettles DEF Next, AllDone

\* A submission that runs with no other of its exchange and no cancellation
\* leaves exactly itself current, whatever was there before.
THEOREM SubmissionsSettled == Spec => []SubmissionsSettle
<1>1. Init => TypeOK /\ SubmissionInv
  BY TypeInit, SettledInit
<1>2. (TypeOK /\ SubmissionInv) /\ [Next]_vars => (TypeOK /\ SubmissionInv)'
  BY TypeStep, SubmissionNext
<1>3. TypeOK /\ SubmissionInv => SubmissionsSettle
  BY DEF SubmissionInv
<1>. QED
  BY <1>1, <1>2, <1>3, PTL DEF Spec

----------------------------------------------------------------------------
(* The status documents.                                                   *)

\* The step reads and changes nothing updateStatus is about; it may go from one
\* label of those before readHoldings to another.
DocumentsIdle ==
    /\ UNCHANGED <<current, funding, updateVars, job, stale>>
    /\ \A q \in Requests :
         /\ pc[q] \in Updating \/ pc'[q] \in Updating =>
              pc'[q] = pc[q] /\ (q \in met <=> q \in met')
         /\ pc'[q] \in Submitting \cup {"readFunds"}
              <=> pc[q] \in Submitting \cup {"readFunds"}

LEMMA StatusFrame ==
  ASSUME TypeOK, StatusInv, DocumentsIdle
  PROVE  StatusInv'
<1>. USE DEF DocumentsIdle, StatusInv, Updating
<1>1. UpdatesAlone'
  BY DEF UpdatesAlone
<1>2. \A e : Still(e)' = Still(e)
  BY DEF Still, At
<1>3. \A e : Quiet(e)' = Quiet(e)
  BY DEF Quiet, At
<1>4. \A e : Totals(e)' = Totals(e)
  BY DEF Totals, Of
<1>5. AloneReads'
  BY <1>2, <1>4 DEF AloneReads, updateVars
<1>6. StatusSettles'
  BY <1>3, <1>4 DEF StatusSettles, updateVars
<1>. QED
  BY <1>1, <1>5, <1>6

\* The exchange x sees nothing of the step.
Untouched(x) ==
    /\ Totals(x)' = Totals(x) /\ funding'[x] = funding[x] /\ doc'[x] = doc[x]
    /\ x \in stale <=> x \in stale'
    /\ At(x, Submitting \cup {"readFunds"})' = At(x, Submitting \cup {"readFunds"})
    /\ \A q \in Requests :
         /\ job'[q].exch = x /\ pc'[q] \in Updating =>
              /\ pc[q] = pc'[q] /\ job'[q] = job[q]
              /\ seenFunds'[q] = seenFunds[q] /\ seenHoldings'[q] = seenHoldings[q]
              /\ q \in met <=> q \in met'
         /\ job[q].exch = x /\ pc[q] \in Updating => pc'[q] = pc[q] /\ job'[q] = job[q]

\* It is enough to look at one exchange when the step touches no other.
LEMMA OthersSettled ==
  ASSUME TypeOK, StatusInv, NEW e, \A x \in Exchanges : x # e => Untouched(x),
         job' \in [Requests -> Job],
         \A q, r \in Requests : /\ q # r /\ job'[q].exch = e /\ job'[r].exch = e
                               /\ pc'[q] \in Updating /\ pc'[r] \in Updating
                               => r \in met',
         \A r \in Requests \ met' : job'[r].exch = e /\ Still(e)' =>
             /\ pc'[r] \in Updating => seenFunds'[r] = funding'[e]
             /\ pc'[r] = "record" => seenHoldings'[r] \in Totals(e)',
         e \notin stale' /\ Quiet(e)' =>
             \E h \in Totals(e)' : doc'[e] = Entry(funding'[e], h)
  PROVE  StatusInv'
<1>. USE DEF StatusInv, Updating
<1>1. \A q \in Requests : job'[q].exch \in Exchanges
  BY DEF Job
<1>2. UpdatesAlone'
  BY <1>1 DEF UpdatesAlone, Untouched
<1>3. \A x \in Exchanges : x # e => Still(x)' = Still(x)
  BY DEF Still, Untouched
<1>4. AloneReads'
  <2>. SUFFICES ASSUME NEW q \in Requests \ met', Still(job[q].exch)'
                PROVE  /\ pc'[q] \in Updating => seenFunds'[q] = funding'[job'[q].exch]
                       /\ pc'[q] = "record" => seenHoldings'[q] \in Totals(job[q].exch)'
    BY DEF AloneReads
  <2>1. CASE job'[q].exch = e
    BY <2>1
  <2>2. CASE job'[q].exch # e
    BY <1>1, <1>3, <2>2 DEF AloneReads, Untouched
  <2>. QED
    BY <2>1, <2>2
<1>5. \A x \in Exchanges : x # e /\ Quiet(x)' => Quiet(x)
  BY DEF Quiet, At, Untouched
<1>6. StatusSettles'
  <2>. SUFFICES ASSUME NEW x \in Exchanges, x \notin stale', Quiet(x)'
                PROVE  \E h \in Totals(x)' : doc'[x] = Entry(funding'[x], h)
    BY DEF StatusSettles, Entry, Status
  <2>1. CASE x = e
    BY <2>1
  <2>2. CASE x # e
    BY <1>5, <2>2 DEF StatusSettles, Untouched
  <2>. QED
    BY <2>1, <2>2
<1>. QED
  BY <1>2, <1>4, <1>6

LEMMA TouchesOnly ==
  ASSUME TypeOK, NEW r \in Requests, NEW e,
         \A q \in Requests \ {r} :
            /\ pc'[q] = pc[q] /\ job'[q] = job[q]
            /\ seenFunds'[q] = seenFunds[q] /\ seenHoldings'[q] = seenHoldings[q]
            /\ job[q].exch # e => (q \in met <=> q \in met'),
         pc[r] = "ready" \/ job[r].exch = e,
         pc'[r] = "done" \/ job'[r].exch = e,
         \A id \in current \cup current' :
            /\ job'[id] = job[id]
            /\ job[id].exch # e => (id \in current <=> id \in current'),
         \A x \in Exchanges : x # e =>
            funding'[x] = funding[x] /\ doc'[x] = doc[x] /\ (x \in stale <=> x \in stale'),
         NEW x \in Exchanges, x # e
  PROVE  Untouched(x)
<1>. USE DEF Submitting, Updating
<1>1. Of(x, current)' = Of(x, current)
  BY DEF Of
<1>2. Totals(x)' = Totals(x)
  <2>1. \A id \in Of(x, current) : job'[id].body.total = job[id].body.total
    BY DEF Of
  <2>2. {job'[id].body.total : id \in Of(x, current)} = {job[id].body.total : id \in Of(x, current)}
    BY <2>1
  <2>. QED
    BY <1>1, <2>2 DEF Totals
<1>3. At(x, Submitting \cup {"readFunds"})' = At(x, Submitting \cup {"readFunds"})
  BY DEF At
<1>. QED
  BY <1>2, <1>3 DEF Untouched

LEMMA SubmitDocuments ==
  ASSUME TypeOK, TypeOK', StatusInv, NEW r \in Requests, Submit(r)
  PROVE  StatusInv'
<1>. USE DEF Submitting, Updating
<1>1. PICK e \in Exchanges, b \in Bodies :
        /\ job' = [job EXCEPT ![r] = [exch |-> e, body |-> b]]
        /\ current' = current \ Of(e, current)
        /\ Meet(r, e, Submitting)
  BY DEF Submit
<1>2. /\ pc[r] = "ready" /\ pc'[r] = "clearHoldings" /\ r \notin current
      /\ \A q \in Requests \ {r} : pc'[q] = pc[q]
      /\ UNCHANGED <<funding, doc, seenFunds, seenHoldings, stale>>
  BY DEF Submit, Receives, Goto, TypeOK, updateVars
<1>3. job'[r].exch = e /\ \A q \in Requests \ {r} : job'[q] = job[q]
  BY <1>1 DEF TypeOK
<1>4. /\ \A q \in Requests \ {r} : job[q].exch # e => (q \in met <=> q \in met')
      /\ met \subseteq met'
  BY <1>1 DEF Meet, At
<1>5. \A id \in current \cup current' :
        /\ job'[id] = job[id]
        /\ job[id].exch # e => (id \in current <=> id \in current')
  BY <1>1, <1>2, <1>3 DEF TypeOK, Of
<1>6. \A x \in Exchanges : x # e => Untouched(x)
  BY <1>2, <1>3, <1>4, <1>5, TouchesOnly
<1>7. r \in At(e, Submitting)'
  BY <1>2, <1>3 DEF At
<1>8. ~Still(e)' /\ ~Quiet(e)'
  BY <1>7 DEF Still, Quiet, At
<1>9. \A p, q \in Requests : /\ p # q /\ job'[p].exch = e /\ job'[q].exch = e
                             /\ pc'[p] \in Updating /\ pc'[q] \in Updating
                             => q \in met'
  BY <1>2, <1>3, <1>4 DEF StatusInv, UpdatesAlone
<1>11. job' \in [Requests -> Job]
  BY DEF TypeOK
<1>. QED
  BY <1>11, <1>6, <1>8, <1>9, OthersSettled

LEMMA InsertSubmissionDocuments ==
  ASSUME TypeOK, TypeOK', StatusInv, NEW r \in Requests, InsertSubmission(r)
  PROVE  StatusInv'
<1>. USE DEF Submitting, Updating
<1>0. PICK e : e = job[r].exch
  OBVIOUS
<1>1. /\ pc[r] = "insertSubmission" /\ pc'[r] = "insertHoldings"
      /\ \A q \in Requests \ {r} : pc'[q] = pc[q]
      /\ current' = current \cup {r}
      /\ UNCHANGED <<funding, doc, seenFunds, seenHoldings, job, met, stale>>
  BY <1>0 DEF InsertSubmission, Goto, TypeOK, updateVars, historyVars
<1>2. \A x \in Exchanges : x # e => Untouched(x)
  BY <1>0, <1>1, TouchesOnly
<1>3. r \in At(e, Submitting)'
  BY <1>0, <1>1 DEF At
<1>4. ~Still(e)' /\ ~Quiet(e)'
  BY <1>0, <1>1, <1>3 DEF Still, Quiet, At
<1>5. \A p, q \in Requests : /\ p # q /\ job'[p].exch = e /\ job'[q].exch = e
                             /\ pc'[p] \in Updating /\ pc'[q] \in Updating
                             => q \in met'
  BY <1>0, <1>1 DEF StatusInv, UpdatesAlone
<1>11. job' \in [Requests -> Job]
  BY DEF TypeOK
<1>. QED
  BY <1>11, <1>0, <1>2, <1>4, <1>5, OthersSettled

LEMMA SubmissionDocuments ==
  ASSUME TypeOK, StatusInv, NEW r \in Requests, ClearHoldings(r) \/ InsertHoldings(r)
  PROVE  StatusInv'
<1>. USE DEF Submitting, Updating, DocumentsIdle, Goto, TypeOK
<1>1. CASE ClearHoldings(r)
  <2>1. DocumentsIdle
    BY <1>1 DEF ClearHoldings, historyVars
  <2>. QED
    BY <2>1, StatusFrame
<1>2. CASE InsertHoldings(r)
  <2>1. DocumentsIdle
    BY <1>2 DEF InsertHoldings
  <2>. QED
    BY <2>1, StatusFrame
<1>. QED
  BY <1>1, <1>2

LEMMA CancelDocuments ==
  ASSUME TypeOK, TypeOK', StatusInv, NEW r \in Requests, Cancel(r)
  PROVE  StatusInv'
<1>. USE DEF Submitting, Updating
<1>1. PICK id \in current :
        /\ current' = current \ {id}
        /\ met' = met \cup At(job[id].exch, Submitting \cup Updating)
        /\ stale' = stale \cup {job[id].exch}
  BY DEF Cancel
<1>0. PICK e : e = job[id].exch
  OBVIOUS
<1>2. /\ pc[r] = "ready" /\ pc'[r] = "done"
      /\ \A q \in Requests \ {r} : pc'[q] = pc[q]
      /\ UNCHANGED <<funding, doc, seenFunds, seenHoldings, job>>
  BY DEF Cancel, Receives, Goto, TypeOK, updateVars
<1>3. /\ \A q \in Requests : job[q].exch # e => (q \in met <=> q \in met')
      /\ \A q \in Requests : job[q].exch = e /\ pc'[q] \in Updating => q \in met'
  BY <1>0, <1>1, <1>2 DEF At
<1>4. \A x \in Exchanges : x # e => Untouched(x)
  BY <1>0, <1>1, <1>2, <1>3, TouchesOnly
<1>5. e \in stale'
  BY <1>0, <1>1
<1>11. job' \in [Requests -> Job]
  BY DEF TypeOK
<1>. QED
  BY <1>11, <1>0, <1>2, <1>3, <1>4, <1>5, OthersSettled

LEMMA ChangeFundingDocuments ==
  ASSUME TypeOK, TypeOK', StatusInv, NEW r \in Requests, ChangeFunding(r)
  PROVE  StatusInv'
<1>. USE DEF Submitting, Updating
<1>1. PICK e \in Exchanges, f \in Sums \cup {None} :
        /\ funding' = [funding EXCEPT ![e] = f]
        /\ job' = [job EXCEPT ![r].exch = e]
  BY DEF ChangeFunding
<1>2. /\ pc[r] = "ready" /\ pc'[r] = "readFunds" /\ r \notin current
      /\ \A q \in Requests \ {r} : pc'[q] = pc[q]
      /\ UNCHANGED <<current, doc, seenFunds, seenHoldings, met, stale>>
  BY DEF ChangeFunding, Receives, Goto, TypeOK, submissionVars, updateVars
<1>3. job'[r].exch = e /\ \A q \in Requests \ {r} : job'[q] = job[q]
  BY <1>1 DEF TypeOK, Job
<1>4. \A x \in Exchanges : x # e => funding'[x] = funding[x]
  BY <1>1 DEF TypeOK
<1>5. \A id \in current : job'[id] = job[id]
  BY <1>2, <1>3 DEF TypeOK
<1>6. \A x \in Exchanges : x # e => Untouched(x)
  BY <1>2, <1>3, <1>4, <1>5, TouchesOnly
<1>7. ~Still(e)' /\ ~Quiet(e)'
  BY <1>2, <1>3 DEF Still, Quiet, At
<1>8. \A p, q \in Requests : /\ p # q /\ job'[p].exch = e /\ job'[q].exch = e
                             /\ pc'[p] \in Updating /\ pc'[q] \in Updating
                             => q \in met'
  BY <1>2, <1>3 DEF StatusInv, UpdatesAlone
<1>11. job' \in [Requests -> Job]
  BY DEF TypeOK
<1>. QED
  BY <1>11, <1>6, <1>7, <1>8, OthersSettled

LEMMA QueueFundingDocuments ==
  ASSUME TypeOK, TypeOK', StatusInv, NEW r \in Requests, QueueFunding(r)
  PROVE  StatusInv'
<1>. USE DEF Submitting, Updating
<1>1. PICK e \in Exchanges, f \in Sums \cup {None} :
        /\ funding' = [funding EXCEPT ![e] = f]
        /\ met' = met \cup At(e, Updating)
        /\ stale' = stale \cup {e}
  BY DEF QueueFunding
<1>2. /\ pc[r] = "ready" /\ pc'[r] = "done"
      /\ \A q \in Requests \ {r} : pc'[q] = pc[q]
      /\ UNCHANGED <<current, doc, seenFunds, seenHoldings, job>>
  BY DEF QueueFunding, Receives, Goto, TypeOK, submissionVars, updateVars
<1>3. /\ \A q \in Requests : job[q].exch # e => (q \in met <=> q \in met')
      /\ \A q \in Requests : job[q].exch = e /\ pc'[q] \in Updating => q \in met'
  BY <1>1, <1>2 DEF At
<1>4. \A x \in Exchanges : x # e => funding'[x] = funding[x]
  BY <1>1 DEF TypeOK
<1>5. \A x \in Exchanges : x # e => Untouched(x)
  BY <1>1, <1>2, <1>3, <1>4, TouchesOnly
<1>11. job' \in [Requests -> Job]
  BY DEF TypeOK
<1>. QED
  BY <1>11, <1>1, <1>2, <1>3, <1>5, OthersSettled

LEMMA ReadFundsDocuments ==
  ASSUME TypeOK, TypeOK', StatusInv, NEW r \in Requests, ReadFunds(r)
  PROVE  StatusInv'
<1>. USE DEF Submitting, Updating
<1>0. PICK e : e = job[r].exch
  OBVIOUS
<1>1. /\ pc[r] = "readFunds" /\ pc'[r] = "readHoldings"
      /\ \A q \in Requests \ {r} : pc'[q] = pc[q]
      /\ seenFunds' = [seenFunds EXCEPT ![r] = funding[e]]
      /\ met' = IF At(e, Updating) = {} THEN met ELSE met \cup At(e, Updating) \cup {r}
      /\ UNCHANGED <<current, funding, doc, seenHoldings, job, stale>>
  BY <1>0 DEF ReadFunds, Goto, TypeOK, submissionVars, Meet
<1>2. /\ seenFunds'[r] = funding'[e]
      /\ \A q \in Requests \ {r} : seenFunds'[q] = seenFunds[q]
  BY <1>0, <1>1 DEF TypeOK
<1>3. /\ \A q \in Requests : job[q].exch # e => (q \in met <=> q \in met')
      /\ \A q \in Requests : q # r /\ job[q].exch = e /\ pc'[q] \in Updating =>
           q \in met' /\ r \in met'
  BY <1>0, <1>1 DEF At
<1>4. \A x \in Exchanges : x # e => Untouched(x)
  BY <1>0, <1>1, <1>2, <1>3, TouchesOnly
<1>5. ~Quiet(e)'
  BY <1>0, <1>1 DEF Quiet, At
<1>6. \A q \in Requests \ met' : job'[q].exch = e /\ Still(e)' =>
        /\ pc'[q] \in Updating => seenFunds'[q] = funding'[e]
        /\ pc'[q] = "record" => seenHoldings'[q] \in Totals(e)'
  BY <1>0, <1>1, <1>2, <1>3
<1>7. \A p, q \in Requests : /\ p # q /\ job'[p].exch = e /\ job'[q].exch = e
                             /\ pc'[p] \in Updating /\ pc'[q] \in Updating
                             => q \in met'
  BY <1>0, <1>1, <1>3
<1>11. job' \in [Requests -> Job]
  BY DEF TypeOK
<1>. QED
  BY <1>11, <1>0, <1>4, <1>5, <1>6, <1>7, OthersSettled

LEMMA ReadHoldingsDocuments ==
  ASSUME TypeOK, TypeOK', StatusInv, NEW r \in Requests, ReadHoldings(r)
  PROVE  StatusInv'
<1>. USE DEF Submitting, Updating
<1>0. PICK e : e = job[r].exch
  OBVIOUS
<1>1. /\ pc[r] = "readHoldings" /\ pc'[r] = "record"
      /\ \A q \in Requests \ {r} : pc'[q] = pc[q]
      /\ UNCHANGED <<current, funding, doc, seenFunds, job, met, stale>>
  BY <1>0 DEF ReadHoldings, Goto, TypeOK, submissionVars, historyVars
<1>2. /\ seenHoldings'[r] \in Totals(e)
      /\ \A q \in Requests \ {r} : seenHoldings'[q] = seenHoldings[q]
  BY <1>0 DEF ReadHoldings, TypeOK
<1>3. \A x \in Exchanges : x # e => Untouched(x)
  BY <1>0, <1>1, <1>2, TouchesOnly
<1>4. ~Quiet(e)'
  BY <1>0, <1>1 DEF Quiet, At
<1>5. Totals(e)' = Totals(e) /\ (Still(e)' => Still(e))
  BY <1>0, <1>1 DEF Totals, Of, Still, At
<1>6. \A q \in Requests \ met' : job'[q].exch = e /\ Still(e)' =>
        /\ pc'[q] \in Updating => seenFunds'[q] = funding'[e]
        /\ pc'[q] = "record" => seenHoldings'[q] \in Totals(e)'
  BY <1>0, <1>1, <1>2, <1>5 DEF StatusInv, AloneReads
<1>7. \A p, q \in Requests : /\ p # q /\ job'[p].exch = e /\ job'[q].exch = e
                             /\ pc'[p] \in Updating /\ pc'[q] \in Updating
                             => q \in met'
  BY <1>0, <1>1 DEF StatusInv, UpdatesAlone
<1>11. job' \in [Requests -> Job]
  BY DEF TypeOK
<1>. QED
  BY <1>11, <1>0, <1>3, <1>4, <1>6, <1>7, OthersSettled

LEMMA RecordDocuments ==
  ASSUME TypeOK, TypeOK', StatusInv, NEW r \in Requests, Record(r)
  PROVE  StatusInv'
<1>. USE DEF Submitting, Updating
<1>0. PICK e : e = job[r].exch
  OBVIOUS
<1>1. /\ pc[r] = "record" /\ pc'[r] = "done"
      /\ \A q \in Requests \ {r} :
           pc'[q] = pc[q] /\ seenFunds'[q] = seenFunds[q] /\ seenHoldings'[q] = seenHoldings[q]
      /\ stale' = IF r \in met THEN stale \cup {e} ELSE stale \ {e}
      /\ met' = met \ {r}
      /\ UNCHANGED <<current, funding, job>>
  BY <1>0 DEF Record, Goto, TypeOK, submissionVars
<1>2. /\ doc'[e] = Entry(seenFunds[r], seenHoldings[r])
      /\ \A x \in Exchanges : x # e => doc'[x] = doc[x]
  BY <1>0 DEF Record, TypeOK, Job
<1>3. \A x \in Exchanges : x # e => Untouched(x)
  BY <1>0, <1>1, <1>2, TouchesOnly
<1>4. \A q \in Requests : q # r /\ job[q].exch = e /\ pc[q] \in Updating => q \in met'
  BY <1>0, <1>1 DEF StatusInv, UpdatesAlone
<1>5. ASSUME e \notin stale', Quiet(e)'
      PROVE  \E h \in Totals(e)' : doc'[e] = Entry(funding'[e], h)
  <2>1. r \notin met
    BY <1>1, <1>5
  <2>2. Still(e)
    BY <1>1, <1>5 DEF Still, Quiet, At
  <2>3. seenFunds[r] = funding[e] /\ seenHoldings[r] \in Totals(e)
    BY <1>0, <1>1, <2>1, <2>2 DEF StatusInv, AloneReads
  <2>4. Totals(e)' = Totals(e)
    BY <1>1 DEF Totals, Of
  <2>. QED
    BY <1>1, <1>2, <2>3, <2>4
<1>6. \A q \in Requests \ met' : job'[q].exch = e => pc'[q] \notin Updating
  BY <1>1, <1>4
<1>7. job' \in [Requests -> Job]
  BY DEF TypeOK
<1>. QED
  BY <1>3, <1>5, <1>6, <1>7, OthersSettled

LEMMA RestartDocuments ==
  ASSUME TypeOK, StatusInv, Restart
  PROVE  StatusInv'
<1>1. /\ \A q \in Requests : pc'[q] \in {"ready", "done"}
      /\ stale' = stale \cup {e \in Exchanges : ~Quiet(e)}
      /\ UNCHANGED <<current, funding, doc, job>>
  BY DEF Restart, submissionVars
<1>2. UpdatesAlone' /\ AloneReads'
  BY <1>1 DEF UpdatesAlone, AloneReads, Updating
<1>3. \A x : Totals(x)' = Totals(x)
  BY <1>1 DEF Totals, Of
<1>4. StatusSettles'
  <2>1. \A x \in Exchanges \ stale' : x \notin stale /\ Quiet(x)
    BY <1>1
  <2>. QED
    BY <1>1, <1>3, <2>1 DEF StatusInv, StatusSettles
<1>. QED
  BY <1>2, <1>4 DEF StatusInv

LEMMA IdleDocuments ==
  ASSUME TypeOK, StatusInv, StatusesIdle, UNCHANGED stale
  PROVE  StatusInv'
<1>1. DocumentsIdle
  BY DEF DocumentsIdle, StatusesIdle, Submitting, Updating, submissionVars
<1>. QED
  BY <1>1, StatusFrame

LEMMA StatusNext == TypeOK /\ TypeOK' /\ StatusInv /\ [Next]_vars => StatusInv'
<1>. SUFFICES ASSUME TypeOK, TypeOK', StatusInv, [Next]_vars PROVE StatusInv'
  OBVIOUS
<1>1. ASSUME NEW r \in Requests, SubmissionStep(r) PROVE StatusInv'
  BY <1>1, SubmitDocuments, InsertSubmissionDocuments, SubmissionDocuments, CancelDocuments
     DEF SubmissionStep
<1>2. ASSUME NEW r \in Requests, StatusStep(r) PROVE StatusInv'
  BY <1>2, ChangeFundingDocuments, QueueFundingDocuments, ReadFundsDocuments,
     ReadHoldingsDocuments, RecordDocuments DEF StatusStep
<1>3. ASSUME NEW r \in Requests, VerificationStep(r) PROVE StatusInv'
  BY <1>3, VerificationStepIdles, IdleDocuments DEF StatusesIdle
<1>4. CASE UNCHANGED vars
  <2>1. StatusesIdle
    BY <1>4 DEF vars, StatusesIdle, historyVars
  <2>. QED
    BY <2>1, IdleDocuments DEF StatusesIdle
<1>. QED
  BY <1>1, <1>2, <1>3, <1>4, RestartDocuments DEF Next, AllDone

\* The document of a quiet exchange says what its active addresses and its
\* current submission say, after an updateStatus with no other beside it.
THEOREM StatusesSettled == Spec => []StatusSettles
<1>1. Init => TypeOK /\ StatusInv
  BY TypeInit, SettledInit
<1>2. (TypeOK /\ StatusInv) /\ [Next]_vars => (TypeOK /\ StatusInv)'
  BY TypeStep, StatusNext
<1>3. TypeOK /\ StatusInv => StatusSettles
  BY DEF StatusInv
<1>. QED
  BY <1>1, <1>2, <1>3, PTL DEF Spec

----------------------------------------------------------------------------
(* The verifications.                                                      *)

\* A step of request r at exchange e, where nothing is calm.
LEMMA CalmElsewhere ==
  ASSUME TypeOK, CalmInv, NEW r \in Requests, NEW e, JobsKept, pc'[r] # "ready",
         \A q \in Requests \ {r} : pc'[q] = pc[q] /\ job'[q] = job[q],
         pc'[r] = "done" \/ job'[r].exch = e,
         calm' \subseteq calm, \A p \in calm' : p[2] # e,
         \A x \in Exchanges : x # e =>
            /\ x \in mixed' => x \in mixed
            /\ x \in stale' => x \in stale
            /\ doc'[x] = doc[x],
         \A id \in live : job[id].exch # e => id \in live',
         UNCHANGED <<toCheck, verified>>
  PROVE  CalmInv'
<1>. USE DEF CalmInv, JobsKept, Submitting, Updating
<1>1. \A p \in calm' : p \in calm /\ p[2] \in Exchanges /\ p[2] # e
  BY DEF TypeOK
<1>2. \A x : x # e /\ Quiet(x) => Quiet(x)'
  BY DEF Quiet, At
<1>3. CalmIsSettled'
  BY <1>1, <1>2 DEF CalmIsSettled
<1>4. CalmChecks'
  <2>1. \A q \in Requests : \A id \in toCheck[q] \cup verified[q] :
          id \in Requests /\ pc[id] # "ready" /\ job[id].exch \in Exchanges
    BY DEF TypeOK, CalmChecks, Job
  <2>2. \A q \in Requests : \A id \in toCheck[q] \cup verified[q] :
          pc'[id] # "ready" /\ job'[id] = job[id]
    BY <2>1
  <2>. SUFFICES ASSUME NEW q \in Requests, NEW id \in toCheck[q] \cup verified[q],
                       <<q, job[id].exch>> \in calm'
                PROVE  id \in live' /\ (id \in verified[q] => doc'[job[id].exch].status = "ok")
    BY <2>2 DEF CalmChecks
  <2>3. <<q, job[id].exch>> \in calm /\ job[id].exch # e
    BY <1>1
  <2>. QED
    BY <2>1, <2>3 DEF CalmChecks
<1>5. NothingVerified'
  BY DEF NothingVerified
<1>. QED
  BY <1>3, <1>4, <1>5

\* Where a submission or an updateStatus is under way nothing is calm.
LEMMA NotCalm ==
  ASSUME TypeOK, CalmInv, NEW r \in Requests,
         pc[r] \in Submitting \cup Updating \cup {"readFunds"}
  PROVE  \A p \in calm : p[2] # job[r].exch
  BY DEF CalmInv, CalmIsSettled, Quiet, At

LEMMA SubmissionCalm ==
  ASSUME TypeOK, CalmInv, NEW r \in Requests, SubmissionStep(r)
  PROVE  CalmInv'
<1>. USE DEF Submitting
<1>1. CASE Submit(r)
  <2>1. PICK e \in Exchanges, b \in Bodies :
          /\ job' = [job EXCEPT ![r] = [exch |-> e, body |-> b]]
          /\ Stir(e)
    BY <1>1 DEF Submit
  <2>2. /\ pc[r] = "ready" /\ pc'[r] = "clearHoldings"
        /\ \A q \in Requests \ {r} : pc'[q] = pc[q] /\ job'[q] = job[q]
        /\ job'[r].exch = e
        /\ UNCHANGED <<live, doc, toCheck, verified, mixed, stale>>
    BY <1>1, <2>1 DEF Submit, Receives, Goto, TypeOK, updateVars, verificationVars
  <2>3. calm' \subseteq calm /\ \A p \in calm' : p[2] # e
    BY <2>1 DEF Stir
  <2>4. JobsKept
    BY <2>2 DEF JobsKept
  <2>. QED
    BY <2>2, <2>3, <2>4, CalmElsewhere
<1>2. CASE Cancel(r)
  <2>1. PICK id \in current :
          /\ mixed' = mixed \cup {job[id].exch}
          /\ stale' = stale \cup {job[id].exch}
          /\ Stir(job[id].exch)
    BY <1>2 DEF Cancel
  <2>2. PICK e : e = job[id].exch
    OBVIOUS
  <2>3. /\ pc[r] = "ready" /\ pc'[r] = "done"
        /\ \A q \in Requests \ {r} : pc'[q] = pc[q]
        /\ UNCHANGED <<job, live, doc, toCheck, verified>>
    BY <1>2 DEF Cancel, Receives, Goto, TypeOK, updateVars, verificationVars
  <2>4. calm' \subseteq calm /\ \A p \in calm' : p[2] # e
    BY <2>1, <2>2 DEF Stir
  <2>5. JobsKept
    BY <2>3 DEF JobsKept
  <2>. QED
    BY <2>1, <2>2, <2>3, <2>4, <2>5, CalmElsewhere
<1>3. CASE ClearHoldings(r) \/ InsertSubmission(r) \/ InsertHoldings(r)
  <2>1. PICK e : e = job[r].exch
    OBVIOUS
  <2>2. /\ pc[r] \in Submitting /\ pc'[r] # "ready"
        /\ \A q \in Requests \ {r} : pc'[q] = pc[q]
        /\ UNCHANGED <<job, doc, toCheck, verified, stale, calm>>
    BY <1>3 DEF ClearHoldings, InsertSubmission, InsertHoldings, Goto, TypeOK, updateVars,
                verificationVars, historyVars
  <2>3. /\ \A id \in live : job[id].exch # e => id \in live'
        /\ \A x \in Exchanges : x # e /\ x \in mixed' => x \in mixed
    BY <1>3, <2>1 DEF ClearHoldings, InsertSubmission, InsertHoldings, Of, historyVars
  <2>4. \A p \in calm' : p[2] # e
    BY <2>1, <2>2, NotCalm
  <2>5. JobsKept
    BY <2>2 DEF JobsKept
  <2>. QED
    BY <2>1, <2>2, <2>3, <2>4, <2>5, CalmElsewhere
<1>. QED
  BY <1>1, <1>2, <1>3 DEF SubmissionStep

LEMMA StatusCalm ==
  ASSUME TypeOK, CalmInv, NEW r \in Requests, StatusStep(r)
  PROVE  CalmInv'
<1>. USE DEF Updating
<1>1. CASE ChangeFunding(r) \/ QueueFunding(r)
  <2>1. PICK e \in Exchanges :
          /\ job' = [job EXCEPT ![r].exch = e] \/ (job' = job /\ Goto(r, "done"))
          /\ stale' \subseteq stale \cup {e}
          /\ Stir(e)
    BY <1>1 DEF ChangeFunding, QueueFunding
  <2>2. /\ pc[r] = "ready" /\ pc'[r] # "ready"
        /\ \A q \in Requests \ {r} : pc'[q] = pc[q]
        /\ UNCHANGED <<live, doc, toCheck, verified, mixed>>
    BY <1>1 DEF ChangeFunding, QueueFunding, Receives, Goto, TypeOK, submissionVars,
                updateVars, verificationVars
  <2>3. /\ \A q \in Requests \ {r} : job'[q] = job[q]
        /\ pc'[r] = "done" \/ job'[r].exch = e
    BY <2>1 DEF TypeOK, Job, Goto
  <2>4. calm' \subseteq calm /\ \A p \in calm' : p[2] # e
    BY <2>1 DEF Stir
  <2>5. JobsKept
    BY <2>2, <2>3 DEF JobsKept
  <2>. QED
    BY <2>1, <2>2, <2>3, <2>4, <2>5, CalmElsewhere
<1>2. CASE ReadFunds(r) \/ ReadHoldings(r) \/ Record(r)
  <2>1. PICK e : e = job[r].exch
    OBVIOUS
  <2>2. /\ pc[r] \in Updating \cup {"readFunds"} /\ pc'[r] # "ready"
        /\ \A q \in Requests \ {r} : pc'[q] = pc[q]
        /\ UNCHANGED <<job, live, toCheck, verified, mixed, calm>>
    BY <1>2 DEF ReadFunds, ReadHoldings, Record, Goto, TypeOK, submissionVars,
                verificationVars, historyVars
  <2>3. \A x \in Exchanges : x # e => doc'[x] = doc[x] /\ (x \in stale' => x \in stale)
    BY <1>2, <2>1 DEF ReadFunds, ReadHoldings, Record, TypeOK, historyVars
  <2>4. \A p \in calm' : p[2] # e
    BY <2>1, <2>2, NotCalm
  <2>5. JobsKept
    BY <2>2 DEF JobsKept
  <2>. QED
    BY <2>1, <2>2, <2>3, <2>4, <2>5, CalmElsewhere
<1>. QED
  BY <1>1, <1>2 DEF StatusStep

LEMMA RestartCalm ==
  ASSUME TypeOK, CalmInv, Restart
  PROVE  CalmInv'
<1>1. /\ \A q \in Requests : pc'[q] = IF pc[q] = "ready" THEN "ready" ELSE "done"
      /\ mixed' = mixed \cup {e \in Exchanges : At(e, Submitting) # {}}
      /\ stale' = stale \cup {e \in Exchanges : ~Quiet(e)}
      /\ UNCHANGED <<live, doc, job, toCheck, verified, calm>>
  BY DEF Restart, submissionVars, verificationVars
<1>2. \A x : Quiet(x)' /\ (Quiet(x) => At(x, Submitting) = {})
  BY <1>1 DEF Quiet, At, Submitting, Updating
<1>3. CalmIsSettled'
  BY <1>1, <1>2 DEF CalmInv, CalmIsSettled
<1>4. CalmChecks' /\ NothingVerified'
  BY <1>1 DEF CalmInv, CalmChecks, NothingVerified, TypeOK
<1>. QED
  BY <1>3, <1>4 DEF CalmInv

LEMMA LookUpCalm ==
  ASSUME TypeOK, CalmInv, NEW r \in Requests, LookUp(r)
  PROVE  CalmInv'
<1>. USE DEF CalmInv
<1>1. PICK c \in Customers :
        toCheck' = [toCheck EXCEPT ![r] = {id \in live : c \in job[id].body.customers}]
  BY DEF LookUp
<1>2. /\ pc[r] = "ready" /\ pc'[r] # "ready"
      /\ \A q \in Requests \ {r} : pc'[q] = pc[q]
      /\ calm' = calm \cup {<<r, e>> : e \in {x \in Exchanges \ (mixed \cup stale) : Quiet(x)}}
      /\ UNCHANGED <<live, doc, job, verified, mixed, stale>>
  BY DEF LookUp, Receives, Goto, TypeOK, submissionVars, updateVars
<1>3. StatusesIdle
  BY VerificationStepIdles DEF VerificationStep
<1>4. \A x : Quiet(x)' = Quiet(x)
  BY <1>3 DEF StatusesIdle, Quiet, At
<1>5. CalmIsSettled'
  BY <1>2, <1>4 DEF CalmIsSettled
<1>6. CalmChecks'
  <2>1. ASSUME NEW q \in Requests \ {r}, NEW id \in toCheck[q] \cup verified[q]
        PROVE  /\ pc'[id] # "ready"
               /\ <<q, job[id].exch>> \in calm' =>
                     id \in live /\ (id \in verified[q] => doc[job[id].exch].status = "ok")
    <3>1. id \in Requests /\ pc[id] # "ready"
      BY DEF TypeOK, CalmChecks
    <3>2. <<q, job[id].exch>> \in calm' => <<q, job[id].exch>> \in calm
      BY <1>2
    <3>. QED
      BY <1>2, <3>1, <3>2 DEF CalmChecks
  <2>2. \A id \in toCheck'[r] : id \in live /\ pc'[id] # "ready"
    BY <1>1, <1>2 DEF TypeOK
  <2>3. verified[r] = {} /\ \A q \in Requests \ {r} : toCheck'[q] = toCheck[q]
    BY <1>1, <1>2 DEF NothingVerified, TypeOK
  <2>. QED
    BY <1>2, <2>1, <2>2, <2>3 DEF CalmChecks
<1>7. NothingVerified'
  BY <1>2 DEF NothingVerified
<1>. QED
  BY <1>5, <1>6, <1>7

\* The steps of a verification after its lookup.
LEMMA VerificationCalm ==
  ASSUME TypeOK, CalmInv, StatusesIdle, UNCHANGED calm,
         \A q \in Requests : pc'[q] = "ready" => pc[q] = "ready",
         \A q \in Requests :
            /\ pc'[q] = "ready" => verified'[q] = verified[q]
            /\ toCheck'[q] \subseteq toCheck[q]
            /\ \A id \in verified'[q] : id \in verified[q] \/
                 (id \in toCheck[q] /\ doc[job[id].exch].status = "ok")
  PROVE  CalmInv'
<1>. USE DEF CalmInv, StatusesIdle
<1>1. \A x : Quiet(x)' = Quiet(x)
  BY DEF Quiet, At
<1>2. CalmIsSettled'
  BY <1>1 DEF CalmIsSettled
<1>3. CalmChecks'
  <2>1. ASSUME NEW q \in Requests, NEW id \in toCheck'[q] \cup verified'[q]
        PROVE  /\ pc'[id] # "ready"
               /\ <<q, job[id].exch>> \in calm =>
                     id \in live /\ (id \in verified'[q] => doc[job[id].exch].status = "ok")
    <3>1. id \in toCheck[q] \cup verified[q]
      OBVIOUS
    <3>2. id \in Requests /\ pc[id] # "ready"
      BY <3>1 DEF TypeOK, CalmChecks
    <3>. QED
      BY <3>1, <3>2 DEF CalmChecks
  <2>. QED
    BY <2>1 DEF CalmChecks, submissionVars, updateVars
<1>4. NothingVerified'
  BY DEF NothingVerified
<1>. QED
  BY <1>2, <1>3, <1>4

LEMMA CheckCalm ==
  ASSUME TypeOK, CalmInv, NEW r \in Requests, Check(r)
  PROVE  CalmInv'
<1>1. PICK id \in toCheck[r] :
        /\ verified' = [verified EXCEPT ![r] = verified[r] \cup
             (IF doc[job[id].exch].status = "ok" THEN {id} ELSE {})]
        /\ toCheck' = [toCheck EXCEPT ![r] = toCheck[r] \ {id}]
  BY DEF Check
<1>2. /\ pc'[r] # "ready" /\ \A q \in Requests \ {r} : pc'[q] = pc[q]
      /\ UNCHANGED calm
  BY DEF Check, Goto, TypeOK, historyVars
<1>3. StatusesIdle
  BY VerificationStepIdles DEF VerificationStep
<1>4. \A q \in Requests :
        /\ pc'[q] = "ready" => verified'[q] = verified[q]
        /\ toCheck'[q] \subseteq toCheck[q]
        /\ \A i \in verified'[q] : i \in verified[q] \/
             (i \in toCheck[q] /\ doc[job[i].exch].status = "ok")
  BY <1>1, <1>2 DEF TypeOK
<1>. QED
  BY <1>2, <1>3, <1>4, VerificationCalm

LEMMA AnswerCalm ==
  ASSUME TypeOK, CalmInv, NEW r \in Requests, Save(r) \/ Mail(r) \/ Confirm(r)
  PROVE  CalmInv'
<1>1. /\ \A q \in Requests : pc'[q] = "ready" => pc[q] = "ready"
      /\ UNCHANGED <<calm, toCheck, verified>>
  BY DEF Save, Mail, Confirm, Goto, TypeOK, verificationVars, historyVars
<1>2. StatusesIdle
  BY VerificationStepIdles DEF VerificationStep
<1>. QED
  BY <1>1, <1>2, VerificationCalm

LEMMA CalmNext == TypeOK /\ CalmInv /\ [Next]_vars => CalmInv'
<1>. SUFFICES ASSUME TypeOK, CalmInv, [Next]_vars PROVE CalmInv'
  OBVIOUS
<1>1. ASSUME NEW r \in Requests, VerificationStep(r) PROVE CalmInv'
  BY <1>1, LookUpCalm, CheckCalm, AnswerCalm DEF VerificationStep
<1>2. CASE UNCHANGED vars
  <2>1. StatusesIdle /\ UNCHANGED <<pc, calm, toCheck, verified>>
    BY <1>2 DEF vars, StatusesIdle, verificationVars, historyVars
  <2>. QED
    BY <2>1, VerificationCalm
<1>. QED
  BY <1>1, <1>2, SubmissionCalm, StatusCalm, RestartCalm DEF Next, AllDone

LEMMA CalmIsBacked ==
  ASSUME TypeOK, SubmissionInv, StatusInv, CalmInv
  PROVE  VerifiedIsBacked
<1>. SUFFICES ASSUME NEW r \in Requests, NEW id \in verified[r],
                     <<r, job[id].exch>> \in calm
              PROVE  /\ Of(job[id].exch, current) = {id}
                     /\ funding[job[id].exch] # None
                     /\ 10 * funding[job[id].exch] >= 9 * job[id].body.total
  BY DEF VerifiedIsBacked
<1>. DEFINE e == job[id].exch
<1>1. id \in Requests /\ e \in Exchanges /\ job[id].body.total \in Nat
  BY BodiesAssumption DEF TypeOK, Job, Body
<1>2. id \in live /\ doc[e].status = "ok"
  BY DEF CalmInv, CalmChecks
<1>3. e \notin mixed /\ e \notin stale /\ Quiet(e)
  BY DEF CalmInv, CalmIsSettled
<1>4. At(e, Submitting) = {}
  BY <1>3 DEF Quiet, At
<1>5. Of(e, current) = Of(e, live) /\ \A x, y \in Of(e, current) : x = y
  BY <1>1, <1>3, <1>4 DEF SubmissionInv, SubmissionsSettle
<1>6. id \in Of(e, live)
  BY <1>2 DEF Of
<1>7. Of(e, current) = {id}
  BY <1>5, <1>6
<1>8. Totals(e) = {job[id].body.total}
  BY <1>7 DEF Totals
<1>9. doc[e] = Entry(funding[e], job[id].body.total)
  BY <1>1, <1>3, <1>8 DEF StatusInv, StatusSettles
<1>10. Status(funding[e], job[id].body.total) = "ok"
  BY <1>2, <1>9 DEF Entry
<1>11. funding[e] \in Nat \cup {None}
  BY <1>1, SumsAssumption DEF TypeOK
<1>12. funding[e] # None /\ ~(10 * funding[e] < 9 * job[id].body.total)
  BY <1>1, <1>10, <1>11 DEF Status, None
<1>. QED
  BY <1>1, <1>7, <1>11, <1>12

\* A customer is told of a holding only if it is current and backed to 90
\* percent, where the exchange was settled and has not changed since the lookup.
THEOREM VerifiedBacked == Spec => []VerifiedIsBacked
<1>1. Init => TypeOK /\ SubmissionInv /\ StatusInv /\ CalmInv
  BY TypeInit, SettledInit
<1>2. (TypeOK /\ SubmissionInv /\ StatusInv /\ CalmInv) /\ [Next]_vars
        => (TypeOK /\ SubmissionInv /\ StatusInv /\ CalmInv)'
  BY TypeStep, SubmissionNext, StatusNext, CalmNext
<1>3. TypeOK /\ SubmissionInv /\ StatusInv /\ CalmInv => VerifiedIsBacked
  BY CalmIsBacked
<1>. QED
  BY <1>1, <1>2, <1>3, PTL DEF Spec
=============================================================================
