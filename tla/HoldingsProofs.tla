--------------------------- MODULE HoldingsProofs ---------------------------
(***************************************************************************)
(* Holdings keeps its types, and what it leaves of submissions, statuses   *)
(* and verifications is right, for all exchanges, customers and requests.  *)
(***************************************************************************)
EXTENDS Holdings, TLAPS

LEMMA JobExists == (CHOOSE j \in Job : TRUE) \in Job
<1>1. PICK e \in Exchanges, b \in Bodies : TRUE
  BY ExchangesAssumption, BodiesAssumption
<1>2. [exch |-> e, body |-> b] \in Job
  BY DEF Job
<1>. QED
  BY <1>2

LEMMA TotalsType ==
  ASSUME TypeOK, NEW e
  PROVE  Totals(e) \subseteq Nat \cup {None}
<1>1. \A id \in current : job[id].body.total \in Nat
  BY BodiesAssumption DEF TypeOK, Job, Body
<1>. QED
  BY <1>1 DEF Totals, Of

LEMMA EntryType ==
  ASSUME NEW f \in Sums \cup {None}, NEW h \in Nat \cup {None}
  PROVE  Entry(f, h) \in [status: {"awaiting-data", "insufficient-funds", "ok"},
                          funds: Nat \cup {None}, holdings: Nat \cup {None}]
<1>1. Status(f, h) \in {"awaiting-data", "insufficient-funds", "ok"}
  BY DEF Status
<1>. QED
  BY <1>1, SumsAssumption DEF Entry

\* The labels, for the steps that go to one.
LEMMA GotoType ==
  ASSUME TypeOK, NEW r \in Requests, NEW l \in Labels, Goto(r, l)
  PROVE  /\ pc' \in [Requests -> Labels]
         /\ pc'[r] = l
         /\ \A q \in Requests \ {r} : pc'[q] = pc[q]
  BY DEF TypeOK, Goto

\* Type correctness: the collections, documents, requests and histories keep
\* their types whatever the requests and restarts do.
LEMMA TypeInit == Init => TypeOK
  BY JobExists, LimitsAssumption DEF Init, TypeOK, Labels, None

LEMMA SubmissionTypes ==
  ASSUME TypeOK, NEW r \in Requests, SubmissionStep(r)
  PROVE  TypeOK'
<1>. USE DEF Labels, Submitting, Updating, Verifying
<1>1. CASE Submit(r)
  <2>1. PICK e \in Exchanges, b \in Bodies :
          /\ job' = [job EXCEPT ![r] = [exch |-> e, body |-> b]]
          /\ current' = current \ Of(e, current)
          /\ Meet(r, e, Submitting)
          /\ Stir(e)
    BY <1>1 DEF Submit
  <2>2. job' \in [Requests -> Job]
    BY <2>1 DEF TypeOK, Job
  <2>3. met' \subseteq Requests /\ calm' \subseteq Requests \X Exchanges
    BY <2>1 DEF Meet, Stir, At, TypeOK
  <2>4. pc[r] = "ready" /\ r \notin current /\ r \notin live
    BY <1>1 DEF Submit, Receives, TypeOK
  <2>. QED
    BY <1>1, <2>1, <2>2, <2>3, <2>4, GotoType
       DEF Submit, TypeOK, Of, updateVars, verificationVars
<1>2. CASE ClearHoldings(r)
  BY <1>2, GotoType
     DEF ClearHoldings, TypeOK, Of, updateVars, verificationVars, historyVars
<1>3. CASE InsertSubmission(r)
  BY <1>3, GotoType DEF InsertSubmission, TypeOK, updateVars, verificationVars, historyVars
<1>4. CASE InsertHoldings(r)
  <2>1. job[r].exch \in Exchanges
    BY DEF TypeOK, Job
  <2>. QED
    BY <1>4, <2>1, GotoType DEF InsertHoldings, TypeOK, updateVars, verificationVars
<1>5. CASE Cancel(r)
  <2>1. PICK id \in current :
          /\ current' = current \ {id}
          /\ met' = met \cup At(job[id].exch, Submitting \cup Updating)
          /\ mixed' = mixed \cup {job[id].exch}
          /\ stale' = stale \cup {job[id].exch}
          /\ Stir(job[id].exch)
    BY <1>5 DEF Cancel
  <2>2. job[id].exch \in Exchanges
    BY DEF TypeOK, Job
  <2>3. met' \subseteq Requests /\ calm' \subseteq Requests \X Exchanges
    BY <2>1 DEF Stir, At, TypeOK
  <2>. QED
    BY <1>5, <2>1, <2>2, <2>3, GotoType DEF Cancel, TypeOK, updateVars, verificationVars
<1>. QED
  BY <1>1, <1>2, <1>3, <1>4, <1>5 DEF SubmissionStep

LEMMA StatusTypes ==
  ASSUME TypeOK, NEW r \in Requests, StatusStep(r)
  PROVE  TypeOK'
<1>. USE DEF Labels, Submitting, Updating, Verifying
<1>0. job[r] \in Job /\ job[r].exch \in Exchanges
  BY DEF TypeOK, Job
<1>1. CASE ChangeFunding(r)
  <2>1. PICK e \in Exchanges, f \in Sums \cup {None} :
          /\ funding' = [funding EXCEPT ![e] = f]
          /\ job' = [job EXCEPT ![r].exch = e]
          /\ Stir(e)
    BY <1>1 DEF ChangeFunding
  <2>2. job' \in [Requests -> Job]
    BY <2>1 DEF TypeOK, Job
  <2>3. calm' \subseteq Requests \X Exchanges
    BY <2>1 DEF Stir, TypeOK
  <2>4. funding' \in [Exchanges -> Sums \cup {None}]
    BY <2>1 DEF TypeOK
  <2>. QED
    BY <1>1, <2>2, <2>3, <2>4, GotoType
       DEF ChangeFunding, TypeOK, submissionVars, updateVars, verificationVars
<1>2. CASE QueueFunding(r)
  <2>1. PICK e \in Exchanges, f \in Sums \cup {None} :
          /\ funding' = [funding EXCEPT ![e] = f]
          /\ met' = met \cup At(e, Updating)
          /\ stale' = stale \cup {e}
          /\ Stir(e)
    BY <1>2 DEF QueueFunding
  <2>2. met' \subseteq Requests /\ calm' \subseteq Requests \X Exchanges
    BY <2>1 DEF Stir, At, TypeOK
  <2>3. funding' \in [Exchanges -> Sums \cup {None}]
    BY <2>1 DEF TypeOK
  <2>. QED
    BY <1>2, <2>1, <2>2, <2>3, GotoType
       DEF QueueFunding, TypeOK, submissionVars, updateVars, verificationVars
<1>3. CASE ReadFunds(r)
  <2>1. met' \subseteq Requests
    BY <1>3 DEF ReadFunds, Meet, At, TypeOK
  <2>2. seenFunds' \in [Requests -> Sums \cup {None}]
    BY <1>0, <1>3 DEF ReadFunds, TypeOK
  <2>. QED
    BY <1>3, <2>1, <2>2, GotoType DEF ReadFunds, TypeOK, submissionVars, verificationVars
<1>4. CASE ReadHoldings(r)
  <2>1. seenHoldings' \in [Requests -> Nat \cup {None}]
    BY <1>4, TotalsType DEF ReadHoldings, TypeOK
  <2>. QED
    BY <1>4, <2>1, GotoType
       DEF ReadHoldings, TypeOK, submissionVars, verificationVars, historyVars
<1>5. CASE Record(r)
  <2>1. Entry(seenFunds[r], seenHoldings[r]) \in
          [status: {"awaiting-data", "insufficient-funds", "ok"},
           funds: Nat \cup {None}, holdings: Nat \cup {None}]
    BY EntryType DEF TypeOK
  <2>2. /\ seenFunds' \in [Requests -> Sums \cup {None}]
        /\ seenHoldings' \in [Requests -> Nat \cup {None}]
    BY <1>5 DEF Record, TypeOK
  <2>. QED
    BY <1>0, <1>5, <2>1, <2>2, GotoType DEF Record, TypeOK, submissionVars, verificationVars
<1>. QED
  BY <1>1, <1>2, <1>3, <1>4, <1>5 DEF StatusStep

LEMMA VerificationTypes ==
  ASSUME TypeOK, NEW r \in Requests, VerificationStep(r)
  PROVE  TypeOK'
<1>. USE DEF Labels, Submitting, Updating, Verifying
<1>1. CASE LookUp(r)
  <2>1. PICK kind \in {"uid", "email"}, c \in Customers :
          /\ pc[r] = "ready"
          /\ toCheck' = [toCheck EXCEPT ![r] = {id \in live : c \in job[id].body.customers}]
          /\ by' = [by EXCEPT ![r] = kind]
          /\ calm' = calm \cup
               {<<r, e>> : e \in {x \in Exchanges \ (mixed \cup stale) : Quiet(x)}}
          /\ Goto(r, IF {id \in live : c \in job[id].body.customers} = {}
                     THEN "done" ELSE "check")
          /\ UNCHANGED <<submissionVars, funding, updateVars, job, verified, answer, crashes,
                         met, mixed, stale>>
    BY <1>1 DEF LookUp, Receives
  <2>2. calm' \subseteq Requests \X Exchanges
    BY <2>1 DEF TypeOK
  <2>3. toCheck' \in [Requests -> SUBSET Requests] /\ by' \in [Requests -> {"uid", "email"}]
    BY <2>1 DEF TypeOK
  <2>4. pc'[r] \in {"done", "check"} /\ pc' \in [Requests -> Labels]
         /\ \A q \in Requests \ {r} : pc'[q] = pc[q]
    BY <2>1 DEF TypeOK, Goto
  <2>. QED
    BY <2>1, <2>2, <2>3, <2>4 DEF TypeOK, submissionVars, updateVars
<1>2. CASE Check(r)
  <2>1. PICK id \in toCheck[r] :
          /\ verified' = [verified EXCEPT ![r] = verified[r] \cup
               (IF doc[job[id].exch].status = "ok" THEN {id} ELSE {})]
          /\ toCheck' = [toCheck EXCEPT ![r] = toCheck[r] \ {id}]
    BY <1>2 DEF Check
  <2>2. /\ verified' \in [Requests -> SUBSET Requests]
        /\ toCheck' \in [Requests -> SUBSET Requests]
    BY <2>1 DEF TypeOK
  <2>3. pc'[r] \in {"done", "check", "save"} /\ pc' \in [Requests -> Labels]
         /\ \A q \in Requests \ {r} : pc'[q] = pc[q]
    BY <1>2 DEF Check, TypeOK, Goto
  <2>. QED
    BY <1>2, <2>2, <2>3 DEF Check, TypeOK, submissionVars, updateVars, historyVars
<1>3. CASE Save(r)
  <2>1. pc'[r] \in {"done", "mail"} /\ pc' \in [Requests -> Labels]
         /\ \A q \in Requests \ {r} : pc'[q] = pc[q]
    BY <1>3 DEF Save, TypeOK, Goto
  <2>. QED
    BY <1>3, <2>1 DEF Save, TypeOK, submissionVars, updateVars, historyVars
<1>4. CASE Mail(r)
  <2>1. pc'[r] \in {"done", "confirm"} /\ pc' \in [Requests -> Labels]
         /\ \A q \in Requests \ {r} : pc'[q] = pc[q]
    BY <1>4 DEF Mail, TypeOK, Goto
  <2>. QED
    BY <1>4, <2>1
       DEF Mail, TypeOK, submissionVars, updateVars, verificationVars, historyVars
<1>5. CASE Confirm(r)
  BY <1>5, GotoType DEF Confirm, TypeOK, submissionVars, updateVars, historyVars
<1>. QED
  BY <1>1, <1>2, <1>3, <1>4, <1>5 DEF VerificationStep

LEMMA RestartTypes == TypeOK /\ Restart => TypeOK'
<1>. SUFFICES ASSUME TypeOK, Restart PROVE TypeOK'
  OBVIOUS
<1>1. /\ pc' \in [Requests -> Labels]
      /\ \A q \in Requests : pc'[q] = "ready" => pc[q] = "ready"
      /\ \A q \in Requests : pc'[q] \in {"ready", "done"}
  BY DEF Restart, Labels
<1>2. crashes' \in 0..MaxCrashes
  BY LimitsAssumption DEF Restart, TypeOK
<1>. QED
  BY <1>1, <1>2 DEF Restart, TypeOK, submissionVars, verificationVars, Submitting

LEMMA TypeStep == TypeOK /\ [Next]_vars => TypeOK'
<1>. SUFFICES ASSUME TypeOK, [Next]_vars PROVE TypeOK'
  OBVIOUS
<1>1. CASE UNCHANGED vars
  BY <1>1 DEF TypeOK, vars, submissionVars, updateVars, verificationVars, historyVars
<1>. QED
  BY <1>1, SubmissionTypes, StatusTypes, VerificationTypes, RestartTypes DEF Next, AllDone

\* Holdings keeps its types, and no submission is in the database before its
\* request has inserted it.
THEOREM HoldingsTypeCorrect == Spec => []TypeOK
<1>1. Init => TypeOK
  BY TypeInit
<1>2. TypeOK /\ [Next]_vars => TypeOK'
  BY TypeStep
<1>. QED
  BY <1>1, <1>2, PTL DEF Spec
=============================================================================
