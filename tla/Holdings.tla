------------------------------ MODULE Holdings ------------------------------
(***************************************************************************)
(* What the exchanges owe and whether their funds cover it: the holdings   *)
(* submissions, the status updateStatus gives each exchange, and the       *)
(* verifications customers ask for, which rest on both.                    *)
(*                                                                         *)
(* As in Funding, one action is one database call with the code up to the  *)
(* next, and any number of requests run beside each other.  A request      *)
(* inserts at most one submission, which is known by the request: the      *)
(* collections holdingsSubmissions and holdings are given by the sets      *)
(* "current" and "live" of those that have isCurrent set.  The on-chain    *)
(* funds come from Funding and change here at any time.                    *)
(***************************************************************************)
EXTENDS Integers, FiniteSets

CONSTANTS
    Exchanges,     \* exchange ids
    Customers,     \* who looks for holdings, by uid or e-mail
    Bodies,        \* bound: the bodies of the submissions
    Sums,          \* bound: what the active funding addresses may add up to
    Requests,      \* bound: the HTTP requests of a behaviour
    Operations,    \* the kinds of request that are made
    Outages,       \* whether sending mail may fail
    MaxCrashes     \* bound: restarts of the API process

None == -1

\* What validateHoldings accepts: the sum of the holdings, and who has one.
Body == [total: Nat, customers: SUBSET Customers]

ASSUME ExchangesAssumption == Exchanges # {}
ASSUME BodiesAssumption == Bodies # {} /\ Bodies \subseteq Body
ASSUME SumsAssumption == Sums \subseteq Nat
ASSUME LimitsAssumption == Outages \in BOOLEAN /\ MaxCrashes \in Nat

VARIABLES
    current,       \* submissions with isCurrent
    live,          \* submissions whose holdings have isCurrent
    funding,       \* per exchange the sum of its ACTIVE addresses, None without any
    doc,           \* the exchange documents
    pc,            \* where each request is
    job,           \* the exchange it is about and the body it submits
    seenFunds,     \* what updateStatus has read for it: the sum
    seenHoldings,  \* and totalHoldings of the current submission
    by,            \* what a verification looks for: a uid or an e-mail
    toCheck,       \* submissions with holdings verifyExchanges is to look at
    verified,      \* those it has verified
    answer,        \* the status of the verification document, if there is one
    crashes,
    met,           \* history: requests others have come between, see below
    mixed,         \* history: exchanges whose submissions may be mixed up
    stale,         \* history: exchanges whose document may be out of date
    calm           \* history: <<r, e>> where e has not changed since r's lookup

submissionVars == <<current, live>>
updateVars == <<doc, seenFunds, seenHoldings>>
verificationVars == <<by, toCheck, verified, answer>>
historyVars == <<met, mixed, stale, calm>>
vars == <<submissionVars, funding, updateVars, pc, job, verificationVars, crashes, historyVars>>

Submitting == {"clearHoldings", "insertSubmission", "insertHoldings"}
Updating == {"readHoldings", "record"}
Verifying == {"check", "save", "mail", "confirm"}
Labels == {"ready", "readFunds", "done"} \cup Submitting \cup Updating \cup Verifying

Job == [exch: Exchanges, body: Bodies]

Of(e, S) == {id \in S : job[id].exch = e}

Receives(r, kind) == pc[r] = "ready" /\ kind \in Operations

Goto(r, label) == pc' = [pc EXCEPT ![r] = label]

At(e, labels) == {q \in Requests : pc[q] \in labels /\ job[q].exch = e}

\* Nothing that ends in an updateStatus of e is under way.
Quiet(e) == At(e, Submitting \cup Updating \cup {"readFunds"}) = {}

\* Exchange e is about to change.
Stir(e) == calm' = {p \in calm : p[2] # e}

\* r comes between those of e at the labels, and they between it.
Meet(r, e, labels) ==
    met' = IF At(e, labels) = {} THEN met ELSE met \cup At(e, labels) \cup {r}

----------------------------------------------------------------------------
(* Holdings submissions.                                                   *)

\* Faulty variant: the submission is inserted before the old ones are cleared.
InsertFirst(r) ==
    /\ Receives(r, "submit")
    /\ \E e \in Exchanges, b \in Bodies :
         /\ job' = [job EXCEPT ![r] = [exch |-> e, body |-> b]]
         /\ current' = (current \ Of(e, current)) \cup {r}
         /\ Meet(r, e, Submitting)
         /\ Stir(e)
    /\ Goto(r, "clearHoldings")
    /\ UNCHANGED <<live, funding, updateVars, verificationVars, crashes, mixed, stale>>

\* The old submissions are cleared before anything is inserted.
Submit(r) ==
    /\ Receives(r, "submit")
    /\ \E e \in Exchanges, b \in Bodies :
         /\ job' = [job EXCEPT ![r] = [exch |-> e, body |-> b]]
         /\ current' = current \ Of(e, current)
         /\ Meet(r, e, Submitting)
         /\ Stir(e)
    /\ Goto(r, "clearHoldings")
    /\ UNCHANGED <<live, funding, updateVars, verificationVars, crashes, mixed, stale>>

\* Faulty variant: the holdings of the submissions that are current, of which
\* there are none any more.
ClearCurrentHoldings(r) ==
    /\ pc[r] = "clearHoldings"
    /\ live' = live \ Of(job[r].exch, current)
    /\ Goto(r, "insertSubmission")
    /\ UNCHANGED <<current, funding, updateVars, job, verificationVars, crashes, historyVars>>

ClearHoldings(r) ==
    /\ pc[r] = "clearHoldings"
    /\ live' = live \ Of(job[r].exch, live)
    /\ Goto(r, "insertSubmission")
    /\ UNCHANGED <<current, funding, updateVars, job, verificationVars, crashes, historyVars>>

InsertSubmission(r) ==
    /\ pc[r] = "insertSubmission"
    /\ current' = current \cup {r}
    /\ Goto(r, "insertHoldings")
    /\ UNCHANGED <<live, funding, updateVars, job, verificationVars, crashes, historyVars>>

\* Faulty variant: updateStatus is not called.
InsertHoldingsOnly(r) ==
    /\ pc[r] = "insertHoldings"
    /\ live' = live \cup {r}
    /\ mixed' = IF r \in met THEN mixed \cup {job[r].exch} ELSE mixed \ {job[r].exch}
    /\ met' = met \ {r}
    /\ Goto(r, "done")
    /\ UNCHANGED <<current, funding, updateVars, job, verificationVars, crashes, stale, calm>>

\* A submission nothing has come between sorts its exchange out.
InsertHoldings(r) ==
    /\ pc[r] = "insertHoldings"
    /\ live' = live \cup {r}
    /\ mixed' = IF r \in met THEN mixed \cup {job[r].exch} ELSE mixed \ {job[r].exch}
    /\ met' = met \ {r}
    /\ Goto(r, "readFunds")
    /\ UNCHANGED <<current, funding, updateVars, job, verificationVars, crashes, stale, calm>>

\* The holdings stay as they are, and so does the status.  Cancelling a
\* submission that is not current changes nothing.
Cancel(r) ==
    /\ Receives(r, "cancel")
    /\ \E id \in current :
         LET e == job[id].exch
         IN  /\ current' = current \ {id}
             /\ met' = met \cup At(e, Submitting \cup Updating)
             /\ mixed' = mixed \cup {e}
             /\ stale' = stale \cup {e}
             /\ Stir(e)
    /\ Goto(r, "done")
    /\ UNCHANGED <<live, funding, updateVars, job, verificationVars, crashes>>

----------------------------------------------------------------------------
(* Funding, and the status of an exchange.                                 *)

\* A batch of the execution cycle, cancelPending, deleteAddress and
\* refreshAddress change the active rows and then call updateStatus.
ChangeFunding(r) ==
    /\ Receives(r, "fund")
    /\ \E e \in Exchanges, f \in Sums \cup {None} :
         /\ f # funding[e]
         /\ funding' = [funding EXCEPT ![e] = f]
         /\ job' = [job EXCEPT ![r].exch = e]
         /\ Stir(e)
    /\ Goto(r, "readFunds")
    /\ UNCHANGED <<submissionVars, updateVars, verificationVars, crashes, met, mixed, stale>>

\* refreshExchangeBalances and a submission of addresses that are known or
\* resetFunding leave the status to a later batch.
QueueFunding(r) ==
    /\ Receives(r, "queue")
    /\ \E e \in Exchanges, f \in Sums \cup {None} :
         /\ f # funding[e]
         /\ funding' = [funding EXCEPT ![e] = f]
         /\ met' = met \cup At(e, Updating)
         /\ stale' = stale \cup {e}
         /\ Stir(e)
    /\ Goto(r, "done")
    /\ UNCHANGED <<submissionVars, updateVars, job, verificationVars, crashes, mixed>>

ReadFunds(r) ==
    /\ pc[r] = "readFunds"
    /\ seenFunds' = [seenFunds EXCEPT ![r] = funding[job[r].exch]]
    /\ Meet(r, job[r].exch, Updating)
    /\ Goto(r, "readHoldings")
    /\ UNCHANGED <<submissionVars, funding, doc, seenHoldings, job, verificationVars, crashes,
                   mixed, stale, calm>>

\* totalHoldings of the current submissions of e, None without any.
Totals(e) ==
    IF Of(e, current) = {} THEN {None} ELSE {job[id].body.total : id \in Of(e, current)}

\* findOne: any current submission.
ReadHoldings(r) ==
    /\ pc[r] = "readHoldings"
    /\ \E h \in Totals(job[r].exch) : seenHoldings' = [seenHoldings EXCEPT ![r] = h]
    /\ Goto(r, "record")
    /\ UNCHANGED <<submissionVars, funding, doc, seenFunds, job, verificationVars, crashes,
                   historyVars>>

\* The reserve limit is 90 percent.
Status(f, h) ==
    CASE f = None \/ h = None -> "awaiting-data"
      [] f # None /\ h # None /\ 10 * f < 9 * h -> "insufficient-funds"
      [] OTHER -> "ok"

Entry(f, h) ==
    [status |-> Status(f, h), funds |-> IF f = None THEN 0 ELSE f, holdings |-> h]

\* An updateStatus nothing has come between brings its exchange up to date.
Record(r) ==
    /\ pc[r] = "record"
    /\ doc' = [doc EXCEPT ![job[r].exch] = Entry(seenFunds[r], seenHoldings[r])]
    /\ stale' = IF r \in met THEN stale \cup {job[r].exch} ELSE stale \ {job[r].exch}
    /\ met' = met \ {r}
    /\ seenFunds' = [seenFunds EXCEPT ![r] = None]
    /\ seenHoldings' = [seenHoldings EXCEPT ![r] = None]
    /\ Goto(r, "done")
    /\ UNCHANGED <<submissionVars, funding, job, verificationVars, crashes, mixed, calm>>

----------------------------------------------------------------------------
(* Verification.                                                           *)

\* verifyByUid and createVerification find the customer's current holdings;
\* without any both refuse.
LookUp(r) ==
    \E kind \in {"uid", "email"}, c \in Customers :
        LET found == {id \in live : c \in job[id].body.customers}
        IN  /\ Receives(r, kind)
            /\ toCheck' = [toCheck EXCEPT ![r] = found]
            /\ by' = [by EXCEPT ![r] = kind]
            /\ calm' = calm \cup
                 {<<r, e>> : e \in {x \in Exchanges \ (mixed \cup stale) : Quiet(x)}}
            /\ Goto(r, IF found = {} THEN "done" ELSE "check")
            /\ UNCHANGED <<submissionVars, funding, updateVars, job, verified, answer, crashes,
                           met, mixed, stale>>

\* Faulty variant: it is enough that the exchange has submitted data.
CheckData(r) ==
    /\ pc[r] = "check"
    /\ \E id \in toCheck[r] :
         LET V == verified[r] \cup
                    (IF doc[job[id].exch].status # "awaiting-data" THEN {id} ELSE {})
             rest == toCheck[r] \ {id}
         IN  /\ verified' = [verified EXCEPT ![r] = V]
             /\ toCheck' = [toCheck EXCEPT ![r] = rest]
             /\ Goto(r, IF rest # {} THEN "check"
                        ELSE IF by[r] = "email" /\ V = {} THEN "done" ELSE "save")
    /\ UNCHANGED <<submissionVars, funding, updateVars, job, by, answer, crashes, historyVars>>

\* verifyExchanges reads one exchange after the other.  With nothing verified
\* createVerification refuses; verifyByUid goes on.
Check(r) ==
    /\ pc[r] = "check"
    /\ \E id \in toCheck[r] :
         LET V == verified[r] \cup (IF doc[job[id].exch].status = "ok" THEN {id} ELSE {})
             rest == toCheck[r] \ {id}
         IN  /\ verified' = [verified EXCEPT ![r] = V]
             /\ toCheck' = [toCheck EXCEPT ![r] = rest]
             /\ Goto(r, IF rest # {} THEN "check"
                        ELSE IF by[r] = "email" /\ V = {} THEN "done" ELSE "save")
    /\ UNCHANGED <<submissionVars, funding, updateVars, job, by, answer, crashes, historyVars>>

\* By uid the document says SUCCESS at once, by e-mail it says RECEIVED.
Save(r) ==
    /\ pc[r] = "save"
    /\ answer' = [answer EXCEPT ![r] = IF by[r] = "uid" THEN "success" ELSE "received"]
    /\ Goto(r, IF by[r] = "uid" THEN "done" ELSE "mail")
    /\ UNCHANGED <<submissionVars, funding, updateVars, job, by, toCheck, verified, crashes,
                   historyVars>>

Mail(r) ==
    /\ pc[r] = "mail"
    /\ Goto(r, "confirm") \/ (Outages /\ Goto(r, "done"))
    /\ UNCHANGED <<submissionVars, funding, updateVars, job, verificationVars, crashes,
                   historyVars>>

Confirm(r) ==
    /\ pc[r] = "confirm"
    /\ answer' = [answer EXCEPT ![r] = "success"]
    /\ Goto(r, "done")
    /\ UNCHANGED <<submissionVars, funding, updateVars, job, by, toCheck, verified, crashes,
                   historyVars>>

----------------------------------------------------------------------------

\* The process restarts: the requests under way are lost.
Restart ==
    /\ crashes < MaxCrashes
    /\ crashes' = crashes + 1
    /\ pc' = [r \in Requests |-> IF pc[r] = "ready" THEN "ready" ELSE "done"]
    /\ met' = {}
    /\ mixed' = mixed \cup {e \in Exchanges : At(e, Submitting) # {}}
    /\ stale' = stale \cup {e \in Exchanges : ~Quiet(e)}
    /\ seenFunds' = [r \in Requests |-> None]
    /\ seenHoldings' = [r \in Requests |-> None]
    /\ UNCHANGED <<submissionVars, funding, doc, job, verificationVars, calm>>

\* Exchanges as createExchange leaves them.
Init ==
    /\ current = {}
    /\ live = {}
    /\ funding = [e \in Exchanges |-> None]
    /\ doc = [e \in Exchanges |->
                [status |-> "awaiting-data", funds |-> None, holdings |-> None]]
    /\ pc = [r \in Requests |-> "ready"]
    /\ job = [r \in Requests |-> CHOOSE j \in Job : TRUE]
    /\ seenFunds = [r \in Requests |-> None]
    /\ seenHoldings = [r \in Requests |-> None]
    /\ by = [r \in Requests |-> "uid"]
    /\ toCheck = [r \in Requests |-> {}]
    /\ verified = [r \in Requests |-> {}]
    /\ answer = [r \in Requests |-> "none"]
    /\ crashes = 0
    /\ met = {}
    /\ mixed = {}
    /\ stale = Exchanges
    /\ calm = {}

SubmissionStep(r) ==
    \/ Submit(r) \/ ClearHoldings(r) \/ InsertSubmission(r) \/ InsertHoldings(r) \/ Cancel(r)

StatusStep(r) ==
    ChangeFunding(r) \/ QueueFunding(r) \/ ReadFunds(r) \/ ReadHoldings(r) \/ Record(r)

VerificationStep(r) ==
    LookUp(r) \/ Check(r) \/ Save(r) \/ Mail(r) \/ Confirm(r)

AllDone == (\A r \in Requests : pc[r] = "done") /\ UNCHANGED vars

Next ==
    \/ \E r \in Requests : SubmissionStep(r) \/ StatusStep(r) \/ VerificationStep(r)
    \/ Restart
    \/ AllDone

Spec == Init /\ [][Next]_vars

----------------------------------------------------------------------------
(* Properties.                                                             *)

\* Every variable has its type, and of a submission nothing is in the database
\* before its request inserts it (createSubmission clears first).
TypeOK ==
    /\ current \subseteq Requests /\ live \subseteq Requests
    /\ funding \in [Exchanges -> Sums \cup {None}]
    /\ doc \in [Exchanges -> [status: {"awaiting-data", "insufficient-funds", "ok"},
                              funds: Nat \cup {None}, holdings: Nat \cup {None}]]
    /\ pc \in [Requests -> Labels]
    /\ job \in [Requests -> Job]
    /\ seenFunds \in [Requests -> Sums \cup {None}]
    /\ seenHoldings \in [Requests -> Nat \cup {None}]
    /\ by \in [Requests -> {"uid", "email"}]
    /\ toCheck \in [Requests -> SUBSET Requests]
    /\ verified \in [Requests -> SUBSET Requests]
    /\ answer \in [Requests -> {"none", "received", "success"}]
    /\ crashes \in 0..MaxCrashes
    /\ met \subseteq Requests
    /\ mixed \subseteq Exchanges /\ stale \subseteq Exchanges
    /\ calm \subseteq Requests \X Exchanges
    /\ \A r \in current : pc[r] \notin {"ready", "clearHoldings", "insertSubmission"}
    /\ \A r \in live : pc[r] \notin {"ready"} \cup Submitting

\* Once a submission has run with no other submission of its exchange beside it
\* and no cancellation, and until the next such disturbance, restart included,
\* the exchange has one current submission and exactly its holdings are current:
\* what overlapping submissions and crashes leave behind is repaired.
SubmissionsSettle ==
    \A e \in Exchanges \ mixed : At(e, Submitting) = {} =>
        /\ Of(e, current) = Of(e, live)
        /\ \A x, y \in Of(e, current) : x = y

\* When nothing of an exchange is under way, its document says what the active
\* addresses and the current submission say, if the last updateStatus of the
\* exchange ran with no other beside it: changes of the funds and of the
\* holdings may interleave in any other way.
StatusSettles ==
    \A e \in Exchanges \ stale : Quiet(e) =>
        \E h \in Totals(e) : doc[e] = Entry(funding[e], h)

\* A customer is told of a holding only if it is current and the chain covers
\* 90 percent of all the exchange owes, for an exchange that was settled when
\* the holdings were looked up and has not changed since.
VerifiedIsBacked ==
    \A r \in Requests : \A id \in verified[r] :
        LET e == job[id].exch
        IN  <<r, e>> \in calm =>
              /\ Of(e, current) = {id}
              /\ funding[e] # None
              /\ 10 * funding[e] >= 9 * job[id].body.total

\* A verification that succeeded has verified a holding: 'There are no verified
\* holdings for this Exchange UUID' is the answer otherwise.  verifyByUid looks
\* at the holdings it found, not at those verified.
SuccessIsVerified == \A r \in Requests : answer[r] = "success" => verified[r] # {}
=============================================================================
