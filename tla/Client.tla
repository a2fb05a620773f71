------------------------------- MODULE Client -------------------------------
(***************************************************************************)
(* One tab of the web client: its stores of the user, of funding and of    *)
(* holdings, the pages that call them, and the calls to the server.        *)
(*                                                                         *)
(* A call is one function of a store: a request, for most of them followed *)
(* by loadCurrentExchange, each answered with the data of whoever is       *)
(* signed in by the cookies when it is sent.  Of an exchange and of        *)
(* holdings only the owner is kept, of a funding status also whether       *)
(* addresses are pending.  One action is one turn of the event loop, with  *)
(* the effects of the rendering that it causes.  Messages about errors and *)
(* the loading flag of the user store are left out.                        *)
(***************************************************************************)
EXTENDS Naturals

CONSTANTS
    Users,         \* exchange users, each of an exchange of its own
    MaxCalls,      \* bound: calls under way at once
    MaxSteps,      \* bound: things the user does
    MaxFails,      \* bound: requests or answers that are lost or refused
    None

ASSUME UsersAssumption == None \notin Users
ASSUME BoundsAssumption == MaxCalls \in Nat \ {0} /\ MaxSteps \in Nat /\ MaxFails \in Nat

VARIABLES
    session,       \* who is signed in, as the user store says
    cookies,       \* who is signed in, as the browser's cookies say
    page,          \* the page that is open
    atMount,       \* the exchange the funding page has had since it was opened
    exchange,      \* user store: owner of currentExchange
    processing, working, mode, status,     \* funding store
    holdings, holdingsWorking,             \* holdings store
    calls,
    pending,       \* server: whose exchange has pending addresses
    steps, fails,  \* bounds
    straddled,     \* history: a call was under way when its user left, by a sign-out or
                   \* another's sign-in
    kept,          \* history: a sign-in over a session has left the exchange of that one
    interrupted,   \* history: another call ended the work of a submission
    lost,          \* history: a reload cut short what was to reset isWorking
    blind          \* history: the last change came without the status of who is signed in

users == <<session, cookies, page, atMount>>
fundingStore == <<processing, working, mode, status>>
holdingsStore == <<holdings, holdingsWorking>>
bounds == <<steps, fails>>
vars == <<users, exchange, fundingStore, holdingsStore, calls, pending, bounds,
          straddled, kept, interrupted, lost, blind>>

Slots == 1..MaxCalls
Status == [of: Users, pending: BOOLEAN]
Funding == {"update", "submit", "cancel", "delete", "refresh", "refreshAddress"}
Kinds == Funding \cup {"load", "holdings", "submitHoldings"}
\* The server's part of a call, or its lack, and then that of the data of the user,
\* which nobody else changes.  The calls that Works names are answered with a status.
Stages == {"sent", "orphan", "served", "answered", "failed", "loading", "refused"}
Free == [kind |-> "none", stage |-> "free", of |-> None, answer |-> None]
Call == [kind: Kinds, stage: Stages, of: Users \cup {None}, answer: Status \cup {None}] \cup {Free}

TypeOK ==
    /\ session \in Users \cup {None} /\ cookies \in Users \cup {None}
    /\ session # None => cookies = session
    /\ page \in {"other", "holdings", "funding", "blank"}
    /\ atMount \in Users \cup {None} /\ exchange \in Users \cup {None}
    /\ processing \in BOOLEAN /\ working \in BOOLEAN /\ holdingsWorking \in BOOLEAN
    /\ mode \in {"showForm", "showPending", "showCurrent"}
    /\ status \in Status \cup {None} /\ holdings \in Users \cup {None}
    /\ calls \in [Slots -> Call]
    /\ pending \in [Users -> BOOLEAN]
    /\ steps \in 0..MaxSteps /\ fails \in 0..MaxFails
    /\ {straddled, kept, interrupted, lost, blind} \subseteq BOOLEAN

\* The funding page shows the table, the status and the widget that polls.
Mounted == session # None /\ page = "funding" /\ mode # "showForm"
\* A call that the tab waits for.
Here(call) == call.stage \notin {"free", "orphan"}
Submitting(call) == Here(call) /\ call.kind = "submit"

UnusedIn(cs) == {c \in Slots : cs[c] = Free}
BeginAt(cs, kind, stage, user) ==
    [cs EXCEPT ![CHOOSE c \in UnusedIn(cs) : TRUE] =
        [kind |-> kind, stage |-> stage, of |-> user, answer |-> None]]
\* To ask for the status makes the server do nothing but answer.
First(kind) == IF kind = "update" THEN "served" ELSE IF kind \in Funding THEN "sent" ELSE "loading"
Begin(cs, kind, user) == BeginAt(cs, kind, First(kind), user)
Without(c) == [calls EXCEPT ![c] = Free]

\* The effects of the widget: it asks for the status when it is mounted and when
\* isProcessing has changed.
\* Mutant of Polls: when isProcessing has changed only.
PollsOnChange == Mounted' /\ processing' # processing
Polls == Mounted' /\ (~Mounted \/ processing' # processing)

\* isWorking after the end of a call.  Mutant: a cancellation leaves it.
Works == {"update", "submit", "cancel"}
WorkLeftByCancel(kind) == working /\ kind \notin Works \ {"cancel"}
WorkLeft(kind) == working /\ kind \notin Works

\* After what a handler leaves of the calls and of isWorking.
Render(cs, w, unsure) ==
    /\ Polls => UnusedIn(cs) # {}
    /\ calls' = IF Polls THEN Begin(cs, "update", cookies) ELSE cs
    /\ working' = (w \/ Polls)
    /\ blind' = (~Polls /\ (blind \/ unsure))
    /\ lost' = (lost /\ w /\ ~Polls)
    /\ interrupted' = (interrupted \/
                        (working /\ ~w /\ \E c \in Slots : Submitting(cs[c])))

User == steps < MaxSteps /\ steps' = steps + 1
-----------------------------------------------------------------------------
\* signIn, over whatever session there is: the pages for signing in and for a new
\* password are open to everyone, and the stores stay as they are.  The home page then
\* loads the exchange.  Mutant: before the server has answered with the cookies.
SignInEarly(u) ==
    /\ User
    /\ page # "blank" /\ UnusedIn(calls) # {}
    /\ session' = u /\ page' = "other" /\ atMount' = None
    /\ calls' = Begin(calls, "load", u)
    /\ straddled' = (straddled \/ (u # session /\ \E c \in Slots : Here(calls[c])))
    /\ kept' = (exchange \notin {None, u})
    /\ UNCHANGED <<cookies, exchange, fundingStore, holdingsStore, pending, fails,
                   interrupted, lost, blind>>
SignIn(u) ==
    /\ User
    /\ page # "blank" /\ UnusedIn(calls) # {}
    /\ session' = u /\ cookies' = u /\ page' = "other" /\ atMount' = None
    /\ calls' = Begin(calls, "load", u)
    /\ straddled' = (straddled \/ (u # session /\ \E c \in Slots : Here(calls[c])))
    /\ kept' = (exchange \notin {None, u})
    /\ UNCHANGED <<exchange, fundingStore, holdingsStore, pending, fails,
                   interrupted, lost, blind>>

\* Mutant of SignOut: the exchange stays.
SignOutOnly ==
    /\ User
    /\ session # None /\ session' = None
    /\ page' = IF page = "blank" THEN page ELSE "other"
    /\ atMount' = None /\ kept' = FALSE
    /\ straddled' = (straddled \/ \E c \in Slots : Here(calls[c]))
    /\ UNCHANGED <<cookies, exchange, fundingStore, holdingsStore, calls, pending, fails,
                   interrupted, lost, blind>>

\* signOut, of the user or of the timer: the cookies and the other stores stay.
SignOut ==
    /\ User
    /\ session # None /\ session' = None
    /\ exchange' = None
    /\ page' = IF page = "blank" THEN page ELSE "other"
    /\ atMount' = None /\ kept' = FALSE
    /\ straddled' = (straddled \/ \E c \in Slots : Here(calls[c]))
    /\ UNCHANGED <<cookies, fundingStore, holdingsStore, calls, pending, fails,
                   interrupted, lost, blind>>

OpenFunding ==
    /\ User
    /\ session # None /\ page \in {"other", "holdings"}
    /\ page' = "funding" /\ atMount' = exchange
    /\ UNCHANGED <<session, processing, mode>>
    /\ Render(calls, working, FALSE)
    /\ UNCHANGED <<cookies, exchange, status, holdingsStore, pending, fails, straddled, kept>>

\* Mutant of LoadHoldings: the flag is left as it is.
LoadHoldingsQuietly == UNCHANGED holdingsWorking
LoadHoldings == holdingsWorking' = TRUE

\* Any page but that of funding comes up, with the calls cs under way: the exchange
\* page loads the exchange, the holdings page the holdings and the exchange, others
\* load nothing.
Enter(cs) ==
    /\ atMount' = None
    /\ \/ /\ page' = "other"
          /\ calls' = cs
          /\ UNCHANGED holdingsWorking
       \/ /\ session # None /\ UnusedIn(cs) # {}
          /\ page' = "other"
          /\ calls' = Begin(cs, "load", cookies)
          /\ UNCHANGED holdingsWorking
       \/ /\ session # None /\ \E c, d \in UnusedIn(cs) : c # d
          /\ page' = "holdings"
          /\ calls' = Begin(Begin(cs, "holdings", cookies), "load", cookies)
          /\ LoadHoldings

OpenPage ==
    /\ User
    /\ session # None /\ page # "blank"
    /\ Enter(calls)
    /\ page' = "holdings" => page # "holdings"
    /\ UNCHANGED <<session, cookies, exchange, fundingStore, holdings, pending, fails,
                   straddled, kept, interrupted, lost, blind>>

\* createHoldingsSubmission
SubmitHoldings ==
    /\ User
    /\ session # None /\ page = "holdings" /\ ~holdingsWorking /\ UnusedIn(calls) # {}
    /\ holdingsWorking' = TRUE
    /\ calls' = Begin(calls, "submitHoldings", cookies)
    /\ UNCHANGED <<users, exchange, fundingStore, holdings, pending, fails,
                   straddled, kept, interrupted, lost, blind>>
-----------------------------------------------------------------------------
\* Import CSV and Back
ShowForm ==
    /\ User
    /\ Mounted /\ ~processing
    /\ mode' = "showForm"
    /\ UNCHANGED <<users, exchange, processing, working, status, holdingsStore, calls, pending,
                   fails, straddled, kept, interrupted, lost, blind>>

Back ==
    /\ User
    /\ session # None /\ page = "funding" /\ mode = "showForm" /\ ~working
    /\ mode' = "showCurrent"
    /\ UNCHANGED <<users, processing>>
    /\ Render(calls, working, FALSE)
    /\ UNCHANGED <<exchange, status, holdingsStore, pending, fails, straddled, kept>>

\* createFundingSubmission; mutant: the button is not disabled while working.
SubmitAgain ==
    /\ User
    /\ session # None /\ page = "funding" /\ mode = "showForm" /\ UnusedIn(calls) # {}
    /\ processing' = TRUE /\ working' = TRUE
    /\ calls' = Begin(calls, "submit", cookies)
    /\ UNCHANGED <<users, exchange, mode, status, holdingsStore, pending, fails,
                   straddled, kept, interrupted, lost, blind>>
Submit ==
    /\ User
    /\ session # None /\ page = "funding" /\ mode = "showForm" /\ ~working /\ UnusedIn(calls) # {}
    /\ processing' = TRUE /\ working' = TRUE
    /\ calls' = Begin(calls, "submit", cookies)
    /\ UNCHANGED <<users, exchange, mode, status, holdingsStore, pending, fails,
                   straddled, kept, interrupted, lost, blind>>

CancelPending ==
    /\ User
    /\ Mounted /\ processing /\ UnusedIn(calls) # {}
    /\ working' = TRUE
    /\ calls' = Begin(calls, "cancel", cookies)
    /\ UNCHANGED <<users, exchange, processing, mode, status, holdingsStore, pending, fails,
                   straddled, kept, interrupted, lost, blind>>

DeleteAddress ==
    /\ User
    /\ Mounted /\ exchange # None /\ UnusedIn(calls) # {}
    /\ processing' = TRUE
    /\ UNCHANGED <<users, mode>>
    /\ Render(Begin(calls, "delete", cookies), working, FALSE)
    /\ UNCHANGED <<exchange, status, holdingsStore, pending, fails, straddled, kept>>

\* handleRefreshAddress: no store is told.
RefreshAddress ==
    /\ User
    /\ Mounted /\ exchange # None /\ UnusedIn(calls) # {}
    /\ calls' = Begin(calls, "refreshAddress", cookies)
    /\ UNCHANGED <<users, exchange, fundingStore, holdingsStore, pending, fails,
                   straddled, kept, interrupted, lost, blind>>

\* refreshExchangeBalances of the exchange the page had when it was opened; the
\* server refuses that of another user.
RefreshExchange ==
    /\ User
    /\ Mounted /\ ~processing /\ atMount # None /\ UnusedIn(calls) # {}
    /\ processing' = TRUE
    /\ UNCHANGED <<users, mode>>
    /\ Render(BeginAt(calls, "refresh", IF atMount = cookies THEN "sent" ELSE "failed", cookies),
              working, FALSE)
    /\ UNCHANGED <<exchange, status, holdingsStore, pending, fails, straddled, kept>>

\* What is left of the calls by a reload: what the server has not done of them it
\* still does.
Orphans ==
    [c \in Slots |->
        IF calls[c].stage \in {"sent", "orphan"}
        THEN [calls[c] EXCEPT !.stage = "orphan"] ELSE Free]

\* The tab loads the client anew, at a page of any kind; the browser keeps the stores.
ReloadFunding ==
    /\ User
    /\ session # None
    /\ page' = "funding" /\ atMount' = exchange
    /\ UNCHANGED <<session, processing, mode>>
    /\ Mounted' => UnusedIn(Orphans) # {}
    /\ calls' = IF Mounted' THEN Begin(Orphans, "update", cookies) ELSE Orphans
    /\ working' = (working \/ Mounted')
    /\ blind' = (~Mounted' /\ blind)
    /\ lost' = (working /\ ~Mounted')
    /\ UNCHANGED <<cookies, exchange, status, holdingsStore, pending, fails,
                   straddled, kept, interrupted>>

ReloadPage ==
    /\ User
    /\ Enter(Orphans)
    /\ lost' = working
    /\ UNCHANGED <<session, cookies, exchange, fundingStore, holdings, pending, fails,
                   straddled, kept, interrupted, blind>>

\* The widget's interval, while isProcessing.
Interval ==
    /\ Mounted /\ processing /\ UnusedIn(calls) # {}
    /\ calls' = Begin(calls, "update", cookies)
    /\ working' = TRUE /\ blind' = FALSE
    /\ UNCHANGED <<users, exchange, processing, mode, status, holdingsStore, pending, bounds,
                   straddled, kept, interrupted, lost>>
-----------------------------------------------------------------------------
\* What a call may leave pending of its user's addresses.
Effects(call) ==
    CASE call.kind = "submit" -> BOOLEAN
      [] call.kind = "cancel" -> {FALSE}
      [] call.kind \in {"delete", "refreshAddress"} -> {FALSE, pending[call.of]}
      [] call.kind = "refresh" -> {TRUE, pending[call.of]}
      [] OTHER -> {pending[call.of]}

\* The server does what it is asked, and then, where it answers with the status, reads
\* that.
Serve(c) ==
    /\ calls[c].stage \in {"sent", "orphan"}
    /\ \E p \in Effects(calls[c]) : pending' = [pending EXCEPT ![calls[c].of] = p]
    /\ calls' = IF calls[c].stage = "orphan" THEN Without(c)
                ELSE [calls EXCEPT ![c].stage =
                          IF calls[c].kind \in Works THEN "served" ELSE "answered"]
    /\ blind' = (blind \/ calls[c].stage = "orphan")
    /\ UNCHANGED <<users, exchange, fundingStore, holdingsStore, bounds,
                   straddled, kept, interrupted, lost>>

Answer(c) ==
    /\ calls[c].stage = "served"
    /\ calls' = [calls EXCEPT ![c].stage = "answered",
                              ![c].answer = [of |-> calls[c].of, pending |-> pending[calls[c].of]]]
    /\ UNCHANGED <<users, exchange, fundingStore, holdingsStore, pending, bounds,
                   straddled, kept, interrupted, lost, blind>>

\* A request or its answer is lost, or the server refuses it.
Fail(c) ==
    /\ fails < MaxFails /\ fails' = fails + 1
    /\ calls[c].stage \in {"sent", "served", "answered", "loading"}
    /\ calls' = [calls EXCEPT ![c].stage =
                    IF calls[c].stage = "loading" THEN "refused" ELSE "failed"]
    /\ UNCHANGED <<users, exchange, fundingStore, holdingsStore, pending, steps,
                   straddled, kept, interrupted, lost, blind>>

\* The execution cycle settles what is pending.
Settle(u) ==
    /\ pending[u]
    /\ pending' = [pending EXCEPT ![u] = FALSE]
    /\ UNCHANGED <<users, exchange, fundingStore, holdingsStore, calls, bounds,
                   straddled, kept, interrupted, lost, blind>>
-----------------------------------------------------------------------------
\* An answer, after which the call goes on to load the exchange.
Continue(c) ==
    /\ calls[c].stage = "answered" /\ calls[c].kind # "refresh"
    /\ calls' = [calls EXCEPT ![c].stage = "loading", ![c].of = cookies]
    /\ UNCHANGED <<users, exchange, fundingStore, holdingsStore, pending, bounds,
                   straddled, kept, interrupted, lost, blind>>

HoldingsLoaded(c) ==
    /\ calls[c].stage \in {"loading", "refused"} /\ calls[c].kind = "holdings"
    /\ holdings' = IF calls[c].stage = "loading" THEN calls[c].of ELSE None
    /\ holdingsWorking' = FALSE
    /\ calls' = Without(c)
    /\ UNCHANGED <<users, exchange, fundingStore, pending, bounds,
                   straddled, kept, interrupted, lost, blind>>

\* The form goes on to load the exchange.
HoldingsSubmitted(c) ==
    /\ calls[c].stage \in {"loading", "refused"} /\ calls[c].kind = "submitHoldings"
    /\ holdings' = IF calls[c].stage = "loading" THEN calls[c].of ELSE holdings
    /\ holdingsWorking' = FALSE
    /\ calls' = Begin(Without(c), "load", cookies)
    /\ UNCHANGED <<users, exchange, fundingStore, pending, bounds,
                   straddled, kept, interrupted, lost, blind>>

Refreshed(c) ==
    /\ calls[c].stage = "answered" /\ calls[c].kind = "refresh"
    /\ processing' = FALSE
    /\ UNCHANGED <<users, mode>>
    /\ Render(Without(c), working, TRUE)
    /\ UNCHANGED <<exchange, status, holdingsStore, pending, bounds, straddled, kept>>

FundingFailed(c) ==
    /\ calls[c].stage = "failed" /\ calls[c].kind \in Funding
    /\ processing' = (processing /\ calls[c].kind \notin {"submit", "delete"})
    /\ UNCHANGED <<users, mode>>
    /\ Render(Without(c), WorkLeft(calls[c].kind), TRUE)
    /\ UNCHANGED <<exchange, status, holdingsStore, pending, bounds, straddled, kept>>

\* It ends without the status after it of the exchange of who is signed in.
Unsure(call) ==
    \/ call.kind \in {"delete", "refreshAddress", "cancel"}
    \/ call.kind \in Works /\ call.answer.of # session

\* The exchange, and the end of the call.  The components of the funding page use
\* other hooks with an exchange than without: when one comes or goes under them,
\* React gives up the page.
Loaded(c) ==
    LET k == calls[c].kind
        answer == calls[c].answer
    IN /\ calls[c].stage \in {"loading", "refused"} /\ k \in Funding \cup {"load"}
       /\ exchange' = IF calls[c].stage = "loading" THEN calls[c].of ELSE None
       /\ page' = IF Mounted /\ (exchange = None) # (exchange' = None) THEN "blank" ELSE page
       /\ processing' = IF k = "update" THEN answer.pending
                        ELSE k = "submit" \/ (processing /\ k \notin {"cancel", "delete"})
       /\ mode' = IF k = "submit" \/ (k = "update" /\ answer.pending) THEN "showPending"
                  ELSE IF k = "update" THEN "showCurrent" ELSE mode
       /\ status' = IF k \in Works THEN answer ELSE status
       /\ UNCHANGED <<session, cookies, atMount>>
       /\ kept' = (kept /\ atMount \notin {None, session})
       /\ Render(Without(c), WorkLeft(k), Unsure(calls[c]))
       /\ UNCHANGED <<holdingsStore, pending, bounds, straddled>>

\* A tab just opened, with what the browser has stored of a user who is signed in.
Init ==
    /\ session \in Users \cup {None} /\ cookies = session /\ exchange = session
    /\ page = "other" /\ atMount = None
    /\ processing = FALSE /\ working = FALSE /\ mode = "showCurrent" /\ status = None
    /\ holdings = None /\ holdingsWorking = TRUE
    /\ calls = [c \in Slots |-> Free]
    /\ pending \in [Users -> BOOLEAN]
    /\ steps = 0 /\ fails = 0
    /\ straddled = FALSE /\ kept = FALSE /\ interrupted = FALSE /\ lost = FALSE /\ blind = FALSE

Receive(c) ==
    \/ Continue(c) \/ HoldingsLoaded(c) \/ HoldingsSubmitted(c)
    \/ Refreshed(c) \/ FundingFailed(c) \/ Loaded(c)

Next ==
    \/ \E u \in Users : SignIn(u) \/ Settle(u)
    \/ SignOut \/ OpenFunding \/ OpenPage \/ SubmitHoldings
    \/ ShowForm \/ Back \/ Submit \/ CancelPending \/ DeleteAddress \/ RefreshAddress
    \/ RefreshExchange \/ ReloadFunding \/ ReloadPage \/ Interval
    \/ \E c \in Slots : Serve(c) \/ Answer(c) \/ Fail(c) \/ Receive(c)

Spec == Init /\ [][Next]_vars

\* The server answers, the tab runs, the interval goes off, the cycle ends.
Fairness ==
    /\ WF_vars(Interval)
    /\ \A u \in Users : WF_vars(Settle(u))
    /\ \A c \in Slots : WF_vars(Serve(c) \/ Answer(c) \/ Receive(c))

FairSpec == Spec /\ Fairness
-----------------------------------------------------------------------------
\* The exchange shown is that of who is signed in, as is the one a page keeps for its
\* refreshes, but in two cases.  A call that was under way when its user left brings
\* back what signOut has cleared (use-store.ts:91, 115).  And signIn clears nothing
\* (use-store.ts:75): over another's session their exchange stays until the first
\* load ends, and on a funding page opened before that until it is left
\* (funding-page.tsx:39).
ExchangeIsOwn == straddled \/ kept \/ {exchange, atMount} \subseteq {None, session}

\* The holdings are those of who is signed in whenever the page goes by them, in its
\* choice between the form and the status (holdings-page.tsx:32, 36): neither signIn
\* nor signOut clears them, but every visit loads them again.  Unless a call was
\* under way when its user left: its answer may come last (use-holding-store.ts:66).
HoldingsAreOwn ==
    straddled \/ page # "holdings" \/ holdingsWorking \/ holdings \in {None, session}

\* isWorking, which locks the form and is kept through a reload, is set by a call under
\* way that will reset it.  It is not after a reload that cut that call short, whether
\* a poll or a submission, and only as long as no table is shown: the first poll
\* resets it, but a form that is shown stays locked (use-funding-store.ts:55, 109).
WorkIsUnderWay ==
    working => \/ \E c \in Slots : Here(calls[c]) /\ calls[c].kind \in Works
               \/ lost /\ ~Mounted

\* One submission at a time, unless a call that ended meanwhile has unlocked the
\* form (funding-submission-form.tsx:92).
OneSubmission ==
    interrupted \/ \A c, d \in Slots : Submitting(calls[c]) /\ Submitting(calls[d]) => c = d

\* In the end an open funding page shows what the server has, whatever calls crossed a
\* sign-out or a sign-in, unless the last to end without a poll after it had no status
\* to show, had an older one than a poll or that of another user, failed, or was lost
\* in a reload (live-funding-status-widget.tsx:14).
StatusShown ==
    <>[](Mounted /\ ~blind =>
            /\ status = [of |-> session, pending |-> pending[session]]
            /\ processing = pending[session])
=============================================================================
