---------------------------- MODULE ClientProofs ----------------------------
(***************************************************************************)
(* What a tab promises its users, for any number of users, calls, steps    *)
(* and failures.  The invariant says whose calls are under way (Owners),   *)
(* and that the form is locked while a submission is (Submissions).        *)
(***************************************************************************)
EXTENDS Client, TLAPS

\* Who asked, and the answer that a call carries on to load the exchange.
Known ==
    /\ cookies = None => session = None /\ \A c \in Slots : calls[c] = Free
    /\ \A c \in Slots :
        /\ calls[c] # Free => calls[c].of \in Users
        /\ calls[c].stage \in {"sent", "orphan", "served"} => calls[c].kind \in Funding
        /\ calls[c].stage = "answered" => calls[c].kind \in Funding
        /\ calls[c].stage \in {"answered", "loading", "refused"} /\ calls[c].kind \in Works =>
               calls[c].answer \in Status

Owners ==
    straddled \/ \A c \in Slots : Here(calls[c]) => calls[c].of = session /\ session # None

\* A submission of holdings that fails leaves the ones that were shown when it began.
Kept ==
    straddled \/ holdings \in {None, session}
        \/ \A c \in Slots : ~(Here(calls[c]) /\ calls[c].kind = "submitHoldings")

Submissions ==
    interrupted \/ working \/ \A c \in Slots : ~(Here(calls[c]) /\ calls[c].kind = "submit")

IInv ==
    /\ TypeOK /\ Known
    /\ Owners /\ ExchangeIsOwn /\ HoldingsAreOwn /\ Kept
    /\ WorkIsUnderWay /\ Submissions /\ OneSubmission

New(kind, stage, user) == [kind |-> kind, stage |-> stage, of |-> user, answer |-> None]
-----------------------------------------------------------------------------
\* A call that begins takes a slot that was free.
LEMMA Begun ==
  ASSUME NEW cs \in [Slots -> Call], UnusedIn(cs) # {},
         NEW kind \in Kinds, NEW stage \in Stages, NEW user \in Users
  PROVE  \E s \in Slots : /\ cs[s] = Free
                          /\ BeginAt(cs, kind, stage, user) =
                                 [cs EXCEPT ![s] = New(kind, stage, user)]
<1>. DEFINE s == CHOOSE c \in UnusedIn(cs) : TRUE
<1>1. s \in UnusedIn(cs)
  OBVIOUS
<1>. QED
  BY <1>1 DEF UnusedIn, BeginAt, New

LEMMA NewCall ==
  ASSUME NEW kind \in Kinds, NEW stage \in Stages, NEW user \in Users
  PROVE  New(kind, stage, user) \in Call
  BY DEF New, Call

\* What Render leaves of the calls: the ones it is given, and perhaps a poll.
LEMMA Rendered ==
  ASSUME NEW cs \in [Slots -> Call], NEW w \in BOOLEAN, NEW unsure \in BOOLEAN,
         Render(cs, w, unsure), Mounted' => cookies \in Users
  PROVE  /\ calls' \in [Slots -> Call]
         /\ \A c \in Slots : \/ calls'[c] = cs[c]
                             \/ Polls /\ cs[c] = Free /\ calls'[c] = New("update", "served", cookies)
         /\ Polls => \E c \in Slots : calls'[c] = New("update", "served", cookies)
         /\ working' = (w \/ Polls)
<1>1. CASE Polls
  <2>1. "update" \in Kinds /\ First("update") = "served" /\ "served" \in Stages /\ cookies \in Users
    BY <1>1 DEF Kinds, Funding, First, Stages, Polls
  <2>2. calls' = BeginAt(cs, "update", "served", cookies) /\ UnusedIn(cs) # {}
    BY <1>1, <2>1 DEF Render, Begin, First
  <2>3. PICK s \in Slots : /\ cs[s] = Free
                           /\ calls' = [cs EXCEPT ![s] = New("update", "served", cookies)]
    BY <2>1, <2>2, Begun
  <2>. QED
    BY <1>1, <2>1, <2>3, NewCall DEF Render
<1>2. CASE ~Polls
  BY <1>2 DEF Render
<1>. QED
  BY <1>1, <1>2
-----------------------------------------------------------------------------
\* What a step may do to a call.
Allowed(kind) ==
    /\ kind = "submitHoldings" => page = "holdings" /\ ~holdingsWorking
    /\ kind = "submit" => Submit
Begins(c) ==
    /\ cookies' \in Users /\ (session' # None \/ \E d \in Slots : Here(calls[d]))
    /\ \E kind \in Kinds :
        \E stage \in {First(kind), "failed"} :
            /\ Allowed(kind)
            /\ calls'[c] = New(kind, stage, cookies')
Served(c) ==
    /\ calls[c].stage = "sent"
    /\ calls'[c] = [calls[c] EXCEPT !.stage =
                        IF calls[c].kind \in Works THEN "served" ELSE "answered"]
Answered(c) ==
    /\ calls[c].stage = "served"
    /\ \E p \in BOOLEAN :
           calls'[c] = [calls[c] EXCEPT !.stage = "answered",
                                        !.answer = [of |-> calls[c].of, pending |-> p]]
GoesOn(c) ==
    /\ calls[c].stage = "answered" /\ cookies' = cookies
    /\ calls'[c] = [calls[c] EXCEPT !.stage = "loading", !.of = cookies]
Fails(c) ==
    \/ /\ calls[c].stage \in {"sent", "served", "answered"}
       /\ calls'[c] = [calls[c] EXCEPT !.stage = "failed"]
    \/ /\ calls[c].stage = "loading"
       /\ calls'[c] = [calls[c] EXCEPT !.stage = "refused"]
Orphaned(c) ==
    /\ calls[c].stage \in {"sent", "orphan"}
    /\ calls'[c] = [calls[c] EXCEPT !.stage = "orphan"]
Moves(c) ==
    calls'[c] \in {calls[c], Free} \/ Begins(c) \/ Served(c) \/ Answered(c)
        \/ GoesOn(c) \/ Fails(c) \/ Orphaned(c)

\* One call begins, of a user who is signed in by the cookies.
LEMMA BeginMoves ==
  ASSUME NEW cs \in [Slots -> Call], UnusedIn(cs) # {},
         NEW kind \in Kinds, Allowed(kind),
         NEW stage \in {First(kind), "failed"},
         cookies' \in Users, session' # None \/ \E d \in Slots : Here(calls[d]),
         calls' = BeginAt(cs, kind, stage, cookies')
  PROVE  calls' \in [Slots -> Call] /\ \A c \in Slots : calls'[c] = cs[c] \/ Begins(c)
<1>1. PICK s \in Slots : calls' = [cs EXCEPT ![s] = New(kind, stage, cookies')]
  BY Begun DEF First, Stages
<1>2. New(kind, stage, cookies') \in Call
  BY NewCall DEF First, Stages
<1>. QED
  BY <1>1, <1>2 DEF Begins

LEMMA RenderMoves ==
  ASSUME TypeOK, NEW cs \in [Slots -> Call], NEW w \in BOOLEAN, NEW unsure \in BOOLEAN,
         Render(cs, w, unsure), session' = session, cookies' = cookies
  PROVE  calls' \in [Slots -> Call] /\ \A c \in Slots : calls'[c] = cs[c] \/ Begins(c)
<1>1. Mounted' => cookies \in Users
  BY DEF Mounted, TypeOK
<1>2. /\ calls' \in [Slots -> Call]
      /\ \A c \in Slots : calls'[c] = cs[c] \/ (Polls /\ calls'[c] = New("update", "served", cookies))
  BY <1>1, Rendered
<1>3. "update" \in Kinds /\ First("update") = "served"
  BY DEF Kinds, Funding, First
<1>. QED
  BY <1>1, <1>2, <1>3 DEF Begins, Polls, Mounted, Allowed

\* So do those with which a page comes up.
LEMMA EnterMoves ==
  ASSUME TypeOK, NEW cs \in [Slots -> Call], Enter(cs), session' = session, cookies' = cookies
  PROVE  calls' \in [Slots -> Call] /\ \A c \in Slots : calls'[c] = cs[c] \/ Begins(c)
<1>1. CASE calls' = cs
  BY <1>1
<1>2. ASSUME session # None PROVE cookies' = cookies /\ cookies' \in Users /\ session' # None
  BY <1>2 DEF TypeOK
<1>3. /\ "load" \in Kinds /\ "holdings" \in Kinds /\ "loading" \in Stages
      /\ "loading" \in {First("load"), "failed"}
      /\ "loading" \in {First("holdings"), "failed"}
  BY DEF Kinds, Funding, First, Stages
<1>4. CASE session # None /\ UnusedIn(cs) # {} /\ calls' = Begin(cs, "load", cookies)
  <2>1. calls' = BeginAt(cs, "load", "loading", cookies')
    BY <1>4 DEF Begin, First, Funding
  <2>. QED
    BY <1>2, <1>3, <1>4, <2>1, BeginMoves DEF Allowed
<1>5. CASE /\ session # None /\ \E c, d \in UnusedIn(cs) : c # d
           /\ calls' = Begin(Begin(cs, "holdings", cookies), "load", cookies)
  <2>. DEFINE ds == Begin(cs, "holdings", cookies)
  <2>1. /\ ds = BeginAt(cs, "holdings", "loading", cookies)
        /\ calls' = BeginAt(ds, "load", "loading", cookies')
    BY <1>5 DEF Begin, First, Funding
  <2>2. PICK a, b \in UnusedIn(cs) : a # b
    BY <1>5
  <2>3. PICK s \in Slots : ds = [cs EXCEPT ![s] = New("holdings", "loading", cookies)]
    BY <1>2, <1>3, <1>5, <2>1, <2>2, Begun
  <2>4. ds \in [Slots -> Call] /\ UnusedIn(ds) # {}
    BY <1>2, <1>3, <1>5, <2>2, <2>3, NewCall DEF UnusedIn
  <2>5. calls' \in [Slots -> Call] /\ \A c \in Slots : calls'[c] = ds[c] \/ Begins(c)
    BY <1>2, <1>3, <1>5, <2>1, <2>4, BeginMoves DEF Allowed
  <2>6. \A c \in Slots : calls'[c] = ds[c] => calls'[c] = cs[c] \/ Begins(c)
    BY <1>2, <1>3, <1>5, <2>3 DEF Begins, Allowed
  <2>. QED
    BY <2>5, <2>6
<1>. QED
  BY <1>1, <1>4, <1>5 DEF Enter

\* Of the calls a reload leaves only what the server still does.
LEMMA OrphansLeft ==
  ASSUME calls \in [Slots -> Call]
  PROVE  /\ Orphans \in [Slots -> Call]
         /\ \A c \in Slots : calls'[c] = Orphans[c] => Moves(c)
<1>1. \A c \in Slots : calls[c] # Free => [calls[c] EXCEPT !.stage = "orphan"] \in Call
  BY DEF Call, Stages
<1>2. \A c \in Slots : calls[c].stage \in {"sent", "orphan"} => calls[c] # Free
  BY DEF Free
<1>. QED
  BY <1>1, <1>2 DEF Orphans, Call, Orphaned, Moves

LEMMA CallsStep ==
  ASSUME TypeOK, Known, [Next]_vars
  PROVE  calls' \in [Slots -> Call] /\ \A c \in Slots : Moves(c)
<1>. DEFINE Goal == calls' \in [Slots -> Call] /\ \A c \in Slots : Moves(c)
<1>. USE DEF users, fundingStore, holdingsStore, bounds
<1>0. calls \in [Slots -> Call] /\ (session # None => cookies \in Users)
  BY DEF TypeOK
<1>1. ASSUME NEW u \in Users, SignIn(u) PROVE Goal
  <2>1. calls' = BeginAt(calls, "load", "loading", cookies') /\ UnusedIn(calls) # {}
    BY <1>1 DEF SignIn, Begin, First, Funding
  <2>2. "load" \in Kinds /\ "loading" \in {First("load"), "failed"}
        /\ cookies' \in Users /\ session' # None
    BY <1>1, UsersAssumption DEF SignIn, Kinds, Funding, First
  <2>. QED
    BY <1>0, <2>1, <2>2, BeginMoves DEF Moves, Allowed
<1>2. ASSUME UNCHANGED calls PROVE Goal
  BY <1>0, <1>2 DEF Moves
<1>3. ASSUME OpenPage PROVE Goal
  <2>1. Enter(calls) /\ session' = session /\ cookies' = cookies
    BY <1>3 DEF OpenPage
  <2>. QED
    BY <1>0, <2>1, EnterMoves DEF Moves
<1>4. ASSUME ReloadPage PROVE Goal
  <2>1. Enter(Orphans) /\ session' = session /\ cookies' = cookies
    BY <1>4 DEF ReloadPage
  <2>2. calls' \in [Slots -> Call] /\ \A c \in Slots : calls'[c] = Orphans[c] \/ Begins(c)
    BY <1>0, <2>1, OrphansLeft, EnterMoves
  <2>. QED
    BY <1>0, <2>2, OrphansLeft DEF Moves
<1>5. ASSUME SubmitHoldings PROVE Goal
  <2>1. calls' = BeginAt(calls, "submitHoldings", "loading", cookies') /\ UnusedIn(calls) # {}
        /\ cookies' \in Users /\ session' # None
    BY <1>0, <1>5 DEF SubmitHoldings, Begin, First, Funding
  <2>2. /\ "submitHoldings" \in Kinds
        /\ "loading" \in {First("submitHoldings"), "failed"}
    BY DEF Kinds, Funding, First
  <2>3. Allowed("submitHoldings")
    BY <1>5 DEF Allowed, SubmitHoldings
  <2>. QED
    BY <1>0, <2>1, <2>2, <2>3, BeginMoves DEF Moves
<1>6. ASSUME Submit \/ CancelPending \/ RefreshAddress \/ Interval PROVE Goal
  <2>1. PICK k \in {"submit", "cancel", "refreshAddress", "update"} :
            /\ calls' = BeginAt(calls, k, First(k), cookies')
            /\ UnusedIn(calls) # {} /\ cookies' \in Users
            /\ session' # None /\ Allowed(k)
    BY <1>0, <1>6 DEF Allowed, Submit, CancelPending, RefreshAddress, Interval, Mounted, Begin
  <2>2. k \in Kinds
    BY DEF Kinds, Funding
  <2>. QED
    BY <1>0, <2>1, <2>2, BeginMoves DEF Moves
<1>7. ASSUME OpenFunding \/ Back PROVE Goal
  <2>1. Render(calls, working, FALSE) /\ session' = session /\ cookies' = cookies
        /\ working \in BOOLEAN
    BY <1>7 DEF OpenFunding, Back, TypeOK
  <2>. QED
    BY <1>0, <2>1, RenderMoves DEF Moves
<1>8. ASSUME DeleteAddress \/ RefreshExchange PROVE Goal
  <2>1. PICK k \in {"delete", "refresh"}, st \in {"sent", "failed"} :
            /\ Render(BeginAt(calls, k, st, cookies), working, FALSE) /\ UnusedIn(calls) # {}
            /\ cookies \in Users /\ session # None
            /\ session' = session /\ cookies' = cookies /\ working \in BOOLEAN
    BY <1>0, <1>8 DEF DeleteAddress, RefreshExchange, Mounted, Begin, First, Funding, TypeOK
  <2>2. k \in Kinds /\ st \in Stages /\ st \in {First(k), "failed"}
    BY DEF Kinds, Funding, First, Stages
  <2>. DEFINE cs == BeginAt(calls, k, st, cookies)
  <2>3. PICK s \in Slots : cs = [calls EXCEPT ![s] = New(k, st, cookies)]
    BY <1>0, <2>1, <2>2, Begun
  <2>4. cs \in [Slots -> Call]
    BY <1>0, <2>1, <2>2, <2>3, NewCall
  <2>5. calls' \in [Slots -> Call] /\ \A c \in Slots : calls'[c] = cs[c] \/ Begins(c)
    BY <2>1, <2>4, RenderMoves
  <2>6. \A c \in Slots : calls'[c] = cs[c] => calls'[c] = calls[c] \/ Begins(c)
    BY <1>0, <2>1, <2>2, <2>3 DEF Begins, Allowed
  <2>. QED
    BY <2>5, <2>6 DEF Moves
<1>9. ASSUME ReloadFunding PROVE Goal
  <2>1. /\ calls' = IF Mounted' THEN Begin(Orphans, "update", cookies) ELSE Orphans
        /\ Mounted' => UnusedIn(Orphans) # {}
        /\ Mounted' => cookies' \in Users /\ session' # None
        /\ cookies' = cookies
    BY <1>0, <1>9 DEF ReloadFunding, Mounted
  <2>2. CASE Mounted'
    <3>1. calls' = BeginAt(Orphans, "update", "served", cookies') /\ "update" \in Kinds
          /\ "served" \in {First("update"), "failed"}
      BY <2>1, <2>2 DEF Begin, First, Kinds, Funding
    <3>2. calls' \in [Slots -> Call] /\ \A c \in Slots : calls'[c] = Orphans[c] \/ Begins(c)
      BY <1>0, <2>1, <2>2, <3>1, OrphansLeft, BeginMoves DEF Allowed
    <3>. QED
      BY <1>0, <3>2, OrphansLeft DEF Moves
  <2>. QED
    BY <1>0, <2>1, <2>2, OrphansLeft
<1>10. ASSUME NEW c \in Slots, Serve(c) \/ Answer(c) PROVE Goal
  <2>1. calls[c] # Free /\ calls[c] \in Call /\ calls[c].of \in Users
    BY <1>0, <1>10 DEF Serve, Answer, Free, Known
  <2>2. CASE Serve(c) /\ calls[c].stage = "orphan"
    BY <1>0, <2>2 DEF Serve, Without, Moves, Call
  <2>3. CASE Serve(c) /\ calls[c].stage = "sent"
    <3>. DEFINE st == IF calls[c].kind \in Works THEN "served" ELSE "answered"
    <3>1. calls' = [calls EXCEPT ![c] = [calls[c] EXCEPT !.stage = st]]
      BY <1>0, <2>3 DEF Serve
    <3>2. [calls[c] EXCEPT !.stage = st] \in Call
      BY <2>1 DEF Call, Stages
    <3>. QED
      BY <1>0, <2>3, <3>1, <3>2 DEF Moves, Served
  <2>4. CASE Answer(c)
    <3>. DEFINE answer == [of |-> calls[c].of, pending |-> pending[calls[c].of]]
    <3>1. pending[calls[c].of] \in BOOLEAN
      BY <2>1 DEF TypeOK
    <3>2. calls' = [calls EXCEPT ![c] = [calls[c] EXCEPT !.stage = "answered", !.answer = answer]]
      BY <1>0, <2>4 DEF Answer
    <3>3. [calls[c] EXCEPT !.stage = "answered", !.answer = answer] \in Call
      BY <2>1, <3>1 DEF Call, Stages, Status
    <3>. QED
      BY <1>0, <2>4, <3>1, <3>2, <3>3 DEF Moves, Answered, Answer
  <2>. QED
    BY <1>10, <2>2, <2>3, <2>4 DEF Serve
<1>11. ASSUME NEW c \in Slots, Fail(c) PROVE Goal
  <2>. DEFINE st == IF calls[c].stage = "loading" THEN "refused" ELSE "failed"
  <2>1. calls[c] # Free /\ calls[c] \in Call
    BY <1>0, <1>11 DEF Fail, Free
  <2>2. calls' = [calls EXCEPT ![c] = [calls[c] EXCEPT !.stage = st]]
    BY <1>0, <1>11 DEF Fail
  <2>3. [calls[c] EXCEPT !.stage = st] \in Call
    BY <2>1 DEF Call, Stages
  <2>. QED
    BY <1>0, <1>11, <2>2, <2>3 DEF Fail, Moves, Fails
<1>12. ASSUME NEW c \in Slots, Continue(c) PROVE Goal
  <2>1. calls[c] # Free /\ calls[c] \in Call /\ calls[c].stage = "answered" /\ cookies' = cookies
        /\ cookies \in Users
    BY <1>0, <1>12 DEF Continue, Free, Known, TypeOK
  <2>2. calls' = [calls EXCEPT ![c] = [calls[c] EXCEPT !.stage = "loading", !.of = cookies]]
    BY <1>0, <1>12 DEF Continue
  <2>3. [calls[c] EXCEPT !.stage = "loading", !.of = cookies] \in Call
    BY <2>1 DEF Call, Stages
  <2>. QED
    BY <1>0, <2>1, <2>2, <2>3 DEF Moves, GoesOn
<1>13. \A c \in Slots : Without(c) \in [Slots -> Call] /\ \A d \in Slots : Without(c)[d] \in {calls[d], Free}
  BY <1>0 DEF Without, Call
<1>14. ASSUME NEW c \in Slots, HoldingsLoaded(c) PROVE Goal
  BY <1>13, <1>14 DEF HoldingsLoaded, Moves
<1>15. ASSUME NEW c \in Slots, HoldingsSubmitted(c) PROVE Goal
  <2>1. calls[c] # Free /\ Here(calls[c]) /\ cookies' = cookies
    BY <1>15 DEF HoldingsSubmitted, Free, Here
  <2>2. cookies' \in Users
    BY <2>1 DEF Known, TypeOK
  <2>3. UnusedIn(Without(c)) # {}
    BY <1>0 DEF Without, UnusedIn
  <2>4. calls' = BeginAt(Without(c), "load", "loading", cookies') /\ "load" \in Kinds
        /\ "loading" \in {First("load"), "failed"}
    BY <1>15, <2>1 DEF HoldingsSubmitted, Begin, First, Funding, Kinds
  <2>5. calls' \in [Slots -> Call] /\ \A d \in Slots : calls'[d] = Without(c)[d] \/ Begins(d)
    BY <1>13, <2>1, <2>2, <2>3, <2>4, BeginMoves DEF Allowed
  <2>. QED
    BY <1>13, <2>5 DEF Moves
<1>16. ASSUME NEW c \in Slots, Refreshed(c) \/ FundingFailed(c) \/ Loaded(c) PROVE Goal
  <2>1. /\ session' = session /\ cookies' = cookies
        /\ \E w \in BOOLEAN, unsure \in BOOLEAN : Render(Without(c), w, unsure)
    <3>1. working \in BOOLEAN /\ WorkLeft(calls[c].kind) \in BOOLEAN
          /\ Unsure(calls[c]) \in BOOLEAN
      BY DEF TypeOK, WorkLeft, Unsure
    <3>2. CASE Refreshed(c)
      BY <3>1, <3>2 DEF Refreshed
    <3>3. CASE FundingFailed(c)
      BY <3>1, <3>3 DEF FundingFailed
    <3>4. CASE Loaded(c)
      BY <3>1, <3>4 DEF Loaded
    <3>. QED
      BY <1>16, <3>2, <3>3, <3>4
  <2>2. calls' \in [Slots -> Call] /\ \A d \in Slots : calls'[d] = Without(c)[d] \/ Begins(d)
    BY <1>13, <2>1, RenderMoves
  <2>. QED
    BY <1>13, <2>2 DEF Moves
<1>17. ASSUME \/ SignOut \/ ShowForm \/ UNCHANGED vars \/ \E u \in Users : Settle(u)
       PROVE  Goal
  BY <1>2, <1>17 DEF SignOut, ShowForm, Settle, vars
<1>. QED
  BY <1>1, <1>3, <1>4, <1>5, <1>6, <1>7, <1>8, <1>9, <1>10, <1>11, <1>12, <1>14, <1>15, <1>16,
      <1>17
     DEF Next, Receive
-----------------------------------------------------------------------------
LEMMA CookiesStep ==
  ASSUME TypeOK, [Next]_vars
  PROVE  /\ cookies' \in Users \cup {None}
         /\ cookies' # None \/ cookies' = cookies
         /\ session' # None => cookies' = session'
         /\ session' \in Users \cup {None}
<1>1. ASSUME NEW u \in Users, SignIn(u) PROVE cookies' = u /\ session' = u
  BY <1>1 DEF SignIn
<1>2. CASE SignOut
  BY <1>2 DEF SignOut, TypeOK
<1>3. CASE UNCHANGED <<session, cookies>>
  BY <1>3 DEF TypeOK
<1>4. (\E u \in Users : SignIn(u)) \/ SignOut \/ UNCHANGED <<session, cookies>>
  BY DEF Next, Receive, Settle, OpenFunding, OpenPage, SubmitHoldings, ShowForm,
         Back, Submit, CancelPending, DeleteAddress, RefreshAddress, RefreshExchange,
         ReloadFunding, ReloadPage, Interval, Serve, Answer, Fail, Continue, HoldingsLoaded, HoldingsSubmitted, Refreshed,
         FundingFailed, Loaded, vars, users
<1>. QED
  BY <1>1, <1>2, <1>3, <1>4, UsersAssumption DEF TypeOK

LEMMA KnownStep ==
  ASSUME TypeOK, Known, [Next]_vars
  PROVE  Known'
<1>. DEFINE Fine(call) ==
        /\ call # Free => call.of \in Users
        /\ call.stage \in {"sent", "orphan", "served"} => call.kind \in Funding
        /\ call.stage = "answered" => call.kind \in Funding
        /\ call.stage \in {"answered", "loading", "refused"} /\ call.kind \in Works =>
               call.answer \in Status
<1>1. \A c \in Slots : Fine(calls[c])
  BY DEF Known
<1>2. ASSUME NEW c \in Slots PROVE Fine(calls'[c])
  <2>0. Moves(c) /\ calls[c] \in Call
    BY CallsStep DEF TypeOK
  <2>1. Fine(Free)
    BY DEF Free
  <2>2. ASSUME Begins(c) PROVE Fine(calls'[c])
    BY <2>2 DEF Begins, New, First, Funding, Works
  <2>7. ASSUME Served(c) PROVE Fine(calls'[c])
    <3>1. calls[c] # Free
      BY <2>7 DEF Served, Free
    <3>. QED
      BY <1>1, <2>0, <2>7, <3>1 DEF Served, Call
  <2>3. ASSUME Answered(c) PROVE Fine(calls'[c])
    <3>1. calls[c] # Free
      BY <2>3 DEF Answered, Free
    <3>2. PICK p \in BOOLEAN :
            calls'[c] = [calls[c] EXCEPT !.stage = "answered",
                                         !.answer = [of |-> calls[c].of, pending |-> p]]
      BY <2>3 DEF Answered
    <3>3. /\ calls'[c].of = calls[c].of /\ calls'[c].kind = calls[c].kind
          /\ calls'[c].stage = "answered"
          /\ calls'[c].answer = [of |-> calls[c].of, pending |-> p]
      BY <2>0, <3>1, <3>2 DEF Call
    <3>4. [of |-> calls[c].of, pending |-> p] \in Status
      BY <1>1, <3>1 DEF Status
    <3>. QED
      BY <1>1, <2>3, <3>1, <3>3, <3>4 DEF Answered
  <2>4. ASSUME GoesOn(c) PROVE Fine(calls'[c])
    <3>1. calls[c] # Free
      BY <2>4 DEF GoesOn, Free
    <3>2. cookies \in Users
      BY <3>1 DEF Known, TypeOK
    <3>. QED
      BY <1>1, <2>0, <2>4, <3>1, <3>2 DEF GoesOn, Call
  <2>5. ASSUME Fails(c) PROVE Fine(calls'[c])
    <3>1. calls[c] # Free
      BY <2>5 DEF Fails, Free
    <3>. QED
      BY <1>1, <2>0, <2>5, <3>1 DEF Fails, Call
  <2>6. ASSUME Orphaned(c) PROVE Fine(calls'[c])
    <3>1. calls[c] # Free
      BY <2>6 DEF Orphaned, Free
    <3>. QED
      BY <1>1, <2>0, <2>6, <3>1 DEF Orphaned, Call
  <2>. QED
    BY <1>1, <2>0, <2>1, <2>2, <2>3, <2>4, <2>5, <2>6, <2>7 DEF Moves
<1>3. cookies' = None => session' = None /\ \A c \in Slots : calls'[c] = Free
  <2>. SUFFICES ASSUME cookies' = None PROVE session' = None /\ \A c \in Slots : calls'[c] = Free
    OBVIOUS
  <2>1. cookies = None /\ session' = None
    BY CookiesStep
  <2>2. ASSUME NEW c \in Slots PROVE calls'[c] = Free
    <3>1. calls[c] = Free /\ Moves(c)
      BY <2>1, CallsStep DEF Known
    <3>. QED
      BY <3>1, UsersAssumption DEF Moves, Begins, Served, Answered, GoesOn, Fails, Orphaned, Free
  <2>. QED
    BY <2>1, <2>2
<1>. QED
  BY <1>2, <1>3 DEF Known

LEMMA TypeStep ==
  ASSUME TypeOK, Known, [Next]_vars
  PROVE  TypeOK'
<1>. DEFINE Rest ==
        /\ page' \in {"other", "holdings", "funding", "blank"}
        /\ atMount' \in Users \cup {None} /\ exchange' \in Users \cup {None}
        /\ processing' \in BOOLEAN /\ working' \in BOOLEAN /\ holdingsWorking' \in BOOLEAN
        /\ mode' \in {"showForm", "showPending", "showCurrent"}
        /\ status' \in Status \cup {None} /\ holdings' \in Users \cup {None}
        /\ pending' \in [Users -> BOOLEAN]
        /\ steps' \in 0..MaxSteps /\ fails' \in 0..MaxFails
        /\ {straddled', kept', interrupted', lost', blind'} \subseteq BOOLEAN
<1>. USE DEF users, fundingStore, holdingsStore, bounds
<1>1. ASSUME User PROVE steps' \in 0..MaxSteps
  BY <1>1, BoundsAssumption DEF User, TypeOK
<1>2. ASSUME NEW u \in Users, SignIn(u) PROVE Rest
  BY <1>1, <1>2 DEF SignIn, TypeOK
<1>3. ASSUME SignOut PROVE Rest
  BY <1>1, <1>3 DEF SignOut, TypeOK
<1>4. ASSUME OpenPage \/ ReloadPage \/ SubmitHoldings PROVE Rest
  BY <1>1, <1>4 DEF OpenPage, ReloadPage, Enter, LoadHoldings, SubmitHoldings, TypeOK
<1>5. ASSUME ShowForm \/ Submit \/ CancelPending \/ RefreshAddress PROVE Rest
  BY <1>1, <1>5 DEF ShowForm, Submit, CancelPending, RefreshAddress, TypeOK
<1>6. ASSUME NEW cs, NEW w \in BOOLEAN, NEW unsure \in BOOLEAN, Render(cs, w, unsure)
      PROVE  {working', blind', lost', interrupted'} \subseteq BOOLEAN
  BY <1>6 DEF Render, TypeOK, Polls
<1>7. ASSUME OpenFunding \/ Back \/ DeleteAddress \/ RefreshExchange PROVE Rest
  <2>1. \E cs : Render(cs, working, FALSE)
    BY <1>7 DEF OpenFunding, Back, DeleteAddress, RefreshExchange
  <2>2. {working', blind', lost', interrupted'} \subseteq BOOLEAN
    BY <1>6, <2>1 DEF TypeOK
  <2>. QED
    BY <1>1, <1>7, <2>2 DEF OpenFunding, Back, DeleteAddress, RefreshExchange, TypeOK
<1>8. ASSUME ReloadFunding PROVE Rest
  BY <1>1, <1>8 DEF ReloadFunding, TypeOK, Mounted
<1>9. ASSUME Interval PROVE Rest
  BY <1>9 DEF Interval, TypeOK
<1>10. ASSUME NEW c \in Slots, Serve(c) PROVE Rest
  <2>1. calls[c].of \in Users /\ calls[c] # Free
    BY <1>10 DEF Serve, Known, Free
  <2>2. \E p \in BOOLEAN : pending' = [pending EXCEPT ![calls[c].of] = p]
    BY <1>10, <2>1 DEF Serve, Effects, TypeOK
  <2>3. pending' \in [Users -> BOOLEAN]
    BY <2>2 DEF TypeOK
  <2>4. blind' \in BOOLEAN
    BY <1>10 DEF Serve, TypeOK
  <2>5. UNCHANGED <<users, exchange, fundingStore, holdingsStore, bounds,
                    straddled, kept, interrupted, lost>>
    BY <1>10 DEF Serve
  <2>. QED
    BY <2>3, <2>4, <2>5 DEF TypeOK
<1>17. ASSUME NEW c \in Slots, Answer(c) PROVE Rest
  BY <1>17 DEF Answer, TypeOK
<1>11. ASSUME NEW c \in Slots, Fail(c) PROVE Rest
  BY <1>11, BoundsAssumption DEF Fail, TypeOK
<1>12. ASSUME NEW u \in Users, Settle(u) PROVE Rest
  BY <1>12 DEF Settle, TypeOK
<1>13. ASSUME NEW c \in Slots, Continue(c) \/ HoldingsLoaded(c) \/ HoldingsSubmitted(c) PROVE Rest
  <2>1. calls[c].of \in Users \cup {None}
    BY DEF Known, Free
  <2>. QED
    BY <1>13, <2>1 DEF Continue, HoldingsLoaded, HoldingsSubmitted, TypeOK
<1>14. ASSUME NEW c \in Slots, Refreshed(c) \/ FundingFailed(c) PROVE Rest
  <2>1. \E w \in BOOLEAN : Render(Without(c), w, TRUE)
    <3>1. working \in BOOLEAN /\ WorkLeft(calls[c].kind) \in BOOLEAN
      BY DEF TypeOK, WorkLeft
    <3>. QED
      BY <1>14, <3>1 DEF Refreshed, FundingFailed
  <2>2. {working', blind', lost', interrupted'} \subseteq BOOLEAN
    BY <1>6, <2>1
  <2>. QED
    BY <1>14, <2>2 DEF Refreshed, FundingFailed, TypeOK
<1>15. ASSUME NEW c \in Slots, Loaded(c) PROVE Rest
  <2>1. /\ calls[c].of \in Users
        /\ calls[c].kind \in Works => calls[c].answer \in Status
    BY <1>15 DEF Loaded, Known, Free
  <2>2. {working', blind', lost', interrupted'} \subseteq BOOLEAN
    <3>1. WorkLeft(calls[c].kind) \in BOOLEAN
          /\ Unsure(calls[c]) \in BOOLEAN
      BY DEF TypeOK, WorkLeft, Unsure
    <3>. QED
      BY <1>6, <1>15, <3>1 DEF Loaded
  <2>3. mode' \in {"showForm", "showPending", "showCurrent"} /\ exchange' \in Users \cup {None}
    BY <1>15, <2>1 DEF Loaded, TypeOK
  <2>4. status' \in Status \cup {None}
    BY <1>15, <2>1 DEF Loaded, TypeOK
  <2>5. processing' \in BOOLEAN
    <3>1. calls[c].kind = "update" => calls[c].answer.pending \in BOOLEAN
      BY <2>1 DEF Status, Works
    <3>2. processing' = IF calls[c].kind = "update" THEN calls[c].answer.pending
                        ELSE calls[c].kind = "submit"
                                \/ (processing /\ calls[c].kind \notin {"cancel", "delete"})
      BY <1>15 DEF Loaded
    <3>. QED
      BY <3>1, <3>2 DEF TypeOK
  <2>. QED
    BY <1>15, <2>2, <2>3, <2>4, <2>5 DEF Loaded, TypeOK
<1>16. ASSUME UNCHANGED vars PROVE Rest
  BY <1>16 DEF vars, TypeOK
<1>18. Rest
  BY <1>2, <1>3, <1>4, <1>5, <1>7, <1>8, <1>9, <1>10, <1>11, <1>12, <1>13, <1>14, <1>15, <1>16,
      <1>17
     DEF Next, Receive
<1>. QED
  BY <1>18, CallsStep, CookiesStep DEF TypeOK
-----------------------------------------------------------------------------
\* A call that is under way for the page was so before, or begins.
LEMMA HereStep ==
  ASSUME TypeOK, Known, [Next]_vars, NEW c \in Slots, Here(calls'[c])
  PROVE  \/ Begins(c) /\ calls'[c].of = cookies' /\ Allowed(calls'[c].kind)
         \/ /\ Here(calls[c]) /\ calls'[c].kind = calls[c].kind
            /\ calls'[c].of = calls[c].of \/ (GoesOn(c) /\ calls'[c].of = cookies)
<1>1. Moves(c) /\ calls[c] \in Call
  BY CallsStep DEF TypeOK
<1>2. CASE calls'[c] \in {calls[c], Free}
  BY <1>2 DEF Here, Free
<1>3. CASE Begins(c)
  BY <1>3 DEF Begins, New
<1>4. CASE Served(c) \/ Answered(c) \/ Fails(c)
  <2>1. calls'[c].of = calls[c].of /\ calls'[c].kind = calls[c].kind
    BY <1>1, <1>4 DEF Served, Answered, Fails, Call, Free
  <2>. QED
    BY <1>4, <2>1 DEF Served, Answered, Fails, Here
<1>5. CASE GoesOn(c)
  BY <1>1, <1>5 DEF GoesOn, Here, Call, Free
<1>6. CASE Orphaned(c)
  BY <1>1, <1>6 DEF Orphaned, Here, Call, Free
<1>. QED
  BY <1>1, <1>2, <1>3, <1>4, <1>5, <1>6 DEF Moves

LEMMA OwnStep ==
  ASSUME IInv, [Next]_vars
  PROVE  Owners' /\ ExchangeIsOwn' /\ HoldingsAreOwn' /\ Kept'
<1>. USE DEF users, fundingStore, holdingsStore, bounds
<1>0. TypeOK /\ Known /\ Owners /\ ExchangeIsOwn /\ HoldingsAreOwn /\ Kept
  BY DEF IInv
<1>1. ASSUME NEW u \in Users, SignIn(u) PROVE Owners' /\ ExchangeIsOwn' /\ HoldingsAreOwn' /\ Kept'
  <2>1. /\ session' = u /\ cookies' = u /\ page' = "other" /\ u # None
        /\ atMount' = None /\ kept' = (exchange \notin {None, u})
        /\ UNCHANGED <<exchange, holdings>>
        /\ straddled' = (straddled \/ (u # session /\ \E c \in Slots : Here(calls[c])))
    BY <1>1, UsersAssumption DEF SignIn
  <2>3. PICK s \in Slots : calls' = [calls EXCEPT ![s] = New("load", "loading", u)]
    <3>1. calls \in [Slots -> Call] /\ UnusedIn(calls) # {} /\ calls' = BeginAt(calls, "load", "loading", u)
          /\ "load" \in Kinds /\ "loading" \in Stages
      BY <1>0, <1>1 DEF SignIn, TypeOK, Begin, First, Kinds, Funding, Stages
    <3>. QED
      BY <3>1, Begun
  <2>2. ASSUME ~straddled', NEW c \in Slots, Here(calls'[c])
        PROVE  /\ calls'[c].of = u
               /\ calls'[c].kind = "submitHoldings" => holdings \in {None, u}
    <3>1. CASE c = s
      BY <1>0, <2>3, <3>1 DEF TypeOK, New
    <3>2. CASE c # s
      <4>1. calls'[c] = calls[c] /\ ~straddled /\ u = session
        BY <1>0, <2>1, <2>2, <2>3, <3>2 DEF TypeOK
      <4>. QED
        BY <1>0, <2>2, <4>1 DEF Owners, Kept
    <3>. QED
      BY <3>1, <3>2
  <2>. QED
    BY <1>0, <2>1, <2>2 DEF Owners, ExchangeIsOwn, HoldingsAreOwn, Kept
<1>2. ASSUME SignOut PROVE Owners' /\ ExchangeIsOwn' /\ HoldingsAreOwn' /\ Kept'
  BY <1>2 DEF SignOut, Owners, ExchangeIsOwn, HoldingsAreOwn, Kept
<1>3. ASSUME UNCHANGED <<session, cookies, straddled>> PROVE Owners'
  <2>. SUFFICES ASSUME ~straddled, NEW c \in Slots, Here(calls'[c])
                PROVE  calls'[c].of = session /\ session # None
    BY <1>3 DEF Owners
  <2>1. session # None
    BY <1>0, <1>3, HereStep DEF Owners, Begins
  <2>. QED
    BY <1>0, <1>3, <2>1, HereStep DEF Owners, TypeOK
<1>4. ASSUME UNCHANGED <<session, cookies, straddled, kept, exchange>>,
             atMount' \in {atMount, exchange, None}
      PROVE  ExchangeIsOwn'
  BY <1>0, <1>4 DEF ExchangeIsOwn
<1>5. ASSUME UNCHANGED <<session, straddled, holdings>>,
             page' = "holdings" => holdingsWorking' \/ (page = "holdings" /\ ~holdingsWorking)
      PROVE  HoldingsAreOwn' /\ Kept'
  <2>1. HoldingsAreOwn'
    BY <1>0, <1>5 DEF HoldingsAreOwn
  <2>2. ASSUME NEW c \in Slots, Here(calls'[c]), calls'[c].kind = "submitHoldings"
        PROVE  straddled \/ holdings \in {None, session}
    <3>1. CASE Allowed(calls'[c].kind)
      BY <1>0, <2>2, <3>1 DEF Allowed, HoldingsAreOwn
    <3>2. CASE Here(calls[c]) /\ calls'[c].kind = calls[c].kind
      BY <1>0, <2>2, <3>2 DEF Kept
    <3>. QED
      BY <1>0, <2>2, <3>1, <3>2, HereStep
  <2>. QED
    BY <1>5, <2>1, <2>2 DEF Kept
<1>6. ASSUME \/ OpenFunding \/ OpenPage \/ ReloadPage \/ SubmitHoldings \/ ShowForm \/ Back
             \/ Submit \/ CancelPending \/ DeleteAddress \/ RefreshAddress \/ RefreshExchange
      PROVE  Owners' /\ ExchangeIsOwn' /\ HoldingsAreOwn' /\ Kept'
  <2>1. /\ UNCHANGED <<session, cookies, straddled, kept, exchange, holdings>>
        /\ atMount' \in {atMount, exchange, None}
        /\ page' = "holdings" => holdingsWorking' \/ (page = "holdings" /\ holdingsWorking' = holdingsWorking)
    BY <1>6 DEF OpenFunding, OpenPage, ReloadPage, Enter, LoadHoldings, SubmitHoldings, ShowForm,
                Back, Submit, CancelPending, DeleteAddress, RefreshAddress, RefreshExchange
  <2>. QED
    BY <1>3, <1>4, <1>5, <2>1
<1>7. ASSUME \/ ReloadFunding \/ Interval \/ (\E u \in Users : Settle(u))
             \/ (\E c \in Slots : \/ Serve(c) \/ Answer(c) \/ Fail(c) \/ Continue(c)
                                  \/ Refreshed(c) \/ FundingFailed(c))
      PROVE  Owners' /\ ExchangeIsOwn' /\ HoldingsAreOwn' /\ Kept'
  <2>1. /\ UNCHANGED <<session, cookies, straddled, kept, exchange, holdings, holdingsWorking>>
        /\ atMount' \in {atMount, exchange, None}
        /\ page' = "holdings" => page = "holdings"
    BY <1>7 DEF ReloadFunding, Interval, Settle, Serve, Answer, Fail, Continue, Refreshed,
        FundingFailed
  <2>. QED
    BY <1>3, <1>4, <1>5, <2>1
<1>8. ASSUME NEW c \in Slots, HoldingsLoaded(c) \/ HoldingsSubmitted(c)
      PROVE  Owners' /\ ExchangeIsOwn' /\ HoldingsAreOwn' /\ Kept'
  <2>1. /\ UNCHANGED <<session, cookies, straddled, kept, exchange, atMount, page>>
        /\ Here(calls[c])
        /\ holdings' \in {calls[c].of, None} \/ (holdings' = holdings /\ calls[c].kind = "submitHoldings")
    BY <1>8 DEF HoldingsLoaded, HoldingsSubmitted, Here
  <2>2. straddled \/ holdings' \in {None, session}
    BY <1>0, <2>1 DEF Owners, Kept
  <2>. QED
    BY <1>3, <1>4, <2>1, <2>2 DEF HoldingsAreOwn, Kept
<1>9. ASSUME NEW c \in Slots, Loaded(c)
      PROVE  Owners' /\ ExchangeIsOwn' /\ HoldingsAreOwn' /\ Kept'
  <2>1. /\ UNCHANGED <<session, cookies, straddled, atMount, holdings, holdingsWorking>>
        /\ Here(calls[c]) /\ exchange' \in {calls[c].of, None}
        /\ kept' = (kept /\ atMount \notin {None, session})
        /\ page' = "holdings" => page = "holdings"
    BY <1>9 DEF Loaded, Here
  <2>. QED
    BY <1>0, <1>3, <1>5, <2>1 DEF ExchangeIsOwn, Owners
<1>10. ASSUME UNCHANGED vars PROVE Owners' /\ ExchangeIsOwn' /\ HoldingsAreOwn' /\ Kept'
  BY <1>3, <1>4, <1>5, <1>10 DEF vars
<1>. QED
  BY <1>1, <1>2, <1>6, <1>7, <1>8, <1>9, <1>10 DEF Next, Receive
-----------------------------------------------------------------------------
Locks(cs) == \E c \in Slots : Here(cs[c]) /\ cs[c].kind \in Works

\* A call that begins overwrites none, and an update is work.
LEMMA BeginKeeps ==
  ASSUME NEW cs \in [Slots -> Call], UnusedIn(cs) # {}, NEW kind \in Kinds, NEW user \in Users
  PROVE  /\ Begin(cs, kind, user) \in [Slots -> Call]
         /\ \A c \in Slots : cs[c] # Free => Begin(cs, kind, user)[c] = cs[c]
         /\ Locks(cs) => Locks(Begin(cs, kind, user))
         /\ kind \in Works => Locks(Begin(cs, kind, user))
<1>. DEFINE st == First(kind)
<1>1. st \in Stages
  BY DEF First, Stages
<1>2. PICK s \in Slots : /\ cs[s] = Free
                         /\ Begin(cs, kind, user) = [cs EXCEPT ![s] = New(kind, st, user)]
  BY <1>1, Begun DEF Begin
<1>3. Begin(cs, kind, user) \in [Slots -> Call]
  BY <1>1, <1>2, NewCall
<1>4. \A c \in Slots : cs[c] # Free => Begin(cs, kind, user)[c] = cs[c]
  BY <1>2
<1>5. kind \in Works => Locks(Begin(cs, kind, user))
  <2>1. Here(New(kind, st, user)) /\ New(kind, st, user).kind = kind
    BY DEF Here, New, First
  <2>. QED
    BY <1>2, <2>1 DEF Locks
<1>6. Locks(cs) => Locks(Begin(cs, kind, user))
  <2>1. \A c \in Slots : Here(cs[c]) => cs[c] # Free
    BY DEF Here, Free
  <2>. QED
    BY <1>4, <2>1 DEF Locks
<1>. QED
  BY <1>3, <1>4, <1>5, <1>6

LEMMA RenderLocks ==
  ASSUME TypeOK, NEW cs \in [Slots -> Call], NEW w \in BOOLEAN, NEW unsure, Render(cs, w, unsure),
         session' = session, w => Locks(cs) \/ (lost /\ ~Mounted)
  PROVE  WorkIsUnderWay'
<1>1. CASE Polls
  <2>1. "update" \in Kinds /\ "update" \in Works /\ cookies \in Users
        /\ UnusedIn(cs) # {} /\ calls' = Begin(cs, "update", cookies)
    BY <1>1 DEF Kinds, Funding, Works, Render, Polls, Mounted, TypeOK
  <2>2. Locks(calls')
    BY <2>1, BeginKeeps
  <2>. QED
    BY <2>2 DEF Locks, WorkIsUnderWay
<1>2. CASE ~Polls
  <2>1. calls' = cs /\ working' = w /\ lost' = (lost /\ w)
    BY <1>2 DEF Render
  <2>2. ~Mounted => ~Mounted'
    BY <1>2 DEF Polls
  <2>. QED
    BY <2>1, <2>2 DEF Locks, WorkIsUnderWay
<1>. QED
  BY <1>1, <1>2

\* A page that comes up ends no call.
LEMMA EnterKeeps ==
  ASSUME TypeOK, NEW cs \in [Slots -> Call], Enter(cs), Locks(cs)
  PROVE  Locks(calls')
<1>1. /\ session # None => cookies \in Users
      /\ "load" \in Kinds /\ "holdings" \in Kinds
  BY DEF TypeOK, Kinds
<1>2. CASE calls' = cs
  BY <1>2
<1>3. CASE session # None /\ UnusedIn(cs) # {} /\ calls' = Begin(cs, "load", cookies)
  BY <1>1, <1>3, BeginKeeps
<1>4. CASE /\ session # None /\ \E c, d \in UnusedIn(cs) : c # d
           /\ calls' = Begin(Begin(cs, "holdings", cookies), "load", cookies)
  <2>. DEFINE ds == Begin(cs, "holdings", cookies)
  <2>1. PICK a, b \in UnusedIn(cs) : a # b
    BY <1>4
  <2>2. ds \in [Slots -> Call] /\ Locks(ds)
    BY <1>1, <1>4, <2>1, BeginKeeps
  <2>3. UnusedIn(ds) # {}
    <3>1. "loading" \in Stages /\ ds = BeginAt(cs, "holdings", "loading", cookies)
      BY DEF Stages, Begin, First, Funding
    <3>2. PICK s \in Slots : ds = [cs EXCEPT ![s] = New("holdings", "loading", cookies)]
      BY <1>1, <1>4, <2>1, <3>1, Begun
    <3>. QED
      BY <2>1, <3>2 DEF UnusedIn
  <2>. QED
    BY <1>1, <1>4, <2>2, <2>3, BeginKeeps
<1>. QED
  BY <1>2, <1>3, <1>4 DEF Enter

LEMMA WorkStep ==
  ASSUME IInv, [Next]_vars
  PROVE  WorkIsUnderWay'
<1>. USE DEF users, fundingStore, holdingsStore, bounds
<1>0. /\ TypeOK /\ Known /\ working \in BOOLEAN /\ calls \in [Slots -> Call]
      /\ working => Locks(calls) \/ (lost /\ ~Mounted)
      /\ \A k \in Works : k \in Kinds
  BY DEF IInv, TypeOK, WorkIsUnderWay, Locks, Works, Kinds, Funding
<1>1. ASSUME working' = working, lost => lost', Mounted' => Mounted, Locks(calls) => Locks(calls')
      PROVE  WorkIsUnderWay'
  BY <1>0, <1>1 DEF WorkIsUnderWay, Locks
<1>2. ASSUME (\E u \in Users : SignIn(u)) \/ SubmitHoldings \/ RefreshAddress
      PROVE  WorkIsUnderWay'
  <2>1. PICK k \in Kinds, u \in Users : UnusedIn(calls) # {} /\ calls' = Begin(calls, k, u)
    BY <1>0, <1>2 DEF SignIn, SubmitHoldings, RefreshAddress, Mounted, TypeOK, Kinds, Funding
  <2>2. working' = working /\ lost' = lost /\ (Mounted' => Mounted)
    BY <1>2 DEF SignIn, SubmitHoldings, RefreshAddress, Mounted
  <2>. QED
    BY <1>0, <1>1, <2>1, <2>2, BeginKeeps
<1>3. ASSUME OpenPage PROVE WorkIsUnderWay'
  <2>1. Enter(calls) /\ working' = working /\ lost' = lost /\ ~Mounted'
    BY <1>3 DEF OpenPage, Enter, Mounted
  <2>. QED
    BY <1>0, <1>1, <2>1, EnterKeeps
<1>16. ASSUME ReloadPage PROVE WorkIsUnderWay'
  BY <1>16 DEF ReloadPage, Enter, Mounted, WorkIsUnderWay
<1>4. ASSUME Submit \/ CancelPending \/ Interval PROVE WorkIsUnderWay'
  <2>1. PICK k \in Works : UnusedIn(calls) # {} /\ calls' = Begin(calls, k, cookies) /\ cookies \in Users
    BY <1>0, <1>4 DEF Submit, CancelPending, Interval, Mounted, TypeOK, Works
  <2>2. Locks(calls')
    BY <1>0, <2>1, BeginKeeps
  <2>. QED
    BY <2>2 DEF Locks, WorkIsUnderWay
<1>5. ASSUME OpenFunding \/ Back PROVE WorkIsUnderWay'
  <2>1. Render(calls, working, FALSE) /\ session' = session
    BY <1>5 DEF OpenFunding, Back
  <2>. QED
    BY <1>0, <2>1, RenderLocks
<1>6. ASSUME DeleteAddress PROVE WorkIsUnderWay'
  <2>1. /\ Render(Begin(calls, "delete", cookies), working, FALSE) /\ session' = session
        /\ UnusedIn(calls) # {} /\ cookies \in Users /\ "delete" \in Kinds
    BY <1>0, <1>6 DEF DeleteAddress, Mounted, TypeOK, Kinds, Funding
  <2>. QED
    BY <1>0, <2>1, BeginKeeps, RenderLocks
<1>7. ASSUME RefreshExchange PROVE WorkIsUnderWay'
  <2>1. PICK st \in {"sent", "failed"} :
            /\ Render(BeginAt(calls, "refresh", st, cookies), working, FALSE)
            /\ session' = session /\ UnusedIn(calls) # {} /\ cookies \in Users
    BY <1>0, <1>7 DEF RefreshExchange, Mounted, TypeOK
  <2>. DEFINE cs == BeginAt(calls, "refresh", st, cookies)
  <2>2. "refresh" \in Kinds /\ st \in Stages
    BY DEF Kinds, Funding, Stages
  <2>3. PICK s \in Slots : calls[s] = Free /\ cs = [calls EXCEPT ![s] = New("refresh", st, cookies)]
    BY <1>0, <2>1, <2>2, Begun
  <2>4. cs \in [Slots -> Call] /\ (Locks(calls) => Locks(cs))
    BY <1>0, <2>1, <2>2, <2>3, NewCall DEF Locks, Here, Free
  <2>. QED
    BY <1>0, <2>1, <2>4, RenderLocks
<1>8. ASSUME ReloadFunding PROVE WorkIsUnderWay'
  <2>1. CASE Mounted'
    <3>1. /\ calls' = Begin(Orphans, "update", cookies)
          /\ Orphans \in [Slots -> Call] /\ UnusedIn(Orphans) # {}
      BY <1>0, <1>8, <2>1, OrphansLeft DEF ReloadFunding
    <3>2. cookies \in Users /\ "update" \in Kinds /\ "update" \in Works
      BY <1>0, <1>8, <2>1 DEF ReloadFunding, Mounted, TypeOK, Kinds, Funding, Works
    <3>3. Locks(calls')
      BY <3>1, <3>2, BeginKeeps
    <3>. QED
      BY <3>3 DEF Locks, WorkIsUnderWay
  <2>2. CASE ~Mounted'
    BY <1>8, <2>2 DEF ReloadFunding, WorkIsUnderWay
  <2>. QED
    BY <2>1, <2>2
<1>9. ASSUME NEW c \in Slots, Serve(c) \/ Answer(c) \/ Fail(c) \/ Continue(c) PROVE WorkIsUnderWay'
  <2>1. working' = working /\ lost' = lost /\ (Mounted' => Mounted)
    BY <1>9 DEF Serve, Answer, Fail, Continue, Mounted
  <2>2. calls[c] # Free /\ calls[c] \in Call
    BY <1>0, <1>9 DEF Serve, Answer, Fail, Continue, Free
  <2>3. ASSUME NEW d \in Slots, Here(calls[d]) PROVE Here(calls'[d]) /\ calls'[d].kind = calls[d].kind
    <3>1. CASE d # c
      BY <1>0, <1>9, <2>3, <3>1 DEF Serve, Answer, Fail, Continue, Without
    <3>2. CASE d = c /\ Serve(c)
      <4>1. \E stage \in {"served", "answered"} : calls' = [calls EXCEPT ![c].stage = stage]
        BY <2>3, <3>2 DEF Serve, Here
      <4>. QED
        BY <1>0, <2>2, <3>2, <4>1 DEF Here, Call
    <3>5. CASE d = c /\ Answer(c)
      BY <1>0, <2>2, <3>5 DEF Answer, Here, Call
    <3>3. CASE d = c /\ Fail(c)
      BY <1>0, <2>2, <3>3 DEF Fail, Here, Call
    <3>4. CASE d = c /\ Continue(c)
      BY <1>0, <2>2, <3>4 DEF Continue, Here, Call
    <3>. QED
      BY <1>9, <3>1, <3>2, <3>3, <3>4, <3>5
  <2>. QED
    BY <1>1, <2>1, <2>3 DEF Locks
<1>10. ASSUME NEW c \in Slots, calls[c].kind \notin Works
       PROVE  Without(c) \in [Slots -> Call] /\ (Locks(calls) => Locks(Without(c)))
  BY <1>0, <1>10 DEF Without, Locks, Call
<1>11. ASSUME NEW c \in Slots, HoldingsLoaded(c) PROVE WorkIsUnderWay'
  BY <1>1, <1>10, <1>11 DEF HoldingsLoaded, Works, Mounted
<1>12. ASSUME NEW c \in Slots, HoldingsSubmitted(c) PROVE WorkIsUnderWay'
  <2>1. /\ working' = working /\ lost' = lost /\ (Mounted' => Mounted) /\ calls[c].kind \notin Works
        /\ calls' = Begin(Without(c), "load", cookies) /\ "load" \in Kinds /\ calls[c] # Free
    BY <1>12 DEF HoldingsSubmitted, Works, Kinds, Free, Mounted
  <2>2. UnusedIn(Without(c)) # {} /\ cookies \in Users
    BY <1>0, <2>1 DEF Without, UnusedIn, Known, TypeOK
  <2>. QED
    BY <1>1, <1>10, <2>1, <2>2, BeginKeeps
<1>13. ASSUME NEW c \in Slots, Refreshed(c) PROVE WorkIsUnderWay'
  <2>1. Render(Without(c), working, TRUE) /\ session' = session
        /\ calls[c].kind \notin Works
    BY <1>13 DEF Refreshed, Works
  <2>. QED
    BY <1>0, <1>10, <2>1, RenderLocks
<1>14. ASSUME NEW c \in Slots, FundingFailed(c) \/ Loaded(c) PROVE WorkIsUnderWay'
  <2>1. session' = session /\ \E unsure : Render(Without(c), WorkLeft(calls[c].kind), unsure)
    BY <1>14 DEF FundingFailed, Loaded
  <2>2. /\ WorkLeft(calls[c].kind) \in BOOLEAN /\ Without(c) \in [Slots -> Call]
        /\ WorkLeft(calls[c].kind) => working /\ calls[c].kind \notin Works
    BY <1>0 DEF WorkLeft, Without, Call
  <2>. QED
    BY <1>0, <1>10, <2>1, <2>2, RenderLocks
<1>15. ASSUME SignOut \/ ShowForm \/ UNCHANGED vars \/ \E u \in Users : Settle(u)
       PROVE  WorkIsUnderWay'
  BY <1>1, <1>15 DEF SignOut, ShowForm, Settle, vars, Mounted
<1>. QED
  BY <1>2, <1>3, <1>4, <1>5, <1>6, <1>7, <1>8, <1>9, <1>11, <1>12, <1>13, <1>14, <1>15, <1>16
     DEF Next, Receive
-----------------------------------------------------------------------------
\* Only Submit begins a submission, and nothing that ends its work goes unnoticed.
LEMMA SubmittingStep ==
  ASSUME TypeOK, Known, [Next]_vars, ~Submit
  PROVE  /\ interrupted => interrupted'
         /\ \A c \in Slots : Submitting(calls'[c]) => Submitting(calls[c])
         /\ working /\ ~working' =>
                interrupted' \/ \A c \in Slots : ~Submitting(calls'[c])
<1>. USE DEF users, fundingStore, holdingsStore, bounds
<1>1. \A c \in Slots : Submitting(calls'[c]) => Submitting(calls[c])
  BY HereStep DEF Submitting, Allowed
<1>2. ASSUME interrupted' = interrupted, working => working'
      PROVE  (interrupted => interrupted') /\ ~(working /\ ~working')
  BY <1>2
<1>3. ASSUME \/ \E u \in Users : SignIn(u) \/ Settle(u)
             \/ SignOut \/ OpenPage \/ SubmitHoldings \/ ShowForm \/ CancelPending
             \/ RefreshAddress \/ ReloadFunding \/ ReloadPage \/ Interval
             \/ \E c \in Slots : \/ Serve(c) \/ Answer(c) \/ Fail(c) \/ Continue(c)
                                 \/ HoldingsLoaded(c) \/ HoldingsSubmitted(c)
             \/ UNCHANGED vars
      PROVE  interrupted' = interrupted /\ (working => working')
  <2>1. ASSUME NEW u \in Users, SignIn(u) \/ Settle(u)
        PROVE  interrupted' = interrupted /\ (working => working')
    BY <2>1 DEF SignIn, Settle
  <2>2. ASSUME SignOut \/ OpenPage \/ SubmitHoldings \/ ShowForm \/ RefreshAddress
        PROVE  interrupted' = interrupted /\ (working => working')
    BY <2>2 DEF SignOut, OpenPage, SubmitHoldings, ShowForm, RefreshAddress
  <2>3. ASSUME CancelPending \/ ReloadFunding \/ ReloadPage \/ Interval
        PROVE  interrupted' = interrupted /\ (working => working')
    <3>1. CASE CancelPending \/ Interval
      BY <3>1 DEF CancelPending, Interval
    <3>2. CASE ReloadFunding
      BY <3>2 DEF ReloadFunding
    <3>3. CASE ReloadPage
      BY <3>3 DEF ReloadPage
    <3>. QED
      BY <2>3, <3>1, <3>2, <3>3
  <2>4. ASSUME NEW c \in Slots,
               Serve(c) \/ Answer(c) \/ Fail(c) \/ Continue(c) \/ HoldingsLoaded(c) \/ HoldingsSubmitted(c)
        PROVE  interrupted' = interrupted /\ (working => working')
    BY <2>4 DEF Serve, Answer, Fail, Continue, HoldingsLoaded, HoldingsSubmitted
  <2>5. ASSUME UNCHANGED vars
        PROVE  interrupted' = interrupted /\ (working => working')
    BY <2>5 DEF vars
  <2>. QED
    BY <1>3, <2>1, <2>2, <2>3, <2>4, <2>5
<1>4. ASSUME OpenFunding \/ Back \/ DeleteAddress \/ RefreshExchange
      PROVE  (interrupted => interrupted') /\ (working => working')
  <2>1. \E cs : Render(cs, working, FALSE)
    BY <1>4 DEF OpenFunding, Back, DeleteAddress, RefreshExchange
  <2>. QED
    BY <2>1 DEF Render
<1>5. ASSUME NEW d \in Slots, Refreshed(d) \/ FundingFailed(d) \/ Loaded(d)
      PROVE  /\ interrupted => interrupted'
             /\ working /\ ~working' =>
                    interrupted' \/ \A c \in Slots : ~Submitting(calls'[c])
  <2>1. PICK w \in BOOLEAN, unsure \in BOOLEAN : Render(Without(d), w, unsure)
    <3>1. working \in BOOLEAN /\ WorkLeft(calls[d].kind) \in BOOLEAN
          /\ Unsure(calls[d]) \in BOOLEAN
      BY DEF TypeOK, WorkLeft, Unsure
    <3>2. CASE Refreshed(d)
      BY <3>1, <3>2 DEF Refreshed
    <3>3. CASE FundingFailed(d)
      BY <3>1, <3>3 DEF FundingFailed
    <3>4. CASE Loaded(d)
      BY <3>1, <3>4 DEF Loaded
    <3>. QED
      BY <1>5, <3>2, <3>3, <3>4
  <2>2. interrupted' = (interrupted \/
            (working /\ ~w /\ \E c \in Slots : Submitting(Without(d)[c])))
    BY <2>1 DEF Render, Submitting
  <2>3. working' = (w \/ Polls) /\ (~Polls => calls' = Without(d))
    BY <2>1 DEF Render
  <2>. QED
    BY <2>2, <2>3
<1>. QED
  BY <1>1, <1>2, <1>3, <1>4, <1>5 DEF Next, Receive

LEMMA SubmissionStep ==
  ASSUME IInv, [Next]_vars
  PROVE  Submissions' /\ OneSubmission'
<1>0. /\ TypeOK /\ Known /\ Submissions /\ OneSubmission
      /\ calls \in [Slots -> Call]
  BY DEF IInv, TypeOK
<1>1. CASE Submit
  <2>1. /\ ~working /\ working' = TRUE /\ interrupted' = interrupted
        /\ UnusedIn(calls) # {} /\ calls' = BeginAt(calls, "submit", "sent", cookies)
        /\ cookies \in Users /\ "submit" \in Kinds /\ "sent" \in Stages
    BY <1>0, <1>1 DEF Submit, Begin, First, TypeOK, Kinds, Funding, Stages
  <2>2. PICK s \in Slots : calls' = [calls EXCEPT ![s] = New("submit", "sent", cookies)]
    BY <1>0, <2>1, Begun
  <2>. QED
    BY <1>0, <2>1, <2>2 DEF Submissions, OneSubmission, Submitting
<1>2. CASE ~Submit
  BY <1>0, <1>2, SubmittingStep DEF Submissions, OneSubmission, Submitting
<1>. QED
  BY <1>1, <1>2
-----------------------------------------------------------------------------
LEMMA InvInit == Init => IInv
<1>. SUFFICES ASSUME Init PROVE IInv
  OBVIOUS
<1>1. TypeOK
  <2>1. calls \in [Slots -> Call] /\ steps \in 0..MaxSteps /\ fails \in 0..MaxFails
    BY BoundsAssumption DEF Init, Call
  <2>2. {straddled, kept, interrupted, lost, blind} \subseteq BOOLEAN
    BY DEF Init
  <2>. QED
    BY <2>1, <2>2 DEF Init, TypeOK
<1>2. Known /\ Owners /\ Kept /\ Submissions /\ OneSubmission
  BY DEF Init, Known, Owners, Kept, Submissions, OneSubmission, Submitting, Here, Free
<1>3. ExchangeIsOwn /\ HoldingsAreOwn /\ WorkIsUnderWay
  BY DEF Init, ExchangeIsOwn, HoldingsAreOwn, WorkIsUnderWay
<1>. QED
  BY <1>1, <1>2, <1>3 DEF IInv

LEMMA InvStep == IInv /\ [Next]_vars => IInv'
<1>. SUFFICES ASSUME IInv, [Next]_vars PROVE IInv'
  OBVIOUS
<1>1. TypeOK' /\ Known'
  BY TypeStep, KnownStep DEF IInv
<1>. QED
  BY <1>1, OwnStep, WorkStep, SubmissionStep DEF IInv

LEMMA Invariance == Spec => []IInv
  BY InvInit, InvStep, PTL DEF Spec

\* Every variable keeps its type, and who is signed in is who the cookies say.
THEOREM ClientTypeCorrect == Spec => []TypeOK
<1>1. IInv => TypeOK
  BY DEF IInv
<1>. QED
  BY <1>1, Invariance, PTL

\* The exchange shown, and the one a page keeps for its refreshes, is that of who is
\* signed in, whatever calls cross each other, as long as none crosses the leaving of
\* its user (straddled), and but for what a sign-in over another's session leaves
\* until the first load (kept).
THEOREM OwnExchange == Spec => []ExchangeIsOwn
<1>1. IInv => ExchangeIsOwn
  BY DEF IInv
<1>. QED
  BY <1>1, Invariance, PTL

\* The holdings the page goes by are those of who is signed in, although the store
\* keeps those of the user before, as long as no call crosses the leaving of its user.
THEOREM OwnHoldings == Spec => []HoldingsAreOwn
<1>1. IInv => HoldingsAreOwn
  BY DEF IInv
<1>. QED
  BY <1>1, Invariance, PTL

\* The form is locked by a call that will unlock it; after a reload that cut that call
\* short it may be locked by none, but only until the table is shown.
THEOREM FormUnlocks == Spec => []WorkIsUnderWay
<1>1. IInv => WorkIsUnderWay
  BY DEF IInv
<1>. QED
  BY <1>1, Invariance, PTL

\* One submission at a time, unless another call unlocked the form meanwhile.
THEOREM SubmitsOnce == Spec => []OneSubmission
<1>1. IInv => OneSubmission
  BY DEF IInv
<1>. QED
  BY <1>1, Invariance, PTL
=============================================================================
