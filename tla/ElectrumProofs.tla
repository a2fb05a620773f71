--------------------------- MODULE ElectrumProofs ---------------------------
(***************************************************************************)
(* What the client promises its callers, for any number of calls, batches  *)
(* and sockets.  The invariant says who can be behind a request, an answer *)
(* or a callback (Known), and that a waiting call whose callback is gone   *)
(* shares its id (Replaced).                                               *)
(***************************************************************************)
EXTENDS Electrum, TLAPS

Known ==
    /\ \A c \in Calls : pc[c] \in {"idle", "connecting"} => ~Asked(c)
    /\ \A c \in Calls : Asked(c) => since[c] <= now
    /\ \A c \in timers : Asked(c)
    /\ \A r \in wire : Asked(r.call)
    /\ \A a \in answers : Asked(a.call) /\ a.at >= since[a.call]
    /\ \A i \in Ids : callbacks[i] # None => Asked(callbacks[i]) /\ Id(callbacks[i]) = i
    /\ \A c \in Calls : got[c] # None => Asked(c) /\ Asked(got[c].call)

Replaced == \A c \in Calls : pc[c] = "waiting" /\ callbacks[Id(c)] # c => Sharing(c)

IInv == TypeOK /\ Known /\ EachIsTimed /\ Replaced /\ AnswersAreOwn /\ AnswersAreTaken
-----------------------------------------------------------------------------
LEMMA TypeInit == Init => TypeOK
  BY BoundsAssumption, AsksAssumption DEF Init, TypeOK, Ids, Outcomes, Sockets, Blocks

LEMMA SendType ==
  ASSUME TypeOK, NEW c \in Calls, NEW st, Send(c, st)
  PROVE  /\ callbacks' \in [Ids -> Calls \cup {None}]
         /\ timers' \subseteq Calls
         /\ pc' \in [Calls -> {"idle", "connecting", "waiting"} \cup Outcomes]
         /\ since' \in [Calls -> Blocks \cup {None}]
         /\ wire' \subseteq wire \cup {[call |-> c, sock |-> socket]}
         /\ wire' # wire => Written(st)
<1>1. PICK late \in Overdue(c) :
        /\ callbacks' = [Forget({i \in Ids : callbacks[i] \in late}) EXCEPT ![Id(c)] = c]
        /\ timers' = Armed(c)
        /\ wire' = IF Written(st) THEN wire \cup {[call |-> c, sock |-> socket]} ELSE wire
        /\ pc' = [d \in Calls |-> IF d = c THEN IF Refused(st) THEN "failed" ELSE "waiting"
                                  ELSE IF d \in late /\ pc[d] = "waiting" THEN "failed"
                                  ELSE pc[d]]
        /\ since' = [since EXCEPT ![c] = now]
  BY DEF Send
<1>2. callbacks' \in [Ids -> Calls \cup {None}]
  BY <1>1 DEF TypeOK, Forget
<1>3. timers' \subseteq Calls /\ since' \in [Calls -> Blocks \cup {None}]
  BY <1>1 DEF TypeOK, Armed
<1>4. pc' \in [Calls -> {"idle", "connecting", "waiting"} \cup Outcomes]
  BY <1>1 DEF TypeOK, Outcomes
<1>. QED
  BY <1>1, <1>2, <1>3, <1>4

LEMMA TypeStep ==
  ASSUME TypeOK, [Next]_vars
  PROVE  TypeOK'
<1>. USE DEF settings, socketVars, serverVars
<1>1. ASSUME NEW c \in Calls, Ask(c) PROVE TypeOK'
  <2>1. /\ Send(c, state[socket]) /\ socket \in Sockets /\ state[socket] \in {"connecting", "open"}
        /\ UNCHANGED <<kind, ask, socket, state, on, answers, now, got, missed>>
    BY <1>1 DEF Ask, Ready
  <2>2. wire' \subseteq Request /\ \A r \in wire' : state[r.sock] \in {"connecting", "open"}
    BY <2>1, SendType DEF TypeOK, Request
  <2>. QED
    BY <2>1, <2>2, SendType DEF TypeOK
<1>2. ASSUME NEW c \in Calls, Connect(c) PROVE TypeOK'
  <2>1. /\ socket' = socket + 1 /\ socket' \in Sockets
        /\ state' = [state EXCEPT ![socket'] = "connecting"]
    BY <1>2, BoundsAssumption DEF Connect, TypeOK, Sockets
  <2>2. state[socket'] = "none"
    BY <2>1 DEF TypeOK
  <2>3. /\ \A r \in wire : state'[r.sock] \in {"connecting", "open"}
        /\ \A a \in answers : state'[a.sock] = "open"
    BY <2>1, <2>2 DEF TypeOK, Request, Answer
  <2>4. /\ socket' \in 0..MaxSockets /\ \A s \in Sockets : s > socket' => state'[s] = "none"
        /\ state' \in [Sockets -> {"none", "connecting", "open", "closed"}]
    BY <2>1, BoundsAssumption DEF TypeOK, Sockets
  <2>5. /\ pc' \in [Calls -> {"idle", "connecting", "waiting"} \cup Outcomes]
        /\ on' \in [Calls -> 0..MaxSockets]
    BY <1>2, <2>4 DEF Connect, TypeOK
  <2>. QED
    BY <1>2, <2>3, <2>4, <2>5 DEF Connect, TypeOK
<1>3. ASSUME NEW s \in Sockets, Opened(s) PROVE TypeOK'
  <2>1. /\ state[s] = "connecting" /\ state' = [state EXCEPT ![s] = "open"]
        /\ UNCHANGED <<kind, ask, socket, on, answers, now, got, missed>>
    BY <1>3 DEF Opened
  <2>2. socket \in Sockets /\ s <= socket
    BY <2>1, BoundsAssumption DEF TypeOK, Sockets
  <2>3. /\ callbacks' \in [Ids -> Calls \cup {None}]
        /\ timers' \subseteq Calls
        /\ pc' \in [Calls -> {"idle", "connecting", "waiting"} \cup Outcomes]
        /\ since' \in [Calls -> Blocks \cup {None}]
        /\ wire' \subseteq Request
        /\ \A r \in wire' \ wire : state'[r.sock] \in {"connecting", "open"}
    <3>1. ASSUME NEW c \in Calls, Send(c, state'[socket])
          PROVE  /\ callbacks' \in [Ids -> Calls \cup {None}]
                 /\ timers' \subseteq Calls
                 /\ pc' \in [Calls -> {"idle", "connecting", "waiting"} \cup Outcomes]
                 /\ since' \in [Calls -> Blocks \cup {None}]
                 /\ wire' \subseteq Request
                 /\ \A r \in wire' \ wire : state'[r.sock] \in {"connecting", "open"}
      <4>1. /\ wire' \subseteq wire \cup {[call |-> c, sock |-> socket]}
            /\ wire' # wire => Written(state'[socket])
        BY <3>1, SendType
      <4>2. \A r \in wire' \ wire : r.sock = socket /\ Written(state'[socket])
        BY <4>1
      <4>3. wire' \subseteq Request
        BY <2>2, <4>1 DEF TypeOK, Request
      <4>. QED
        BY <3>1, <4>2, <4>3, SendType DEF Written
    <3>2. CASE UNCHANGED <<pc, callbacks, timers, wire, since>>
      BY <3>2 DEF TypeOK
    <3>. QED
      BY <1>3, <3>1, <3>2 DEF Opened
  <2>4. \A r \in wire \cup answers : state'[r.sock] \in {state[r.sock], "open"}
    BY <2>1 DEF TypeOK, Request, Answer
  <2>. QED
    BY <2>1, <2>2, <2>3, <2>4 DEF TypeOK
<1>4. ASSUME NEW s \in Sockets, Closed(s) PROVE TypeOK'
  <2>1. /\ state' = [state EXCEPT ![s] = "closed"] /\ state[s] # "none"
        /\ wire' = {r \in wire : r.sock # s} /\ answers' = {a \in answers : a.sock # s}
        /\ UNCHANGED <<kind, ask, socket, on, callbacks, timers, now, since, got, missed>>
    BY <1>4 DEF Closed
  <2>2. pc' \in [Calls -> {"idle", "connecting", "waiting"} \cup Outcomes]
    BY <1>4 DEF Closed, Settle, TypeOK, Outcomes
  <2>3. \A r \in wire' \cup answers' : state'[r.sock] = state[r.sock]
    BY <2>1 DEF TypeOK, Request, Answer
  <2>. QED
    BY <2>1, <2>2, <2>3 DEF TypeOK
<1>5. ASSUME NEW c \in Calls, ConnectTimeout(c) \/ Timeout(c) PROVE TypeOK'
  BY <1>5 DEF ConnectTimeout, Timeout, Settle, Forget, TypeOK, Outcomes
<1>6. ASSUME NEW r \in wire, Serve(r) PROVE TypeOK'
  BY <1>6 DEF Serve, TypeOK, Request, Answer
<1>7. ASSUME NEW a \in answers, Receive(a) PROVE TypeOK'
  <2>1. /\ pc' \in [Calls -> {"idle", "connecting", "waiting"} \cup Outcomes]
        /\ got' \in [Calls -> Answer \cup {None}]
        /\ callbacks' \in [Ids -> Calls \cup {None}] /\ timers' \subseteq Calls
    BY <1>7 DEF Receive, Settle, Forget, TypeOK, Outcomes
  <2>2. missed' \subseteq Calls /\ answers' \subseteq answers
        /\ UNCHANGED <<kind, ask, socket, state, on, wire, now, since>>
    BY <1>7 DEF Receive, TypeOK, Answer
  <2>. QED
    BY <2>1, <2>2 DEF TypeOK
<1>8. ASSUME Garbled PROVE TypeOK'
  BY <1>8 DEF Garbled, TypeOK, Outcomes
<1>9. ASSUME Block PROVE TypeOK'
  BY <1>9, BoundsAssumption DEF Block, TypeOK, Blocks
<1>10. CASE UNCHANGED vars
  BY <1>10 DEF vars, TypeOK
<1>. QED
  BY <1>1, <1>2, <1>3, <1>4, <1>5, <1>6, <1>7, <1>8, <1>9, <1>10 DEF Next

-----------------------------------------------------------------------------
Rest == Known /\ EachIsTimed /\ Replaced /\ AnswersAreOwn /\ AnswersAreTaken

LEMMA InitKeeps == Init => IInv
<1>. SUFFICES ASSUME Init PROVE IInv
  OBVIOUS
<1>1. TypeOK
  BY TypeInit
<1>2. Known /\ EachIsTimed /\ Replaced /\ AnswersAreOwn /\ AnswersAreTaken
  BY DEF Init, Known, EachIsTimed, Replaced, AnswersAreOwn, AnswersAreTaken, Asked, Ids
<1>. QED
  BY <1>1, <1>2 DEF IInv

\* The steps that touch neither callbacks nor timers, and let no call wait.
LEMMA QuietKeeps ==
  ASSUME IInv,
         UNCHANGED <<ask, callbacks, timers, since, got, missed>>,
         now \in Nat, now' \in Nat, now' >= now,
         wire' \subseteq wire,
         \A a \in answers' \ answers : Asked(a.call) /\ a.at >= since[a.call],
         \A c \in Calls : pc'[c] \in {"idle", "connecting"} => pc[c] \in {"idle", "connecting"},
         \A c \in Calls : pc'[c] = "waiting" => pc[c] = "waiting"
  PROVE  Rest'
<1>1. \A c \in Calls : Asked(c)' = Asked(c) /\ Id(c)' = Id(c) /\ Sharing(c)' = Sharing(c)
  BY DEF Asked, Id, Sharing
<1>2. \A c \in Calls : Asked(c) => since[c] \in Nat
  BY DEF IInv, TypeOK, Asked, Blocks
<1>3. Known'
  <2>1. \A c \in Calls : (pc[c] \in {"idle", "connecting"})' => ~Asked(c)'
    BY <1>1 DEF IInv, Known
  <2>2. \A c \in Calls : Asked(c)' => since'[c] <= now'
    BY <1>1, <1>2 DEF IInv, Known
  <2>3. /\ \A c \in timers' : Asked(c)'
        /\ \A r \in wire' : Asked(r.call)'
        /\ \A a \in answers' : Asked(a.call)' /\ a.at >= since'[a.call]
    BY DEF IInv, Known, Asked
  <2>4. \A i \in Ids : callbacks'[i] # None => Asked(callbacks[i])' /\ Id(callbacks[i])' = i
    BY DEF IInv, Known, Asked, Id
  <2>5. \A c \in Calls : got'[c] # None => Asked(c)' /\ Asked(got[c].call)'
    BY DEF IInv, Known, Asked
  <2>. QED
    BY <2>1, <2>2, <2>3, <2>4, <2>5 DEF Known
<1>4. EachIsTimed' /\ Replaced'
  BY <1>1 DEF IInv, EachIsTimed, Replaced
<1>5. AnswersAreOwn'
  BY DEF IInv, AnswersAreOwn
<1>6. AnswersAreTaken'
  BY DEF IInv, AnswersAreTaken, Sharing, Asked
<1>. QED
  BY <1>3, <1>4, <1>5, <1>6 DEF Rest

\* A call that asks: its id now leads to it, and whoever was behind it shares.
LEMMA SendKeeps ==
  ASSUME IInv, NEW c \in Calls, pc[c] \in {"idle", "connecting"}, NEW st, Send(c, st),
         UNCHANGED <<ask, answers, now, got, missed>>
  PROVE  Rest'
<1>1. PICK late \in Overdue(c) :
        /\ callbacks' = [Forget({i \in Ids : callbacks[i] \in late}) EXCEPT ![Id(c)] = c]
        /\ timers' = Armed(c)
        /\ wire' = IF Written(st) THEN wire \cup {[call |-> c, sock |-> socket]} ELSE wire
        /\ pc' = [d \in Calls |-> IF d = c THEN IF Refused(st) THEN "failed" ELSE "waiting"
                                  ELSE IF d \in late /\ pc[d] = "waiting" THEN "failed"
                                  ELSE pc[d]]
        /\ since' = [since EXCEPT ![c] = now]
  BY DEF Send
<1>2. /\ now \in Nat /\ now # None /\ None \notin Calls
      /\ \A d \in Calls : Id(d) = ask[d] /\ Id(d) \in Ids
      /\ \A d \in Calls : since[d] \in Nat \cup {None}
  BY CallsAssumption, BoundsAssumption DEF IInv, TypeOK, Blocks, Id
<1>3. /\ ~Asked(c) /\ since'[c] = now
      /\ \A d \in Calls : d # c => since'[d] = since[d]
  BY <1>1 DEF IInv, TypeOK, Known
<1>4. \A d \in Calls : (Asked(d)' <=> Asked(d) \/ d = c) /\ Id(d)' = Id(d)
  BY <1>2, <1>3 DEF Asked, Id
<1>5. \A d \in Calls : Sharing(d) => Sharing(d)'
  BY <1>4 DEF Sharing
<1>6. \A i \in Ids : callbacks'[i] = IF i = Id(c) THEN c
                                     ELSE IF callbacks[i] \in late THEN None ELSE callbacks[i]
  BY <1>1, <1>2 DEF Forget
<1>7. /\ timers' = timers \cup {c}
      /\ \A d \in Calls \ {c} : pc'[d] = IF d \in late /\ pc[d] = "waiting" THEN "failed" ELSE pc[d]
      /\ pc'[c] \in {"failed", "waiting"}
  BY <1>1 DEF Armed
<1>8. Known'
  <2>1. \A d \in Calls : pc'[d] \in {"idle", "connecting"} => ~Asked(d)'
    BY <1>4, <1>7 DEF IInv, Known
  <2>2. \A d \in Calls : Asked(d)' => since'[d] <= now'
    BY <1>2, <1>3, <1>4 DEF IInv, Known
  <2>3. \A d \in timers' : Asked(d)'
    BY <1>4, <1>7 DEF IInv, Known, TypeOK
  <2>4. \A r \in wire' : Asked(r.call)'
    BY <1>1, <1>4 DEF IInv, Known, TypeOK, Request
  <2>5. \A a \in answers' : Asked(a.call)' /\ a.at >= since'[a.call]
    BY <1>3, <1>4 DEF IInv, Known, TypeOK, Answer
  <2>6. ASSUME NEW i \in Ids, callbacks'[i] # None PROVE Asked(callbacks[i])' /\ Id(callbacks[i])' = i
    <3>1. callbacks'[i] \in Calls
      BY <1>6, <2>6 DEF IInv, TypeOK
    <3>2. CASE i = Id(c)
      BY <1>4, <1>6, <3>2 DEF Asked, Id
    <3>3. CASE i # Id(c)
      <4>1. callbacks'[i] = callbacks[i]
        BY <1>6, <2>6, <3>3
      <4>2. Asked(callbacks[i]) /\ Id(callbacks[i]) = i
        BY <2>6, <4>1 DEF IInv, Known
      <4>. QED
        BY <1>4, <3>1, <4>1, <4>2 DEF Asked, Id
    <3>. QED
      BY <3>2, <3>3
  <2>7. \A d \in Calls : got'[d] # None => Asked(d)' /\ Asked(got[d].call)'
    <3>1. \A d \in Calls : got[d] # None => got[d].call \in Calls /\ Asked(d) /\ Asked(got[d].call)
      BY DEF IInv, Known, TypeOK, Answer
    <3>. QED
      BY <1>4, <3>1 DEF Asked
  <2>. QED
    BY <2>1, <2>2, <2>3, <2>4, <2>5, <2>6, <2>7 DEF Known
<1>9. EachIsTimed'
  BY <1>6, <1>7 DEF IInv, EachIsTimed
<1>10. Replaced'
  <2>. SUFFICES ASSUME NEW d \in Calls, pc'[d] = "waiting", callbacks'[Id(d)] # d PROVE Sharing(d)'
    BY <1>4 DEF Replaced
  <2>1. d # c /\ pc[d] = "waiting" /\ d \notin late
    BY <1>2, <1>6, <1>7
  <2>2. CASE Id(d) = Id(c)
    BY <1>2, <1>4, <2>1, <2>2 DEF Sharing
  <2>3. CASE Id(d) # Id(c)
    <3>1. callbacks[Id(d)] # d
      BY <1>2, <1>6, <2>1, <2>3
    <3>. QED
      BY <1>5, <2>1, <3>1 DEF IInv, Replaced
  <2>. QED
    BY <2>2, <2>3
<1>11. AnswersAreOwn'
  <2>. SUFFICES ASSUME NEW d \in Calls, got[d] # None
                PROVE /\ ask[got[d].call] = ask[d]
                      /\ got[d].at >= since'[d] \/ (got[d].call # d /\ got[d].at >= since'[got[d].call])
    BY DEF AnswersAreOwn
  <2>1. /\ got[d].call \in Calls /\ Asked(d) /\ Asked(got[d].call)
        /\ ask[got[d].call] = ask[d]
        /\ got[d].at >= since[d] \/ (got[d].call # d /\ got[d].at >= since[got[d].call])
    BY DEF IInv, Known, TypeOK, Answer, AnswersAreOwn
  <2>. QED
    BY <1>3, <2>1
<1>12. AnswersAreTaken'
  BY <1>5 DEF IInv, TypeOK, AnswersAreTaken
<1>. QED
  BY <1>8, <1>9, <1>10, <1>11, <1>12 DEF Rest

\* A timeout empties an id: others with a callback there share it.
LEMMA TimeoutKeeps ==
  ASSUME IInv, NEW c \in Calls, Timeout(c)
  PROVE  Rest'
<1>1. /\ c \in timers /\ timers' = timers \ {c} /\ Asked(c)
      /\ UNCHANGED <<ask, wire, answers, now, since, got, missed>>
  BY DEF Timeout, settings, serverVars, IInv, Known
<1>2. \A i \in Ids : callbacks'[i] = IF i = Id(c) THEN None ELSE callbacks[i]
  BY DEF Timeout, Forget
<1>3. /\ \A d \in Calls \ {c} : pc'[d] = pc[d]
      /\ pc'[c] = IF pc[c] \in {"connecting", "waiting"} THEN "failed" ELSE pc[c]
  BY DEF Timeout, Settle
<1>4. \A d \in Calls : Asked(d)' = Asked(d) /\ Id(d)' = Id(d) /\ Sharing(d)' = Sharing(d) /\ Id(d) \in Ids
  BY <1>1 DEF Asked, Id, Sharing, IInv, TypeOK
<1>5. Known'
  <2>1. \A d \in Calls : pc'[d] \in {"idle", "connecting"} => ~Asked(d)'
    BY <1>1, <1>3 DEF IInv, Known, Asked
  <2>2. \A i \in Ids : callbacks'[i] # None => Asked(callbacks[i])' /\ Id(callbacks[i])' = i
    BY <1>1, <1>2 DEF IInv, Known, Asked, Id
  <2>3. /\ \A d \in Calls : Asked(d)' => since'[d] <= now'
        /\ \A d \in timers' : Asked(d)'
        /\ \A r \in wire' : Asked(r.call)'
        /\ \A a \in answers' : Asked(a.call)' /\ a.at >= since'[a.call]
        /\ \A d \in Calls : got'[d] # None => Asked(d)' /\ Asked(got[d].call)'
    BY <1>1 DEF IInv, Known, Asked
  <2>. QED
    BY <2>1, <2>2, <2>3 DEF Known
<1>6. EachIsTimed'
  <2>1. \A d \in Calls : pc'[d] = "waiting" => d \in timers'
    BY <1>1, <1>3 DEF IInv, EachIsTimed
  <2>2. ASSUME NEW i \in Ids, callbacks'[i] # None PROVE callbacks'[i] \in timers'
    <3>1. i # Id(c) /\ callbacks'[i] = callbacks[i] /\ Id(callbacks[i]) = i /\ callbacks[i] \in timers
      BY <1>2, <2>2 DEF IInv, EachIsTimed, Known
    <3>. QED
      BY <1>1, <3>1
  <2>. QED
    BY <2>1, <2>2 DEF EachIsTimed
<1>7. Replaced'
  <2>. SUFFICES ASSUME NEW d \in Calls, pc'[d] = "waiting", callbacks'[Id(d)] # d PROVE Sharing(d)
    BY <1>4 DEF Replaced
  <2>1. d # c /\ pc[d] = "waiting"
    BY <1>3
  <2>2. CASE Id(d) = Id(c)
    BY <1>1, <2>1, <2>2 DEF Sharing, Id
  <2>3. CASE Id(d) # Id(c)
    BY <1>2, <1>4, <2>1, <2>3 DEF IInv, Replaced
  <2>. QED
    BY <2>2, <2>3
<1>8. AnswersAreOwn' /\ AnswersAreTaken'
  BY <1>1, <1>4 DEF IInv, TypeOK, AnswersAreOwn, AnswersAreTaken
<1>. QED
  BY <1>5, <1>6, <1>7, <1>8 DEF Rest

\* An answer: what is under its id asked the same.
LEMMA ReceiveKeeps ==
  ASSUME IInv, NEW a \in answers, Receive(a)
  PROVE  Rest'
<1>. DEFINE c == callbacks[Id(a.call)]
<1>1. /\ a.call \in Calls /\ a \in Answer /\ Id(a.call) \in Ids
      /\ Asked(a.call) /\ a.at >= since[a.call]
      /\ answers' \subseteq answers
      /\ UNCHANGED <<ask, wire, now, since>>
  BY DEF Receive, settings, IInv, TypeOK, Known, Answer, Id
<1>2. \A d \in Calls : Asked(d)' = Asked(d) /\ Id(d)' = Id(d) /\ Sharing(d)' = Sharing(d) /\ Id(d) \in Ids
  BY <1>1 DEF Asked, Id, Sharing, IInv, TypeOK
<1>3. AnswersAreTaken'
  <2>1. \A d \in missed' \ missed : d = a.call /\ pc[d] = "waiting" /\ callbacks[Id(d)] # d
    BY DEF Receive
  <2>2. \A d \in missed' \ missed : d \in Calls /\ Sharing(d)
    BY <1>1, <2>1 DEF IInv, Replaced
  <2>. QED
    BY <1>2, <2>2 DEF IInv, TypeOK, AnswersAreTaken
<1>4. CASE c = None
  <2>1. UNCHANGED <<pc, got, callbacks, timers>>
    BY <1>4 DEF Receive
  <2>2. Known'
    BY <1>1, <2>1 DEF IInv, Known, Asked, Id
  <2>3. EachIsTimed' /\ Replaced' /\ AnswersAreOwn'
    BY <1>1, <1>2, <2>1 DEF IInv, EachIsTimed, Replaced, AnswersAreOwn
  <2>. QED
    BY <1>3, <2>2, <2>3 DEF Rest
<1>5. CASE c # None
  <2>1. /\ c \in Calls /\ Asked(c) /\ Id(c) = Id(a.call) /\ c \in timers
        /\ pc[c] \notin {"idle", "connecting"}
    BY <1>1, <1>5 DEF IInv, TypeOK, Known, EachIsTimed
  <2>2. /\ timers' = timers \ {c}
        /\ \A i \in Ids : callbacks'[i] = IF i = Id(a.call) THEN None ELSE callbacks[i]
        /\ got' = IF pc[c] = "waiting" THEN [got EXCEPT ![c] = a] ELSE got
    BY <1>5 DEF Receive, Forget
  <2>3. /\ \A d \in Calls \ {c} : pc'[d] = pc[d]
        /\ pc'[c] \notin {"idle", "connecting", "waiting"}
    <3>1. PICK outcome \in {"answered", "failed"} : Settle({c}, outcome)
      BY <1>5 DEF Receive
    <3>. QED
      BY <2>1, <3>1 DEF Settle, IInv, TypeOK
  <2>4. Known'
    <3>1. \A d \in Calls : pc'[d] \in {"idle", "connecting"} => ~Asked(d)'
      BY <1>2, <2>3 DEF IInv, Known
    <3>2. \A i \in Ids : callbacks'[i] # None => Asked(callbacks[i])' /\ Id(callbacks[i])' = i
      BY <1>1, <2>2 DEF IInv, Known, Asked, Id
    <3>3. /\ \A d \in Calls : Asked(d)' => since'[d] <= now'
          /\ \A d \in timers' : Asked(d)'
          /\ \A r \in wire' : Asked(r.call)'
          /\ \A b \in answers' : Asked(b.call)' /\ b.at >= since'[b.call]
      BY <1>1, <2>2 DEF IInv, Known, Asked
    <3>4. \A d \in Calls : got'[d] # None => Asked(d)' /\ Asked(got[d].call)'
      BY <1>1, <2>1, <2>2 DEF IInv, TypeOK, Known, Asked
    <3>. QED
      BY <3>1, <3>2, <3>3, <3>4 DEF Known
  <2>5. EachIsTimed'
    <3>1. \A d \in Calls : pc'[d] = "waiting" => d \in timers'
      BY <2>2, <2>3 DEF IInv, EachIsTimed
    <3>2. ASSUME NEW i \in Ids, callbacks'[i] # None PROVE callbacks'[i] \in timers'
      <4>1. /\ i # Id(c) /\ callbacks'[i] = callbacks[i] /\ Id(callbacks[i]) = i
            /\ callbacks[i] \in timers
        BY <2>1, <2>2, <3>2 DEF IInv, EachIsTimed, Known
      <4>. QED
        BY <2>2, <4>1
    <3>. QED
      BY <3>1, <3>2 DEF EachIsTimed
  <2>6. Replaced'
    <3>. SUFFICES ASSUME NEW d \in Calls, pc'[d] = "waiting", callbacks'[Id(d)] # d PROVE Sharing(d)
      BY <1>2 DEF Replaced
    <3>1. d # c /\ pc[d] = "waiting"
      BY <2>3
    <3>2. callbacks[Id(d)] # d
      BY <1>2, <2>2, <3>1
    <3>. QED
      BY <3>1, <3>2 DEF IInv, Replaced
  <2>7. AnswersAreOwn'
    <3>1. ask[a.call] = ask[c] /\ got'[c] \in {got[c], a} /\ \A d \in Calls \ {c} : got'[d] = got[d]
      BY <2>1, <2>2 DEF Id, IInv, TypeOK
    <3>2. \A d \in Calls : got[d] # None =>
              /\ ask[got[d].call] = ask[d]
              /\ got[d].at >= since[d] \/ (got[d].call # d /\ got[d].at >= since[got[d].call])
      BY DEF IInv, AnswersAreOwn
    <3>3. a.at >= since[c] \/ (a.call # c /\ a.at >= since[a.call])
      BY <1>1
    <3>4. \A d \in Calls : got'[d] # None =>
              /\ ask[got'[d].call] = ask[d]
              /\ got'[d].at >= since[d] \/ (got'[d].call # d /\ got'[d].at >= since[got'[d].call])
      BY <3>1, <3>2, <3>3
    <3>. QED
      BY <1>1, <3>4 DEF AnswersAreOwn
  <2>. QED
    BY <1>3, <2>4, <2>5, <2>6, <2>7 DEF Rest
<1>. QED
  BY <1>4, <1>5

\* The end of the process.
LEMMA GarbledKeeps ==
  ASSUME IInv, Garbled
  PROVE  Rest'
<1>1. /\ \A c \in Calls : pc'[c] \in Outcomes
      /\ \A i \in Ids : callbacks'[i] = None
      /\ timers' = {} /\ wire' = {} /\ answers' = {}
      /\ UNCHANGED <<ask, now, since, got, missed>>
  BY DEF Garbled, settings, Outcomes
<1>2. Known'
  BY <1>1 DEF IInv, Known, Asked, Outcomes
<1>3. EachIsTimed' /\ Replaced'
  BY <1>1 DEF EachIsTimed, Replaced, Outcomes
<1>4. AnswersAreOwn' /\ AnswersAreTaken'
  BY <1>1 DEF IInv, AnswersAreOwn, AnswersAreTaken, Sharing, Asked
<1>. QED
  BY <1>2, <1>3, <1>4 DEF Rest

LEMMA StepKeeps ==
  ASSUME IInv, [Next]_vars
  PROVE  IInv'
<1>. USE DEF settings, socketVars, serverVars
<1>1. now \in Nat /\ TypeOK
  BY BoundsAssumption DEF IInv, TypeOK, Blocks
<1>2. TypeOK'
  BY <1>1, TypeStep
<1>3. ASSUME NEW c \in Calls, Ask(c) PROVE Rest'
  BY <1>3, SendKeeps DEF Ask
<1>4. ASSUME NEW c \in Calls, Connect(c) PROVE Rest'
  <2>1. /\ UNCHANGED <<ask, callbacks, timers, wire, answers, now, since, got, missed>>
        /\ \A d \in Calls : pc'[d] \in {pc[d], "connecting"} /\ (d # c => pc'[d] = pc[d])
        /\ pc[c] = "idle"
    BY <1>1, <1>4 DEF Connect, TypeOK
  <2>. QED
    BY <1>1, <2>1, QuietKeeps
<1>5. ASSUME NEW s \in Sockets, Opened(s) PROVE Rest'
  <2>1. ASSUME NEW c \in Calls, pc[c] = "connecting", Send(c, state'[socket]) PROVE Rest'
    <3>1. UNCHANGED <<ask, answers, now, got, missed>>
      BY <1>5 DEF Opened
    <3>. QED
      BY <2>1, <3>1, SendKeeps
  <2>2. CASE UNCHANGED <<pc, callbacks, timers, wire, since>>
    <3>1. UNCHANGED <<ask, pc, callbacks, timers, wire, answers, now, since, got, missed>>
      BY <1>5, <2>2 DEF Opened
    <3>. QED
      BY <1>1, <3>1, QuietKeeps
  <2>. QED
    BY <1>5, <2>1, <2>2 DEF Opened
<1>6. ASSUME NEW s \in Sockets, Closed(s) PROVE Rest'
  <2>1. /\ UNCHANGED <<ask, callbacks, timers, now, since, got, missed>>
        /\ wire' \subseteq wire /\ answers' \subseteq answers
        /\ \A d \in Calls : pc'[d] \in {pc[d], "failed"}
    BY <1>6 DEF Closed, Settle
  <2>. QED
    BY <1>1, <2>1, QuietKeeps
<1>7. ASSUME NEW c \in Calls, ConnectTimeout(c) PROVE Rest'
  <2>1. /\ UNCHANGED <<ask, callbacks, timers, wire, answers, now, since, got, missed>>
        /\ \A d \in Calls : pc'[d] \in {pc[d], "failed"}
    BY <1>7 DEF ConnectTimeout, Settle
  <2>. QED
    BY <1>1, <2>1, QuietKeeps
<1>8. ASSUME NEW r \in wire, Serve(r) PROVE Rest'
  <2>1. /\ UNCHANGED <<ask, pc, callbacks, timers, now, since, got, missed>>
        /\ wire' \subseteq wire
        /\ answers' = answers \cup {[call |-> r.call, sock |-> r.sock, at |-> now]}
    BY <1>8 DEF Serve
  <2>2. r.call \in Calls /\ Asked(r.call) /\ since[r.call] <= now /\ since[r.call] \in Nat
    BY <1>1 DEF IInv, TypeOK, Request, Known, Asked, Blocks
  <2>3. \A a \in answers' \ answers : Asked(a.call) /\ a.at >= since[a.call]
    BY <1>1, <2>1, <2>2
  <2>. QED
    BY <1>1, <2>1, <2>3, QuietKeeps
<1>9. ASSUME Block PROVE Rest'
  <2>1. /\ UNCHANGED <<ask, pc, callbacks, timers, wire, answers, since, got, missed>>
        /\ now' = now + 1
    BY <1>9 DEF Block
  <2>2. now' \in Nat /\ now' >= now /\ wire' \subseteq wire /\ answers' \ answers = {}
    BY <1>1, <2>1
  <2>. QED
    BY <1>1, <2>1, <2>2, QuietKeeps
<1>10. ASSUME UNCHANGED vars PROVE Rest'
  <2>1. UNCHANGED <<ask, pc, callbacks, timers, wire, answers, now, since, got, missed>>
    BY <1>10 DEF vars
  <2>2. now' \in Nat /\ now' >= now /\ wire' \subseteq wire /\ answers' \ answers = {}
    BY <1>1, <2>1
  <2>. QED
    BY <1>1, <2>1, <2>2, QuietKeeps
<1>11. ASSUME NEW c \in Calls, Timeout(c) PROVE Rest'
  BY <1>11, TimeoutKeeps
<1>12. ASSUME NEW a \in answers, Receive(a) PROVE Rest'
  BY <1>12, ReceiveKeeps
<1>13. ASSUME Garbled PROVE Rest'
  BY <1>13, GarbledKeeps
<1>14. Rest'
  BY <1>3, <1>4, <1>5, <1>6, <1>7, <1>8, <1>9, <1>10, <1>11, <1>12, <1>13 DEF Next
<1>. QED
  BY <1>2, <1>14 DEF IInv, Rest

LEMMA Invariant == Spec => []IInv
  BY InitKeeps, StepKeeps, PTL DEF Spec
-----------------------------------------------------------------------------
\* The state of the client is always of its type.
THEOREM ElectrumTypeCorrect == Spec => []TypeOK
  BY Invariant, PTL DEF IInv

\* A call that waits has its timer armed, and so has every callback in the map,
\* whatever other calls, timeouts and answers under the same id have done to it.
THEOREM CallsTimed == Spec => []EachIsTimed
  BY Invariant, PTL DEF IInv

\* A call is answered with what it asked for, worked out since it, or a call
\* under the same id, asked.
THEOREM AnswersOwn == Spec => []AnswersAreOwn
  BY Invariant, PTL DEF IInv

\* A call misses its answer only to another call for the same batch.
THEOREM AnswersTaken == Spec => []AnswersAreTaken
  BY Invariant, PTL DEF IInv
=============================================================================
