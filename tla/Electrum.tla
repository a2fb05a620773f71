------------------------------ MODULE Electrum ------------------------------
(***************************************************************************)
(* The client through which the API asks an ElectrumX server: sockets,     *)
(* request ids, callbacks and timers, under any number of callers at once. *)
(* There is one client of a network, over TLS (ElectrumTcpClient) or a     *)
(* web socket (ElectrumWsClient), as the url says.                         *)
(*                                                                         *)
(* A call is one send or one sendMultiple.  The id of a request of send is *)
(* unique, that of a batch is a hash of the addresses asked for, so that   *)
(* calls for the same batch share it.  One action is one turn of the event *)
(* loop.  Empty batches, which are refused, are not asked for.             *)
(***************************************************************************)
EXTENDS Naturals

CONSTANTS
    Calls,         \* bound: the calls of a behaviour
    Batches,       \* sets of addresses that are asked for together
    Asks,          \* what the calls may ask for: see ask
    Kinds,         \* the classes of client a url may select
    MaxSockets,    \* bound: connections
    MaxBlocks,     \* bound: changes of what the server would answer
    None           \* no call, no answer

ASSUME AsksAssumption == Asks \subseteq {a \in [Calls -> Calls \cup Batches] :
                                             \A c \in Calls : a[c] \in Batches \cup {c}}
ASSUME CallsAssumption == Calls \cap Batches = {} /\ None \notin Calls \cup (0..MaxBlocks)
ASSUME KindsAssumption == Kinds \subseteq {"tcp", "ws"}
ASSUME BoundsAssumption == MaxSockets \in Nat /\ MaxBlocks \in Nat

VARIABLES
    kind,          \* class of the client
    ask,           \* what each call asks for: a batch, or a question of its own
    socket,        \* number of this.socket, 0 before the first
    state,         \* state of each socket
    pc,            \* where each call is; the last three are its outcomes
    on,            \* the socket whose opening it awaits
    callbacks,     \* the map: the call whose callback is under an id
    timers,        \* calls whose timeout is armed
    wire,          \* requests on the way
    answers,       \* answers on the way, computed at some block
    now,           \* block the server is at
    since,         \* history: block at which each call asked
    got,           \* history: the answers of calls
    missed         \* history: calls that waited while their answer passed

settings == <<kind, ask>>
socketVars == <<socket, state>>
serverVars == <<wire, answers, now>>
vars == <<settings, socketVars, pc, on, callbacks, timers, serverVars, since, got, missed>>

Ids == Calls \cup Batches
Sockets == 1..MaxSockets
Blocks == 0..MaxBlocks
Request == [call: Calls, sock: Sockets]
Answer == [call: Calls, sock: Sockets, at: Blocks]
Outcomes == {"answered", "failed", "gone"}

TypeOK ==
    /\ kind \in Kinds
    /\ ask \in [Calls -> Ids]
    /\ socket \in 0..MaxSockets
    /\ state \in [Sockets -> {"none", "connecting", "open", "closed"}]
    /\ \A s \in Sockets : s > socket => state[s] = "none"
    /\ pc \in [Calls -> {"idle", "connecting", "waiting"} \cup Outcomes]
    /\ on \in [Calls -> 0..MaxSockets]
    /\ callbacks \in [Ids -> Calls \cup {None}]
    /\ timers \subseteq Calls /\ missed \subseteq Calls
    /\ wire \subseteq Request /\ \A r \in wire : state[r.sock] \in {"connecting", "open"}
    /\ answers \subseteq Answer /\ \A a \in answers : state[a.sock] = "open"
    /\ now \in Blocks
    /\ since \in [Calls -> Blocks \cup {None}] /\ got \in [Calls -> Answer \cup {None}]

\* Mutant of Id: the hash is taken of the number of addresses.
IdOfSize(c) == IF ask[c] \in Batches THEN CHOOSE b \in Batches : TRUE ELSE ask[c]
Id(c) == ask[c]

\* A promise is settled once.
Settle(cs, outcome) == pc' = [c \in Calls |-> IF c \in cs /\ pc[c] \in {"connecting", "waiting"}
                                              THEN outcome ELSE pc[c]]
\* Mutant of Forget: the whole map is cleared.
ForgetAll(ids) == [i \in Ids |-> None]
Forget(ids) == [i \in Ids |-> IF i \in ids THEN None ELSE callbacks[i]]

\* check of the web socket client, in send: callbacks that are overdue before
\* their timers have had their turn; the timers stay.
Overdue(c) ==
    IF kind = "ws" /\ ask[c] = c THEN SUBSET ({callbacks[i] : i \in Ids} \ {None}) ELSE {{}}

\* Mutants: a call for a batch that is asked for already shares its timer; a TLS
\* socket that has been closed takes what is written.
ArmedOnce(c) == IF callbacks[Id(c)] = None THEN timers \cup {c} ELSE timers
WrittenAnyway(st) == st = "open" \/ kind = "tcp"

Armed(c) == timers \cup {c}
\* What becomes of the write: a TLS socket that is connecting keeps it, a web
\* socket throws; a closed one fails it or drops it without a word.
Written(st) == st = "open" \/ (kind = "tcp" /\ st = "connecting")
Refused(st) == IF kind = "tcp" THEN st = "closed" ELSE st = "connecting"

\* The rest of send and sendMultiple, once connect has returned with this.socket
\* in state st.
Send(c, st) ==
    \E late \in Overdue(c) :
        /\ callbacks' = [Forget({i \in Ids : callbacks[i] \in late}) EXCEPT ![Id(c)] = c]
        /\ timers' = Armed(c)
        /\ wire' = IF Written(st) THEN wire \cup {[call |-> c, sock |-> socket]} ELSE wire
        /\ pc' = [d \in Calls |-> IF d = c THEN IF Refused(st) THEN "failed" ELSE "waiting"
                                  ELSE IF d \in late /\ pc[d] = "waiting" THEN "failed"
                                  ELSE pc[d]]
        /\ since' = [since EXCEPT ![c] = now]

IsConnected == \E s \in Sockets : s = socket /\ state[s] = "open"
\* A TLS socket says it is open from the end of the TCP handshake on, while its
\* own handshake is still under way.
Ready == {s \in Sockets : state[s] = "open" \/ (kind = "tcp" /\ state[s] = "connecting")}

\* send or sendMultiple on a socket that is open, or says so.
Ask(c) ==
    /\ pc[c] = "idle"
    /\ socket \in Ready
    /\ Send(c, state[socket])
    /\ UNCHANGED <<settings, socketVars, on, answers, now, got, missed>>

\* Otherwise each call makes a socket of its own, which becomes this.socket.
Connect(c) ==
    /\ pc[c] = "idle"
    /\ ~IsConnected
    /\ socket < MaxSockets /\ socket' = socket + 1
    /\ state' = [state EXCEPT ![socket'] = "connecting"]
    /\ pc' = [pc EXCEPT ![c] = "connecting"]
    /\ on' = [on EXCEPT ![c] = socket']
    /\ UNCHANGED <<settings, callbacks, timers, serverVars, since, got, missed>>

\* A socket opens; who awaited it goes on with whatever is this.socket by now.
Opened(s) ==
    /\ state[s] = "connecting"
    /\ state' = [state EXCEPT ![s] = "open"]
    /\ \/ \E c \in Calls : pc[c] = "connecting" /\ on[c] = s /\ Send(c, state'[socket])
       \/ /\ \A c \in Calls : ~(pc[c] = "connecting" /\ on[c] = s)
          /\ UNCHANGED <<pc, callbacks, timers, wire, since>>
    /\ UNCHANGED <<settings, socket, on, answers, now, got, missed>>

\* A socket fails or is closed, with what is on it.  Who awaited it is told, and
\* by TLS who had written to it before it opened.
Closed(s) ==
    /\ state[s] \in {"connecting", "open"}
    /\ state' = [state EXCEPT ![s] = "closed"]
    /\ Settle({c \in Calls : pc[c] = "connecting" /\ on[c] = s}
              \cup (IF state[s] = "open" THEN {} ELSE {r.call : r \in {q \in wire : q.sock = s}}),
              "failed")
    /\ wire' = {r \in wire : r.sock # s}
    /\ answers' = {a \in answers : a.sock # s}
    /\ UNCHANGED <<settings, socket, on, callbacks, timers, now, since, got, missed>>

\* The web socket client gives up on a connection; the socket goes on.
ConnectTimeout(c) ==
    /\ kind = "ws" /\ pc[c] = "connecting"
    /\ Settle({c}, "failed")
    /\ UNCHANGED <<settings, socketVars, on, callbacks, timers, serverVars, since, got, missed>>

Serve(r) ==
    /\ r \in wire /\ state[r.sock] = "open"
    /\ wire' = wire \ {r}
    /\ answers' = answers \cup {[call |-> r.call, sock |-> r.sock, at |-> now]}
    /\ UNCHANGED <<settings, socketVars, pc, on, callbacks, timers, now, since, got, missed>>

\* An answer meets the callback under its id, if any.  The answer of a batch is
\* an answer even if elements of it are errors; that of send may be an error.
Receive(a) ==
    /\ a \in answers
    /\ answers' = answers \ {a}
    /\ LET c == callbacks[Id(a.call)] IN
           /\ IF c = None
              THEN UNCHANGED <<pc, got, callbacks, timers>>
              ELSE /\ \E outcome \in IF ask[c] \in Batches THEN {"answered"} ELSE {"answered", "failed"} :
                          Settle({c}, outcome)
                   /\ got' = IF pc[c] = "waiting" THEN [got EXCEPT ![c] = a] ELSE got
                   /\ callbacks' = Forget({Id(a.call)})
                   /\ timers' = timers \ {c}
           /\ missed' = IF pc[a.call] = "waiting" /\ c # a.call THEN missed \cup {a.call} ELSE missed
    /\ UNCHANGED <<settings, socketVars, on, wire, now, since>>

\* Mutant of Timeout: the promise is not rejected.
TimeoutSilently(c) ==
    /\ c \in timers
    /\ timers' = timers \ {c}
    /\ callbacks' = Forget({Id(c)})
    /\ UNCHANGED <<settings, socketVars, pc, on, serverVars, since, got, missed>>

\* The timeout of a call empties its id, whosever callback is there by now.
Timeout(c) ==
    /\ c \in timers
    /\ timers' = timers \ {c}
    /\ callbacks' = Forget({Id(c)})
    /\ Settle({c}, "failed")
    /\ UNCHANGED <<settings, socketVars, on, serverVars, since, got, missed>>

\* TLS delivers chunks: one that is not exactly one answer is no JSON, and what
\* handleResponse throws ends the process.
Garbled ==
    /\ kind = "tcp"
    /\ answers # {}
    /\ pc' = [c \in Calls |-> IF pc[c] \in Outcomes THEN pc[c] ELSE "gone"]
    /\ callbacks' = [i \in Ids |-> None]
    /\ timers' = {} /\ wire' = {} /\ answers' = {}
    /\ state' = [s \in Sockets |-> IF state[s] = "none" THEN "none" ELSE "closed"]
    /\ UNCHANGED <<settings, socket, on, now, since, got, missed>>

Block ==
    /\ now < MaxBlocks /\ now' = now + 1
    /\ UNCHANGED <<settings, socketVars, pc, on, callbacks, timers, wire, answers, since, got, missed>>

Init ==
    /\ kind \in Kinds /\ ask \in Asks
    /\ socket = 0 /\ state = [s \in Sockets |-> "none"]
    /\ pc = [c \in Calls |-> "idle"] /\ on = [c \in Calls |-> 0]
    /\ callbacks = [i \in Ids |-> None] /\ timers = {}
    /\ wire = {} /\ answers = {} /\ now = 0
    /\ since = [c \in Calls |-> None] /\ got = [c \in Calls |-> None] /\ missed = {}

Next ==
    \/ \E c \in Calls : Ask(c) \/ Connect(c) \/ ConnectTimeout(c) \/ Timeout(c)
    \/ \E s \in Sockets : Opened(s) \/ Closed(s)
    \/ \E r \in wire : Serve(r)
    \/ \E a \in answers : Receive(a)
    \/ Garbled \/ Block

Spec == Init /\ [][Next]_vars

\* Timers go off, and a connection is made or fails.
Connects(s) == state[s] = "connecting" /\ (Opened(s) \/ Closed(s))
FairSpec ==
    /\ Spec
    /\ \A c \in Calls : WF_vars(Timeout(c)) /\ WF_vars(ConnectTimeout(c))
    /\ \A s \in Sockets : WF_vars(Connects(s))
-----------------------------------------------------------------------------
Asked(c) == since[c] # None
Sharing(c) == \E d \in Calls \ {c} : ask[d] = ask[c] /\ Asked(d)

\* Whatever timeouts, late answers and calls with one id do to one another's
\* callbacks, a call that waits has its own timer armed, and so has every
\* callback in the map, which therefore empties (electrum-tcp-client.ts:47, 78).
EachIsTimed ==
    /\ \A c \in Calls : pc[c] = "waiting" => c \in timers
    /\ \A i \in Ids : callbacks[i] # None => callbacks[i] \in timers

\* A call is given an answer to what it asked, worked out after it asked unless
\* another call had asked the same (electrum-tcp-client.ts:44, 71).
AnswersAreOwn ==
    \A c \in Calls :
        got[c] # None =>
            /\ ask[got[c].call] = ask[c]
            /\ got[c].at >= since[c] \/ (got[c].call # c /\ got[c].at >= since[got[c].call])

\* No call is left to its timeout after its answer has arrived, unless another
\* asked for the same batch (electrum-tcp-client.ts:51).
AnswersAreTaken == \A c \in missed : Sharing(c)

\* No call waits for ever: each ends with an answer or an error.
CallsEnd == <>[](\A c \in Calls : pc[c] \notin {"connecting", "waiting"})
=============================================================================
