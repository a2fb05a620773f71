------------------------------ MODULE Funding ------------------------------
(***************************************************************************)
(* The on-chain funding of the exchanges: the addresses the exchanges      *)
(* submit, the background cycle that reads their balances from the chain,  *)
(* and the HTTP requests that change them meanwhile.                       *)
(*                                                                         *)
(* The API is one JavaScript process on a MongoDB without transactions:    *)
(* code between two awaits is atomic, so one action is one database call   *)
(* with the code up to the next one.  The collection fundingAddresses is   *)
(* "stored" and "rows"; what updateStatus derives from it in the exchange  *)
(* document is "funds".  At most one execution cycle runs at a time        *)
(* (isProcessing); any number of requests run beside it.                   *)
(***************************************************************************)
EXTENDS Naturals, Sequences, FiniteSets

CONSTANTS
    Exchanges,      \* exchange ids, numbers: the batch query sorts by them
    Addresses,      \* bitcoin addresses
    Mainnet,        \* the addresses that belong to mainnet, not testnet
    Messages,       \* what the exchanges sign: meant to be block hashes
    Blocks,         \* the messages that name a block of the chain
    Balances,       \* balances the chain may report
    RowIds,         \* bound: the document ids the database can hand out
    Requests,       \* bound: the HTTP requests and commands of a behaviour
    Operations,     \* the kinds of request that are made
    Submissions,    \* bound: the bodies of the submissions
    Seed,           \* the documents the collection holds at start-up
    BatchSize,      \* addresses read from the database at once (100)
    Outages,        \* whether calls to the bitcoin nodes may fail
    MaxCrashes      \* bound: restarts of the API process

Statuses == {"pending", "active", "failed", "cancelled"}
MaxRetries == 3

Row == [exch: Exchanges, addr: Addresses, msg: Messages,
        status: Statuses, retry: 0..MaxRetries, bal: Nat]

NetworkOf(a) == IF a \in Mainnet THEN "mainnet" ELSE "testnet"

Item == [addr: Addresses, msg: Messages]

AddressesOf(s) == {s.items[i].addr : i \in DOMAIN s.items}

ASSUME ExchangesAssumption == Exchanges \subseteq Nat /\ Exchanges # {}

ASSUME ChainAssumption ==
    /\ Addresses # {}
    /\ Mainnet \subseteq Addresses
    /\ Messages # {}
    /\ Blocks \subseteq Messages
    /\ Balances \subseteq Nat

ASSUME RowIdsAssumption == RowIds \subseteq Nat

\* "signed": every signature of the body verifies (Bip84Utils.verify).
ASSUME SubmissionsAssumption ==
    /\ Submissions # {}
    /\ Submissions \subseteq [reset: BOOLEAN, signed: BOOLEAN, items: Seq(Item)]
    /\ \A s \in Submissions : s.items # <<>>

\* What an idle system leaves behind: nothing half retried, and every exchange
\* on one network with each address once.
ASSUME SeedAssumption ==
    /\ DOMAIN Seed \subseteq RowIds
    /\ \A id \in DOMAIN Seed :
         Seed[id] \in Row /\ (Seed[id].status = "pending" => Seed[id].retry = 0)
    /\ \A x, y \in DOMAIN Seed : Seed[x].exch = Seed[y].exch =>
         /\ NetworkOf(Seed[x].addr) = NetworkOf(Seed[y].addr)
         /\ Seed[x].addr = Seed[y].addr => x = y

ASSUME LimitsAssumption == BatchSize \in Nat \ {0} /\ Outages \in BOOLEAN /\ MaxCrashes \in Nat

VARIABLES
    stored,   \* ids of the documents in the collection
    issued,   \* ids ever handed out
    rows,     \* the documents; of a deleted one, what a reader may still hold
    funds,    \* per exchange, the rows and balances its currentFunds sums up
    phase,    \* where the execution cycle is; "idle" is ~isProcessing
    net,      \* the network it processes
    batch,    \* the rows it read as pending
    todo,     \* exchanges of the batch still to loop over
    current,  \* the exchange of this turn of the loop
    round,    \* i in handleProcessingFailure
    left,     \* failedAddressIds there
    hits,     \* retrySubSetIds there
    counted,  \* the active rows updateStatus has read for the cycle
    pc,       \* where each request is
    job,      \* its parameters
    updates,  \* rows it is about to update
    inserts,  \* items of its submission it is about to insert
    seen,     \* the active rows updateStatus has read for it
    overlap,  \* history: exchanges two submissions of which ran at once
    crashes

dbVars == <<stored, issued, rows>>
cycleVars == <<phase, net, batch, todo, current, round, left, hits, counted>>
requestVars == <<pc, job, updates, inserts, seen>>
vars == <<dbVars, funds, cycleVars, requestVars, overlap, crashes>>

----------------------------------------------------------------------------
(* Queries and updates of the collection.                                  *)

Stored(e) == {id \in stored : rows[id].exch = e}
Pending(id) == id \in stored /\ rows[id].status = "pending"

\* Faulty variant: rows that have failed are tried again.
PendingOrFailedOn(n) ==
    {id \in stored : rows[id].status \in {"pending", "failed"} /\ NetworkOf(rows[id].addr) = n}

\* What processAddresses asks for.
PendingOn(n) == {id \in stored : Pending(id) /\ NetworkOf(rows[id].addr) = n}

\* The ACTIVE rows of e with the balances that updateStatus adds up.
ActiveFunds(e) ==
    {<<id, rows[id].bal>> : id \in {x \in Stored(e) : rows[x].status = "active"}}

\* The rows S with status s; the others as they are.
WithStatus(S, s) ==
    [id \in RowIds |-> IF id \in S THEN [rows[id] EXCEPT !.status = s] ELSE rows[id]]

\* Faulty variant: the retries already used up stay used up.
RequeuedAsIs(S) == WithStatus(S, "pending")

\* The rows S queued (again): pending, with a fresh retry budget.
Requeued(S) ==
    [id \in RowIds |-> IF id \in S
        THEN [rows[id] EXCEPT !.status = "pending", !.retry = 0] ELSE rows[id]]

\* The rows S active with the balances b of their addresses.
Activated(S, b) ==
    [id \in RowIds |-> IF id \in S
        THEN [rows[id] EXCEPT !.status = "active", !.bal = b[rows[id].addr]] ELSE rows[id]]

Retried(S, n) ==
    [id \in RowIds |-> IF id \in S THEN [rows[id] EXCEPT !.retry = n] ELSE rows[id]]

\* deleteMany.  A deleted document is only known to who read it before, and of
\* what it reads later nobody uses more than exch, addr and msg.
Delete(S) ==
    /\ stored' = stored \ S
    /\ rows' = [id \in RowIds |-> IF id \in S
                  THEN [rows[id] EXCEPT !.status = "cancelled", !.retry = 0, !.bal = 0]
                  ELSE rows[id]]
    /\ UNCHANGED issued

\* The ids insertMany gives the documents S: the first of those free, in order.
FirstIds(S, Free) ==
    {p \in [S -> Free] :
        /\ \A i, j \in S : i < j => p[i] < p[j]
        /\ \A i \in S : \A id \in Free : id < p[i] => \E j \in S : p[j] = id}

\* Faulty variant: ids of deleted documents are used again.
ReusedIds(S) == FirstIds(S, RowIds \ stored)

FreshIds(S) == FirstIds(S, RowIds \ issued)

----------------------------------------------------------------------------
(* Requests.  A request that has answered is "done" and keeps nothing.      *)

Job == [exch: Exchanges, sub: Submissions]
NoJob == CHOOSE j \in Job : TRUE

Return(r) ==
    /\ pc' = [pc EXCEPT ![r] = "done"]
    /\ job' = [job EXCEPT ![r] = NoJob]
    /\ updates' = [updates EXCEPT ![r] = {}]
    /\ inserts' = [inserts EXCEPT ![r] = {}]
    /\ seen' = [seen EXCEPT ![r] = {}]

Goto(r, label) == pc' = [pc EXCEPT ![r] = label]

Receives(r, kind) == pc[r] = "ready" /\ kind \in Operations

InSubmission(r) == pc[r] \in {"validate", "lookup", "update", "insert"}

\* A submission of exchange e is under way when r starts one.
NoteOverlap(r, e) ==
    overlap' = IF \E q \in Requests \ {r} : InSubmission(q) /\ job[q].exch = e
               THEN overlap \cup {e} ELSE overlap

\* Faulty variant: only the addresses of the body are compared.
AcceptedAlone(e, s) == s.signed /\ \A a, b \in AddressesOf(s) : NetworkOf(a) = NetworkOf(b)

\* validateSignatures and validateAddressNetwork, the latter on the addresses
\* the exchange has when they are read.
Accepted(e, s) ==
    /\ s.signed
    /\ \A a, b \in AddressesOf(s) : NetworkOf(a) = NetworkOf(b)
    /\ \A id \in Stored(e) : \A a \in AddressesOf(s) :
         NetworkOf(rows[id].addr) = NetworkOf(a)

\* resetFunding: the rows go before anything is validated.
SubmitWithReset(r) ==
    /\ Receives(r, "submit")
    /\ \E e \in Exchanges, s \in Submissions :
         /\ s.reset
         /\ job' = [job EXCEPT ![r] = [exch |-> e, sub |-> s]]
         /\ Delete(Stored(e))
         /\ NoteOverlap(r, e)
    /\ Goto(r, "validate")
    /\ UNCHANGED <<funds, cycleVars, updates, inserts, seen, crashes>>

SubmitValidate(r) ==
    /\ pc[r] = "validate"
    /\ IF Accepted(job[r].exch, job[r].sub)
       THEN Goto(r, "lookup") /\ UNCHANGED <<job, updates, inserts, seen>>
       ELSE Return(r)
    /\ UNCHANGED <<dbVars, funds, cycleVars, overlap, crashes>>

Submit(r) ==
    /\ Receives(r, "submit")
    /\ \E e \in Exchanges, s \in Submissions :
         /\ ~s.reset
         /\ IF Accepted(e, s)
            THEN /\ job' = [job EXCEPT ![r] = [exch |-> e, sub |-> s]]
                 /\ Goto(r, "lookup")
                 /\ NoteOverlap(r, e)
                 /\ UNCHANGED <<updates, inserts, seen>>
            ELSE Return(r) /\ UNCHANGED overlap
    /\ UNCHANGED <<dbVars, funds, cycleVars, crashes>>

\* Faulty variant: a row that is not active is not found.
KnownActiveRows(e, s) ==
    {id \in Stored(e) : rows[id].addr \in AddressesOf(s) /\ rows[id].status = "active"}

\* The rows the exchange already has for addresses of the submission.
KnownRows(e, s) == {id \in Stored(e) : rows[id].addr \in AddressesOf(s)}

\* One row for each address that has any is queued again; items of the other
\* addresses are to be inserted, each on its own.
SubmitLookup(r) ==
    LET items == job[r].sub.items
        known == KnownRows(job[r].exch, job[r].sub)
    IN  /\ pc[r] = "lookup"
        /\ \E S \in SUBSET known :
             /\ \A x, y \in S : rows[x].addr = rows[y].addr => x = y
             /\ \A x \in known : \E y \in S : rows[x].addr = rows[y].addr
             /\ updates' = [updates EXCEPT ![r] = S]
             /\ Goto(r, IF S # {} THEN "update" ELSE "insert")
        /\ inserts' = [inserts EXCEPT ![r] =
             {i \in DOMAIN items : \A id \in known : rows[id].addr # items[i].addr}]
        /\ UNCHANGED <<dbVars, funds, cycleVars, job, seen, overlap, crashes>>

SubmitUpdate(r) ==
    /\ pc[r] = "update"
    /\ rows' = Requeued(updates[r] \cap stored)
    /\ IF inserts[r] # {}
       THEN Goto(r, "insert") /\ UNCHANGED <<job, updates, inserts, seen>>
       ELSE Return(r)
    /\ UNCHANGED <<stored, issued, funds, cycleVars, overlap, crashes>>

SubmitInsert(r) ==
    /\ pc[r] = "insert"
    /\ \E p \in FreshIds(inserts[r]) :
         LET new == {p[i] : i \in inserts[r]}
             item(id) == job[r].sub.items[CHOOSE i \in inserts[r] : p[i] = id]
         IN  /\ stored' = stored \cup new
             /\ issued' = issued \cup new
             /\ rows' = [id \in RowIds |-> IF id \in new
                  THEN [exch |-> job[r].exch, addr |-> item(id).addr, msg |-> item(id).msg,
                        status |-> "pending", retry |-> 0, bal |-> 0]
                  ELSE rows[id]]
    /\ Return(r)
    /\ UNCHANGED <<funds, cycleVars, overlap, crashes>>

CancelPending(r) ==
    /\ Receives(r, "cancel")
    /\ \E e \in Exchanges :
         /\ rows' = WithStatus({id \in Stored(e) : Pending(id)}, "cancelled")
         /\ job' = [job EXCEPT ![r].exch = e]
    /\ Goto(r, "tally")
    /\ UNCHANGED <<stored, issued, funds, cycleVars, updates, inserts, seen, overlap, crashes>>

DeleteAddress(r) ==
    /\ Receives(r, "delete")
    /\ \E e \in Exchanges, a \in Addresses :
         /\ Delete({id \in Stored(e) : rows[id].addr = a})
         /\ job' = [job EXCEPT ![r].exch = e]
    /\ Goto(r, "tally")
    /\ UNCHANGED <<funds, cycleVars, updates, inserts, seen, overlap, crashes>>

\* findOne({address}) takes a row of any exchange; only its owner and system
\* administrators may go on.
RefreshAddress(r) ==
    /\ Receives(r, "refreshAddress")
    /\ \E e \in Exchanges, isSystemAdmin \in BOOLEAN, id \in stored :
         IF ~isSystemAdmin /\ rows[id].exch # e
         THEN Return(r)
         ELSE /\ job' = [job EXCEPT ![r].exch = rows[id].exch]
              /\ updates' = [updates EXCEPT ![r] = {id}]
              /\ Goto(r, "refresh")
              /\ UNCHANGED <<inserts, seen>>
    /\ UNCHANGED <<dbVars, funds, cycleVars, overlap, crashes>>

\* The balance has come, or the call has failed.
RefreshAddressWrite(r) ==
    LET S == updates[r] \cap stored
    IN  /\ pc[r] = "refresh"
        /\ \/ \E b \in Balances : rows' = Activated(S, [a \in Addresses |-> b])
           \/ /\ Outages
              /\ rows' = [id \in RowIds |-> IF id \in S
                   THEN [rows[id] EXCEPT !.status = "failed", !.bal = 0] ELSE rows[id]]
        /\ Goto(r, "tally")
        /\ UNCHANGED <<stored, issued, funds, cycleVars, job, updates, inserts, seen,
                       overlap, crashes>>

\* updateStatus: the active rows are read, then written to the exchange.
Tally(r) ==
    /\ pc[r] = "tally"
    /\ seen' = [seen EXCEPT ![r] = ActiveFunds(job[r].exch)]
    /\ Goto(r, "record")
    /\ UNCHANGED <<dbVars, funds, cycleVars, job, updates, inserts, overlap, crashes>>

Record(r) ==
    /\ pc[r] = "record"
    /\ funds' = [funds EXCEPT ![job[r].exch] = seen[r]]
    /\ Return(r)
    /\ UNCHANGED <<dbVars, cycleVars, overlap, crashes>>

RefreshExchange(r) ==
    /\ Receives(r, "refreshExchange")
    /\ \E e \in Exchanges : rows' = Requeued(Stored(e))
    /\ Goto(r, "trigger")
    /\ UNCHANGED <<stored, issued, funds, cycleVars, job, updates, inserts, seen,
                   overlap, crashes>>

\* The refresh-balances command, a process of its own.
RefreshAll(r) ==
    /\ Receives(r, "refreshAll")
    /\ rows' = Requeued(stored)
    /\ Return(r)
    /\ UNCHANGED <<stored, issued, funds, cycleVars, overlap, crashes>>

----------------------------------------------------------------------------
(* The execution cycle.                                                    *)

\* executionCycle, once it has found isProcessing unset.
StartCycle ==
    /\ phase' = "find"
    /\ net' = "mainnet"
    /\ UNCHANGED <<batch, todo, current, round, left, hits, counted>>

Cron ==
    /\ phase = "idle"
    /\ StartCycle
    /\ UNCHANGED <<dbVars, funds, requestVars, overlap, crashes>>

Trigger(r) ==
    /\ pc[r] = "trigger"
    /\ IF phase = "idle" THEN StartCycle ELSE UNCHANGED cycleVars
    /\ Return(r)
    /\ UNCHANGED <<dbVars, funds, overlap, crashes>>

\* The first BatchSize of the rows P in the order of their exchanges.
FirstOf(P) ==
    {B \in SUBSET P :
        /\ Cardinality(B) = IF Cardinality(P) < BatchSize THEN Cardinality(P) ELSE BatchSize
        /\ \A x \in B, y \in P \ B : rows[x].exch <= rows[y].exch}

\* processAddresses asks for pending rows until there are none, for mainnet
\* and then for testnet; then isProcessing is cleared.
FindBatch ==
    /\ phase = "find"
    /\ PendingOn(net) # {}
    /\ \E B \in FirstOf(PendingOn(net)) :
         /\ batch' = B
         /\ todo' = {rows[id].exch : id \in B}
    /\ phase' = "balances"
    /\ UNCHANGED <<dbVars, funds, net, current, round, left, hits, counted, requestVars,
                   overlap, crashes>>

\* Faulty variant: the cycle ends after mainnet.
NoBatchOnMainnet ==
    /\ phase = "find"
    /\ PendingOn(net) = {}
    /\ phase' = "idle"
    /\ UNCHANGED <<dbVars, funds, net, batch, todo, current, round, left, hits, counted,
                   requestVars, overlap, crashes>>

NoBatch ==
    /\ phase = "find"
    /\ PendingOn(net) = {}
    /\ phase' = IF net = "mainnet" THEN "find" ELSE "idle"
    /\ net' = "testnet"
    /\ UNCHANGED <<dbVars, funds, batch, todo, current, round, left, hits, counted,
                   requestVars, overlap, crashes>>

\* On to the next exchange of the batch, T being those left, or to the query.
NextTurn(T) ==
    /\ phase' = IF T = {} THEN "find" ELSE "balances"
    /\ batch' = IF T = {} THEN {} ELSE batch
    /\ round' = 0
    /\ left' = {}
    /\ hits' = {}
    /\ counted' = {}

\* The exchanges come in the order of the rows.
TakeExchange ==
    \E e \in todo :
        /\ \A x \in todo : e <= x
        /\ current' = e
        /\ todo' = todo \ {e}

\* A turn of the loop over the exchanges asks the nodes about the WHOLE batch,
\* and writes what they say by document id, whatever has become of the row.
ApplyBatch ==
    /\ phase = "balances"
    /\ \A id \in batch : rows[id].msg \in Blocks
    /\ \E b \in [{rows[id].addr : id \in batch} -> Balances] :
         rows' = Activated(batch \cap stored, b)
    /\ TakeExchange
    /\ phase' = "tally"
    /\ UNCHANGED <<stored, issued, funds, net, batch, round, left, hits, counted, requestVars,
                   overlap, crashes>>

\* Faulty variant: only the rows of the batch are added up.
TallyBatchAlone ==
    /\ phase = "tally"
    /\ counted' = {p \in ActiveFunds(current) : p[1] \in batch}
    /\ phase' = "record"
    /\ UNCHANGED <<dbVars, funds, net, batch, todo, current, round, left, hits, requestVars,
                   overlap, crashes>>

\* updateStatus for the exchange of this turn.
TallyBatch ==
    /\ phase = "tally"
    /\ counted' = ActiveFunds(current)
    /\ phase' = "record"
    /\ UNCHANGED <<dbVars, funds, net, batch, todo, current, round, left, hits, requestVars,
                   overlap, crashes>>

RecordBatch ==
    /\ phase = "record"
    /\ funds' = [funds EXCEPT ![current] = counted]
    /\ NextTurn(todo)
    /\ UNCHANGED <<dbVars, net, todo, current, requestVars, overlap, crashes>>

\* One bad message, or one failed call, fails the whole batch.
FailBatch ==
    /\ phase = "balances"
    /\ Outages \/ \E id \in batch : rows[id].msg \notin Blocks
    /\ TakeExchange
    /\ phase' = "retry"
    /\ round' = 0
    /\ left' = batch
    /\ UNCHANGED <<dbVars, funds, net, batch, hits, counted, requestVars, overlap, crashes>>

\* Faulty variant: one round too many.
AfterRoundInclusive == IF round < MaxRetries THEN "retry" ELSE "giveUp"

AfterRound == IF round + 1 < MaxRetries THEN "retry" ELSE "giveUp"

FindRetries ==
    /\ phase = "retry"
    /\ hits' = {id \in left : Pending(id) /\ rows[id].retry = round}
    /\ IF hits' = {}
       THEN phase' = AfterRound /\ round' = round + 1
       ELSE phase' = "bump" /\ UNCHANGED round
    /\ left' = left \ hits'
    /\ UNCHANGED <<dbVars, funds, net, batch, todo, current, counted, requestVars,
                   overlap, crashes>>

\* By id alone: the rows may no longer be pending, or have been queued anew.
BumpRetries ==
    /\ phase = "bump"
    /\ rows' = Retried(hits \cap stored, round + 1)
    /\ hits' = {}
    /\ phase' = AfterRound
    /\ round' = round + 1
    /\ UNCHANGED <<stored, issued, funds, net, batch, todo, current, left, counted, requestVars,
                   overlap, crashes>>

\* Faulty variant: the limit itself is still allowed.
OverLimit(id) == rows[id].retry > MaxRetries

Exhausted(id) == rows[id].retry >= MaxRetries

\* Out of retries.  The exchange's status is not recomputed.
GiveUp ==
    /\ phase = "giveUp"
    /\ rows' = WithStatus({id \in batch : Pending(id) /\ Exhausted(id)}, "failed")
    /\ NextTurn(todo)
    /\ UNCHANGED <<stored, issued, funds, net, todo, current, counted, requestVars,
                   overlap, crashes>>

----------------------------------------------------------------------------

\* The API process dies and is started again: the database is all that stays.
Restart ==
    /\ crashes < MaxCrashes
    /\ crashes' = crashes + 1
    /\ phase' = "idle"
    /\ batch' = {}
    /\ todo' = {}
    /\ round' = 0
    /\ left' = {}
    /\ hits' = {}
    /\ counted' = {}
    /\ pc' = [r \in Requests |-> IF pc[r] = "ready" THEN "ready" ELSE "done"]
    /\ job' = [r \in Requests |-> NoJob]
    /\ updates' = [r \in Requests |-> {}]
    /\ inserts' = [r \in Requests |-> {}]
    /\ seen' = [r \in Requests |-> {}]
    /\ UNCHANGED <<dbVars, funds, net, current, overlap>>

\* What "rows" holds of an id that is not handed out yet.
NoRow == [exch |-> CHOOSE e \in Exchanges : TRUE, addr |-> CHOOSE a \in Addresses : TRUE,
          msg |-> CHOOSE m \in Messages : TRUE, status |-> "cancelled", retry |-> 0, bal |-> 0]

Init ==
    /\ stored = DOMAIN Seed
    /\ issued = DOMAIN Seed
    /\ rows = [id \in RowIds |-> IF id \in DOMAIN Seed THEN Seed[id] ELSE NoRow]
    /\ funds = [e \in Exchanges |-> ActiveFunds(e)]
    /\ phase = "idle"
    /\ net = "mainnet"
    /\ batch = {}
    /\ todo = {}
    /\ current = CHOOSE e \in Exchanges : TRUE
    /\ round = 0
    /\ left = {}
    /\ hits = {}
    /\ counted = {}
    /\ pc = [r \in Requests |-> "ready"]
    /\ job = [r \in Requests |-> NoJob]
    /\ updates = [r \in Requests |-> {}]
    /\ inserts = [r \in Requests |-> {}]
    /\ seen = [r \in Requests |-> {}]
    /\ overlap = {}
    /\ crashes = 0

\* The steps of a request after the one that receives it.
Proceed(r) ==
    \/ SubmitValidate(r)
    \/ SubmitLookup(r)
    \/ SubmitUpdate(r)
    \/ SubmitInsert(r)
    \/ RefreshAddressWrite(r)
    \/ Tally(r)
    \/ Record(r)
    \/ Trigger(r)

Receive(r) ==
    \/ Submit(r)
    \/ SubmitWithReset(r)
    \/ CancelPending(r)
    \/ DeleteAddress(r)
    \/ RefreshAddress(r)
    \/ RefreshExchange(r)
    \/ RefreshAll(r)

Cycle ==
    \/ FindBatch
    \/ NoBatch
    \/ ApplyBatch
    \/ TallyBatch
    \/ RecordBatch
    \/ FailBatch
    \/ FindRetries
    \/ BumpRetries
    \/ GiveUp

Next ==
    \/ \E r \in Requests : Receive(r) \/ Proceed(r)
    \/ Cron
    \/ Cycle
    \/ Restart

Spec == Init /\ [][Next]_vars

\* The timer keeps firing, and every database or node call comes back: drivers
\* and axios time out.  Nobody has to make a request.
Fairness ==
    /\ WF_vars(Cron)
    /\ WF_vars(Cycle)
    /\ \A r \in Requests : WF_vars(Proceed(r))

FairSpec == Spec /\ Fairness

----------------------------------------------------------------------------
(* Properties.                                                             *)

Labels == {"ready", "validate", "lookup", "update", "insert", "refresh", "tally", "record",
           "trigger", "done"}
Phases == {"idle", "find", "balances", "tally", "record", "retry", "bump", "giveUp"}

\* Type invariant of the database, the cycle and the requests.
TypeOK ==
    /\ stored \subseteq issued /\ issued \subseteq RowIds
    /\ rows \in [RowIds -> Row]
    /\ funds \in [Exchanges -> SUBSET (RowIds \X Nat)]
    /\ phase \in Phases
    /\ net \in {"mainnet", "testnet"}
    /\ batch \subseteq issued
    /\ todo \subseteq Exchanges /\ current \in Exchanges
    /\ round \in 0..MaxRetries
    /\ left \subseteq batch /\ hits \subseteq batch
    /\ counted \subseteq RowIds \X Nat
    /\ pc \in [Requests -> Labels]
    /\ job \in [Requests -> Job]
    /\ updates \in [Requests -> SUBSET RowIds]
    /\ inserts \in [Requests -> SUBSET Nat]
    /\ \A r \in Requests : inserts[r] \subseteq DOMAIN job[r].sub.items
    /\ seen \in [Requests -> SUBSET (RowIds \X Nat)]
    /\ overlap \subseteq Exchanges
    /\ crashes \in Nat

\* Without a restart in between, a pending row has used up its retries only in
\* the moment before handleProcessingFailure gives it up: no later batch, and no
\* resubmission, finds a pending row the next failure would not count.
ExhaustedIsGivenUp ==
    crashes = 0 => \A id \in RowIds :
        Pending(id) /\ rows[id].retry = MaxRetries => phase = "giveUp" /\ id \in batch

\* The rows of an exchange are all on one network, which is what
\* validateAddressNetwork is there for, as long as no two submissions of the
\* exchange ran at once.
OneNetworkUnlessOverlap ==
    \A e \in Exchanges \ overlap : \A x, y \in Stored(e) :
        NetworkOf(rows[x].addr) = NetworkOf(rows[y].addr)

\* The same without the condition, as the error message of
\* validateAddressNetwork has it.
OneNetwork ==
    \A e \in Exchanges : \A x, y \in Stored(e) :
        NetworkOf(rows[x].addr) = NetworkOf(rows[y].addr)

NoRepeats ==
    \A s \in Submissions : \A i, j \in DOMAIN s.items :
        s.items[i].addr = s.items[j].addr => i = j

\* An exchange has one row for an address, so that its balance is counted once,
\* if no submission repeats an address and no two of the exchange ran at once.
OneRowUnlessOverlap ==
    NoRepeats => \A e \in Exchanges \ overlap : \A x, y \in Stored(e) :
        rows[x].addr = rows[y].addr => x = y

\* What the collection shows of a document.
StateOf(id) ==
    IF id \in stored THEN rows[id].status ELSE IF id \in issued THEN "gone" ELSE "absent"

States == [id \in RowIds |-> StateOf(id)]

Lifecycle == INSTANCE AddressLifecycle WITH Ids <- RowIds, state <- States

\* The documents go through the life of an address: each call moves rows in one
\* way, only a pending row is cancelled, and what is deleted stays deleted, even
\* if a batch or a refresh that read it answers later.
ImplementsLifecycle == Lifecycle!Spec

\* A row comes out of the query for pending rows sooner or later, however often
\* the nodes fail: retries run out.
PendingSettles == \A id \in RowIds : Pending(id) ~> ~Pending(id)

\* The cycle comes to an end, and so clears isProcessing, again and again: no
\* batch keeps the query loop of processAddresses going for ever.
CycleEnds == []<>(phase = "idle")

Quiet ==
    /\ phase = "idle"
    /\ \A r \in Requests : pc[r] \in {"ready", "done"}
    /\ \A id \in RowIds : ~Pending(id)

\* When everything submitted has been processed and nobody is at work, the
\* exchange's funds are those of its active rows.
SettledFunds == Quiet => \A e \in Exchanges : funds[e] = ActiveFunds(e)

\* When they do settle whatever the schedule: one exchange, that nobody cancels
\* or deletes or refreshes single addresses of while the cycle runs, nodes that
\* answer, messages that name blocks, no restart, and no body that is refused
\* after its reset.  Each of these leaves a status behind that nobody recomputes.
GoodDay ==
    /\ \A e, f \in Exchanges : e = f
    /\ Operations \subseteq {"submit", "refreshExchange", "refreshAll"}
    /\ ~Outages /\ Messages \subseteq Blocks
    /\ MaxCrashes = 0
    /\ \A s \in Submissions : s.reset =>
         s.signed /\ \A a, b \in AddressesOf(s) : NetworkOf(a) = NetworkOf(b)

\* And that is where the system goes if requests stop coming.
FundsCatchUp == <>[](\A e \in Exchanges : funds[e] = ActiveFunds(e))

============================================================================
