--------------------------- MODULE FundingProofs ---------------------------
(***************************************************************************)
(* Theorems about Funding, for every set of exchanges, addresses, requests *)
(* and submissions and every outcome of the calls to the bitcoin nodes.    *)
(* The last, FundsSettled, is for the good days on which they can settle.  *)
(***************************************************************************)
EXTENDS Funding, TLAPS

----------------------------------------------------------------------------
(* What the helpers of the model return.                                   *)

LEMMA NoJobType == NoJob \in Job
<1>1. PICK e \in Exchanges, s \in Submissions : TRUE
  BY ExchangesAssumption, SubmissionsAssumption
<1>2. [exch |-> e, sub |-> s] \in Job
  BY <1>1 DEF Job
<1>. QED
  BY <1>2 DEF NoJob

LEMMA NoRowType == NoRow \in Row
  BY ExchangesAssumption, ChainAssumption DEF NoRow, Row, Statuses, MaxRetries

LEMMA Defaults ==
  {"pending", "active", "failed", "cancelled"} \subseteq Statuses /\ 0 \in 0..MaxRetries /\ 0 \in Nat
  BY DEF Statuses, MaxRetries

\* Updates of rows keep them rows, and change neither exchange, address nor
\* message.
Origins(f, g) ==
    \A id \in RowIds : /\ f[id].exch = g[id].exch
                       /\ f[id].addr = g[id].addr
                       /\ f[id].msg = g[id].msg

LEMMA WithStatusKeeps ==
  ASSUME rows \in [RowIds -> Row], NEW S, NEW s \in Statuses
  PROVE  WithStatus(S, s) \in [RowIds -> Row] /\ Origins(WithStatus(S, s), rows)
  BY DEF WithStatus, Row, Origins

LEMMA RequeuedKeeps ==
  ASSUME rows \in [RowIds -> Row], NEW S
  PROVE  Requeued(S) \in [RowIds -> Row] /\ Origins(Requeued(S), rows)
<1>1. ASSUME NEW row \in Row
      PROVE  [row EXCEPT !.status = "pending", !.retry = 0] \in Row
  BY Defaults DEF Row
<1>2. ASSUME NEW row \in Row
      PROVE  /\ [row EXCEPT !.status = "pending", !.retry = 0].exch = row.exch
             /\ [row EXCEPT !.status = "pending", !.retry = 0].addr = row.addr
             /\ [row EXCEPT !.status = "pending", !.retry = 0].msg = row.msg
  BY DEF Row
<1>. QED
  BY <1>1, <1>2 DEF Requeued, Origins

LEMMA RetriedKeeps ==
  ASSUME rows \in [RowIds -> Row], NEW S, NEW n \in 0..MaxRetries
  PROVE  Retried(S, n) \in [RowIds -> Row] /\ Origins(Retried(S, n), rows)
  BY DEF Retried, Row, Origins

LEMMA ActivatedKeeps ==
  ASSUME rows \in [RowIds -> Row], NEW S, NEW b,
         \A id \in RowIds : id \in S => b[rows[id].addr] \in Nat
  PROVE  Activated(S, b) \in [RowIds -> Row] /\ Origins(Activated(S, b), rows)
  BY DEF Activated, Row, Origins, Statuses

LEMMA DeleteKeeps ==
  ASSUME rows \in [RowIds -> Row], NEW S, Delete(S)
  PROVE  /\ rows' \in [RowIds -> Row] /\ Origins(rows', rows)
         /\ stored' \subseteq stored /\ issued' = issued
<1>1. ASSUME NEW row \in Row
      PROVE  [row EXCEPT !.status = "cancelled", !.retry = 0, !.bal = 0] \in Row
  BY Defaults DEF Row
<1>2. ASSUME NEW row \in Row
      PROVE  /\ [row EXCEPT !.status = "cancelled", !.retry = 0, !.bal = 0].exch = row.exch
             /\ [row EXCEPT !.status = "cancelled", !.retry = 0, !.bal = 0].addr = row.addr
             /\ [row EXCEPT !.status = "cancelled", !.retry = 0, !.bal = 0].msg = row.msg
  BY DEF Row
<1>. QED
  BY <1>1, <1>2 DEF Delete, Origins

LEMMA ActiveFundsType ==
  ASSUME rows \in [RowIds -> Row], stored \subseteq RowIds, NEW e
  PROVE  ActiveFunds(e) \in SUBSET (RowIds \X Nat)
  BY DEF ActiveFunds, Stored, Row

----------------------------------------------------------------------------
(* Type correctness.  A round under way is one of the three, and only the   *)
(* rounds have rows left to look at.                                       *)

RoundInv ==
    /\ phase \in {"retry", "bump"} => round < MaxRetries
    /\ phase \notin {"retry", "bump", "giveUp"} => left = {} /\ hits = {}

\* A request not received yet has nothing to insert.
ReadyInv == \A r \in Requests : pc[r] = "ready" => inserts[r] = {}

TypeInv == TypeOK /\ RoundInv /\ ReadyInv

LEMMA TypeInit == Init => TypeInv
<1>. SUFFICES ASSUME Init PROVE TypeInv
  OBVIOUS
<1>1. rows \in [RowIds -> Row]
  BY NoRowType, SeedAssumption DEF Init
<1>2. funds \in [Exchanges -> SUBSET (RowIds \X Nat)]
  BY <1>1, ActiveFundsType, SeedAssumption DEF Init
<1>3. current \in Exchanges
  BY ExchangesAssumption DEF Init
<1>. QED
  BY <1>1, <1>2, <1>3, NoJobType, SeedAssumption
  DEF Init, TypeInv, TypeOK, RoundInv, ReadyInv, Phases, Labels, MaxRetries

\* The part of the state each kind of step leaves alone.
DbType == stored \subseteq issued /\ issued \subseteq RowIds /\ rows \in [RowIds -> Row]

CycleType ==
    /\ phase \in Phases
    /\ net \in {"mainnet", "testnet"}
    /\ batch \subseteq issued
    /\ todo \subseteq Exchanges /\ current \in Exchanges
    /\ round \in 0..MaxRetries
    /\ left \subseteq batch /\ hits \subseteq batch
    /\ counted \subseteq RowIds \X Nat
    /\ RoundInv

RequestType ==
    /\ pc \in [Requests -> Labels]
    /\ job \in [Requests -> Job]
    /\ updates \in [Requests -> SUBSET RowIds]
    /\ inserts \in [Requests -> SUBSET Nat]
    /\ \A r \in Requests : inserts[r] \subseteq DOMAIN job[r].sub.items
    /\ seen \in [Requests -> SUBSET (RowIds \X Nat)]
    /\ ReadyInv

RestType ==
    /\ funds \in [Exchanges -> SUBSET (RowIds \X Nat)]
    /\ overlap \subseteq Exchanges
    /\ crashes \in Nat

LEMMA TypeInvParts == TypeInv <=> DbType /\ CycleType /\ RequestType /\ RestType
  BY DEF TypeInv, TypeOK, DbType, CycleType, RequestType, RestType

LEMMA TypeInvPartsNext == TypeInv' <=> DbType' /\ CycleType' /\ RequestType' /\ RestType'
  BY DEF TypeInv, TypeOK, DbType, CycleType, RequestType, RestType

LEMMA CycleTypeKept ==
  ASSUME CycleType, UNCHANGED cycleVars, issued \subseteq issued'
  PROVE  CycleType'
  BY DEF CycleType, cycleVars, RoundInv

LEMMA RequestTypeKept ==
  ASSUME RequestType, UNCHANGED requestVars
  PROVE  RequestType'
  BY DEF RequestType, requestVars, ReadyInv

LEMMA RestTypeKept ==
  ASSUME RestType, UNCHANGED <<funds, overlap, crashes>>
  PROVE  RestType'
  BY DEF RestType

LEMMA ReturnType ==
  ASSUME RequestType, NEW r \in Requests, Return(r)
  PROVE  RequestType'
  BY NoJobType DEF RequestType, Return, Labels, ReadyInv

\* A request moves on, with the parameters it has or has just been given.
LEMMA GotoType ==
  ASSUME RequestType, NEW r \in Requests, NEW l \in Labels \ {"ready"}, Goto(r, l),
         \/ job' = job
         \/ inserts[r] = {} /\ \E j \in Job : job' = [job EXCEPT ![r] = j],
         UNCHANGED <<inserts, seen>>,
         updates' = updates \/ \E S \in SUBSET RowIds : updates' = [updates EXCEPT ![r] = S]
  PROVE  RequestType'
  BY DEF RequestType, Goto, ReadyInv

LEMMA NoteOverlapType ==
  ASSUME RestType, NEW r, NEW e \in Exchanges, NoteOverlap(r, e), UNCHANGED <<funds, crashes>>
  PROVE  RestType'
  BY DEF RestType, NoteOverlap

LEMMA NextTurnType ==
  ASSUME CycleType, NEW T \in SUBSET Exchanges, NextTurn(T), todo' = T,
         UNCHANGED <<net, current, issued>>
  PROVE  CycleType'
  BY DEF CycleType, NextTurn, Phases, RoundInv, MaxRetries

LEMMA StartCycleType ==
  ASSUME CycleType, phase = "idle", StartCycle, UNCHANGED issued
  PROVE  CycleType'
  BY DEF CycleType, StartCycle, Phases, RoundInv

LEMMA TypeNext == TypeInv /\ [Next]_vars => TypeInv'
<1>. SUFFICES ASSUME DbType, CycleType, RequestType, RestType, [Next]_vars
              PROVE  DbType' /\ CycleType' /\ RequestType' /\ RestType'
  BY TypeInvParts, TypeInvPartsNext
<1>. USE DEF dbVars
<1>1. ASSUME NEW r \in Requests, SubmitWithReset(r)
      PROVE  DbType' /\ CycleType' /\ RequestType' /\ RestType'
  <2>1. PICK e \in Exchanges, s \in Submissions :
           /\ job' = [job EXCEPT ![r] = [exch |-> e, sub |-> s]]
           /\ Delete(Stored(e))
           /\ NoteOverlap(r, e)
    BY <1>1 DEF SubmitWithReset
  <2>2. DbType' /\ UNCHANGED issued
    BY <2>1, DeleteKeeps DEF DbType
  <2>3. CycleType'
    BY <1>1, <2>2, CycleTypeKept DEF SubmitWithReset
  <2>4. RequestType'
    <3>1. inserts[r] = {} /\ [exch |-> e, sub |-> s] \in Job
      BY <1>1 DEF SubmitWithReset, Receives, RequestType, ReadyInv, Job
    <3>. QED
      BY <1>1, <2>1, <3>1, GotoType DEF SubmitWithReset, Labels
  <2>5. RestType'
    BY <1>1, <2>1, NoteOverlapType DEF SubmitWithReset
  <2>. QED
    BY <2>2, <2>3, <2>4, <2>5
<1>2. ASSUME NEW r \in Requests, Submit(r)
      PROVE  DbType' /\ CycleType' /\ RequestType' /\ RestType'
  <2>1. DbType' /\ CycleType'
    BY <1>2, CycleTypeKept DEF Submit, DbType
  <2>2. PICK e \in Exchanges, s \in Submissions :
           \/ /\ job' = [job EXCEPT ![r] = [exch |-> e, sub |-> s]]
              /\ Goto(r, "lookup")
              /\ NoteOverlap(r, e)
              /\ UNCHANGED <<updates, inserts, seen>>
           \/ Return(r) /\ UNCHANGED overlap
    BY <1>2 DEF Submit
  <2>3. RequestType'
    <3>1. inserts[r] = {} /\ [exch |-> e, sub |-> s] \in Job
      BY <1>2 DEF Submit, Receives, RequestType, ReadyInv, Job
    <3>. QED
      BY <2>2, <3>1, GotoType, ReturnType DEF Labels
  <2>4. RestType'
    BY <1>2, <2>2, NoteOverlapType, RestTypeKept DEF Submit
  <2>. QED
    BY <2>1, <2>3, <2>4
<1>3. ASSUME NEW r \in Requests, SubmitValidate(r)
      PROVE  DbType' /\ CycleType' /\ RequestType' /\ RestType'
  <2>1. DbType' /\ CycleType' /\ RestType'
    BY <1>3, CycleTypeKept, RestTypeKept DEF SubmitValidate, DbType
  <2>2. RequestType'
    BY <1>3, GotoType, ReturnType DEF SubmitValidate, Labels
  <2>. QED
    BY <2>1, <2>2
<1>4. ASSUME NEW r \in Requests, SubmitLookup(r)
      PROVE  DbType' /\ CycleType' /\ RequestType' /\ RestType'
  <2>1. DbType' /\ CycleType' /\ RestType'
    BY <1>4, CycleTypeKept, RestTypeKept DEF SubmitLookup, DbType
  <2>2. \E S \in SUBSET RowIds : updates' = [updates EXCEPT ![r] = S]
    BY <1>4 DEF SubmitLookup, KnownRows, Stored, DbType
  <2>3. PICK I \in SUBSET DOMAIN job[r].sub.items : inserts' = [inserts EXCEPT ![r] = I]
    BY <1>4 DEF SubmitLookup
  <2>4. DOMAIN job[r].sub.items \subseteq Nat
    BY SubmissionsAssumption DEF RequestType, Job
  <2>5. /\ pc' \in [Requests -> Labels]
        /\ \A q \in Requests : pc'[q] = "ready" => q # r /\ pc[q] = "ready"
    <3>1. PICK l \in {"update", "insert"} : Goto(r, l)
      BY <1>4 DEF SubmitLookup
    <3>. QED
      BY <3>1 DEF Goto, RequestType, Labels
  <2>6. RequestType'
    <3>1. job' = job /\ seen' = seen
      BY <1>4 DEF SubmitLookup
    <3>2. inserts' \in [Requests -> SUBSET Nat] /\ inserts'[r] = I
          /\ \A q \in Requests \ {r} : inserts'[q] = inserts[q]
      BY <2>3, <2>4 DEF RequestType
    <3>3. \A q \in Requests : inserts'[q] \subseteq DOMAIN job'[q].sub.items
      BY <2>3, <3>1, <3>2 DEF RequestType
    <3>4. updates' \in [Requests -> SUBSET RowIds]
      BY <2>2 DEF RequestType
    <3>5. ReadyInv'
      BY <2>5, <3>2 DEF RequestType, ReadyInv
    <3>. QED
      BY <2>5, <3>1, <3>2, <3>3, <3>4, <3>5 DEF RequestType
  <2>. QED
    BY <2>1, <2>6
<1>5. ASSUME NEW r \in Requests, SubmitUpdate(r)
      PROVE  DbType' /\ CycleType' /\ RequestType' /\ RestType'
  <2>1. DbType'
    BY <1>5, RequeuedKeeps DEF SubmitUpdate, DbType
  <2>2. CycleType' /\ RestType'
    BY <1>5, CycleTypeKept, RestTypeKept DEF SubmitUpdate, DbType
  <2>3. RequestType'
    BY <1>5, GotoType, ReturnType DEF SubmitUpdate, Labels
  <2>. QED
    BY <2>1, <2>2, <2>3
<1>6. ASSUME NEW r \in Requests, SubmitInsert(r)
      PROVE  DbType' /\ CycleType' /\ RequestType' /\ RestType'
  <2>1. PICK p \in FreshIds(inserts[r]) :
         LET new == {p[i] : i \in inserts[r]}
             item(id) == job[r].sub.items[CHOOSE i \in inserts[r] : p[i] = id]
         IN  /\ stored' = stored \cup new
             /\ issued' = issued \cup new
             /\ rows' = [id \in RowIds |-> IF id \in new
                  THEN [exch |-> job[r].exch, addr |-> item(id).addr, msg |-> item(id).msg,
                        status |-> "pending", retry |-> 0, bal |-> 0]
                  ELSE rows[id]]
    BY <1>6 DEF SubmitInsert
  <2>. DEFINE new == {p[i] : i \in inserts[r]}
              item(id) == job[r].sub.items[CHOOSE i \in inserts[r] : p[i] = id]
  <2>2. p \in [inserts[r] -> RowIds \ issued]
    BY <2>1 DEF FreshIds, FirstIds
  <2>3. ASSUME NEW id \in new
        PROVE  /\ item(id) \in Item
               /\ [exch |-> job[r].exch, addr |-> item(id).addr, msg |-> item(id).msg,
                   status |-> "pending", retry |-> 0, bal |-> 0] \in Row
    <3>1. item(id) \in Item
      <4>1. (CHOOSE i \in inserts[r] : p[i] = id) \in DOMAIN job[r].sub.items
        BY <2>3 DEF RequestType
      <4>2. job[r].sub.items \in Seq(Item)
        BY SubmissionsAssumption DEF RequestType, Job
      <4>. QED
        BY <4>1, <4>2
    <3>2. job[r].exch \in Exchanges
      BY DEF RequestType, Job
    <3>. QED
      BY <3>1, <3>2, Defaults DEF Row, Item
  <2>4. DbType' /\ issued \subseteq issued'
    <3>. HIDE DEF item
    <3>1. stored' = stored \cup new /\ issued' = issued \cup new
          /\ rows' = [id \in RowIds |-> IF id \in new
                  THEN [exch |-> job[r].exch, addr |-> item(id).addr, msg |-> item(id).msg,
                        status |-> "pending", retry |-> 0, bal |-> 0]
                  ELSE rows[id]]
      BY <2>1 DEF item
    <3>2. new \subseteq RowIds
      BY <2>2
    <3>. HIDE DEF new
    <3>. QED
      BY <2>3, <3>1, <3>2 DEF DbType
  <2>5. CycleType' /\ RequestType' /\ RestType'
    BY <1>6, <2>4, CycleTypeKept, ReturnType, RestTypeKept DEF SubmitInsert
  <2>. QED
    BY <2>4, <2>5
<1>7. ASSUME NEW r \in Requests, CancelPending(r)
      PROVE  DbType' /\ CycleType' /\ RequestType' /\ RestType'
  <2>1. DbType'
    BY <1>7, WithStatusKeeps, Defaults DEF CancelPending, DbType
  <2>2. CycleType' /\ RestType'
    BY <1>7, CycleTypeKept, RestTypeKept DEF CancelPending
  <2>3. inserts[r] = {} /\ \E j \in Job : job' = [job EXCEPT ![r] = j]
    <3>1. PICK e \in Exchanges : job' = [job EXCEPT ![r].exch = e]
      BY <1>7 DEF CancelPending
    <3>2. [job[r] EXCEPT !.exch = e] \in Job
      BY DEF RequestType, Job
    <3>. QED
      BY <1>7, <3>1, <3>2 DEF CancelPending, Receives, RequestType, ReadyInv
  <2>4. RequestType'
    BY <1>7, <2>3, GotoType DEF CancelPending, Labels
  <2>. QED
    BY <2>1, <2>2, <2>4
<1>8. ASSUME NEW r \in Requests, DeleteAddress(r)
      PROVE  DbType' /\ CycleType' /\ RequestType' /\ RestType'
  <2>1. DbType' /\ UNCHANGED issued
    BY <1>8, DeleteKeeps DEF DeleteAddress, DbType
  <2>2. CycleType' /\ RestType'
    BY <1>8, <2>1, CycleTypeKept, RestTypeKept DEF DeleteAddress
  <2>3. inserts[r] = {} /\ \E j \in Job : job' = [job EXCEPT ![r] = j]
    <3>1. PICK e \in Exchanges : job' = [job EXCEPT ![r].exch = e]
      BY <1>8 DEF DeleteAddress
    <3>2. [job[r] EXCEPT !.exch = e] \in Job
      BY DEF RequestType, Job
    <3>. QED
      BY <1>8, <3>1, <3>2 DEF DeleteAddress, Receives, RequestType, ReadyInv
  <2>4. RequestType'
    BY <1>8, <2>3, GotoType DEF DeleteAddress, Labels
  <2>. QED
    BY <2>1, <2>2, <2>4
<1>9. ASSUME NEW r \in Requests, RefreshAddress(r)
      PROVE  DbType' /\ CycleType' /\ RequestType' /\ RestType'
  <2>1. DbType' /\ CycleType' /\ RestType'
    BY <1>9, CycleTypeKept, RestTypeKept DEF RefreshAddress, DbType
  <2>2. PICK id \in stored :
          \/ Return(r)
          \/ /\ job' = [job EXCEPT ![r].exch = rows[id].exch]
             /\ updates' = [updates EXCEPT ![r] = {id}]
             /\ Goto(r, "refresh")
             /\ UNCHANGED <<inserts, seen>>
    BY <1>9 DEF RefreshAddress
  <2>3. id \in RowIds /\ rows[id].exch \in Exchanges
    BY DEF DbType, Row
  <2>4. [job[r] EXCEPT !.exch = rows[id].exch] \in Job /\ inserts[r] = {}
    BY <1>9, <2>3 DEF RefreshAddress, Receives, RequestType, ReadyInv, Job
  <2>5. job' = [job EXCEPT ![r].exch = rows[id].exch] => \E j \in Job : job' = [job EXCEPT ![r] = j]
    BY <2>4 DEF RequestType
  <2>6. RequestType'
    BY <2>2, <2>3, <2>4, <2>5, GotoType, ReturnType DEF Labels
  <2>. QED
    BY <2>1, <2>6
<1>10. ASSUME NEW r \in Requests, RefreshAddressWrite(r)
       PROVE  DbType' /\ CycleType' /\ RequestType' /\ RestType'
  <2>1. rows' \in [RowIds -> Row]
    <3>1. ASSUME NEW b \in Balances,
                 rows' = Activated(updates[r] \cap stored, [a \in Addresses |-> b])
          PROVE  rows' \in [RowIds -> Row]
      BY <3>1, ActivatedKeeps, ChainAssumption DEF DbType, Row
    <3>2. ASSUME rows' = [id \in RowIds |-> IF id \in updates[r] \cap stored
                   THEN [rows[id] EXCEPT !.status = "failed", !.bal = 0] ELSE rows[id]]
          PROVE  rows' \in [RowIds -> Row]
      BY <3>2, Defaults DEF DbType, Row
    <3>. QED
      BY <1>10, <3>1, <3>2 DEF RefreshAddressWrite
  <2>2. DbType'
    BY <1>10, <2>1 DEF RefreshAddressWrite, DbType
  <2>3. CycleType' /\ RequestType' /\ RestType'
    BY <1>10, CycleTypeKept, GotoType, RestTypeKept DEF RefreshAddressWrite, Labels
  <2>. QED
    BY <2>2, <2>3
<1>11. ASSUME NEW r \in Requests, Tally(r)
       PROVE  DbType' /\ CycleType' /\ RequestType' /\ RestType'
  <2>1. DbType' /\ CycleType' /\ RestType'
    BY <1>11, CycleTypeKept, RestTypeKept DEF Tally, DbType
  <2>2. ActiveFunds(job[r].exch) \in SUBSET (RowIds \X Nat)
    BY ActiveFundsType DEF DbType
  <2>3. RequestType'
    BY <1>11, <2>2 DEF Tally, RequestType, Goto, Labels, ReadyInv
  <2>. QED
    BY <2>1, <2>3
<1>12. ASSUME NEW r \in Requests, Record(r)
       PROVE  DbType' /\ CycleType' /\ RequestType' /\ RestType'
  BY <1>12, CycleTypeKept, ReturnType DEF Record, DbType, RestType, RequestType
<1>13. ASSUME NEW r \in Requests, RefreshExchange(r)
       PROVE  DbType' /\ CycleType' /\ RequestType' /\ RestType'
  BY <1>13, RequeuedKeeps, CycleTypeKept, GotoType, RestTypeKept
  DEF RefreshExchange, DbType, Labels
<1>14. ASSUME NEW r \in Requests, RefreshAll(r)
       PROVE  DbType' /\ CycleType' /\ RequestType' /\ RestType'
  BY <1>14, RequeuedKeeps, CycleTypeKept, ReturnType, RestTypeKept DEF RefreshAll, DbType
<1>15. ASSUME NEW r \in Requests, Trigger(r)
       PROVE  DbType' /\ CycleType' /\ RequestType' /\ RestType'
  BY <1>15, StartCycleType, CycleTypeKept, ReturnType, RestTypeKept DEF Trigger, DbType
<1>16. ASSUME Cron
       PROVE  DbType' /\ CycleType' /\ RequestType' /\ RestType'
  BY <1>16, StartCycleType, RequestTypeKept, RestTypeKept DEF Cron, DbType
<1>17. ASSUME FindBatch
       PROVE  DbType' /\ CycleType' /\ RequestType' /\ RestType'
  <2>1. DbType' /\ RequestType' /\ RestType'
    BY <1>17, RequestTypeKept, RestTypeKept DEF FindBatch, DbType
  <2>2. batch' \subseteq stored /\ todo' = {rows[id].exch : id \in batch'}
    BY <1>17 DEF FindBatch, FirstOf, PendingOn
  <2>3. todo' \subseteq Exchanges
    BY <2>2 DEF DbType, Row
  <2>4. CycleType'
    BY <1>17, <2>2, <2>3 DEF FindBatch, CycleType, DbType, Phases, RoundInv
  <2>. QED
    BY <2>1, <2>4
<1>18. ASSUME NoBatch
       PROVE  DbType' /\ CycleType' /\ RequestType' /\ RestType'
  BY <1>18, RequestTypeKept, RestTypeKept DEF NoBatch, DbType, CycleType, Phases, RoundInv
<1>19. ASSUME ApplyBatch
       PROVE  DbType' /\ CycleType' /\ RequestType' /\ RestType'
  <2>1. PICK b \in [{rows[id].addr : id \in batch} -> Balances] :
          rows' = Activated(batch \cap stored, b)
    BY <1>19 DEF ApplyBatch
  <2>2. rows' \in [RowIds -> Row]
    BY <2>1, ActivatedKeeps, ChainAssumption DEF DbType
  <2>. QED
    BY <1>19, <2>2, RequestTypeKept, RestTypeKept
    DEF ApplyBatch, TakeExchange, DbType, CycleType, Phases, RoundInv
<1>20. ASSUME TallyBatch
       PROVE  DbType' /\ CycleType' /\ RequestType' /\ RestType'
  BY <1>20, ActiveFundsType, RequestTypeKept, RestTypeKept
  DEF TallyBatch, DbType, CycleType, Phases, RoundInv
<1>21. ASSUME RecordBatch
       PROVE  DbType' /\ CycleType' /\ RequestType' /\ RestType'
  <2>1. CycleType'
    BY <1>21, NextTurnType DEF RecordBatch, CycleType
  <2>2. RestType'
    BY <1>21 DEF RecordBatch, RestType, CycleType
  <2>. QED
    BY <1>21, <2>1, <2>2, RequestTypeKept DEF RecordBatch, DbType
<1>22. ASSUME FailBatch
       PROVE  DbType' /\ CycleType' /\ RequestType' /\ RestType'
  BY <1>22, RequestTypeKept, RestTypeKept
  DEF FailBatch, TakeExchange, DbType, CycleType, Phases, RoundInv, MaxRetries
<1>23. ASSUME FindRetries
       PROVE  DbType' /\ CycleType' /\ RequestType' /\ RestType'
  <2>1. CycleType'
    BY <1>23 DEF FindRetries, AfterRound, CycleType, Phases, RoundInv, MaxRetries
  <2>. QED
    BY <1>23, <2>1, RequestTypeKept, RestTypeKept DEF FindRetries, DbType
<1>24. ASSUME BumpRetries
       PROVE  DbType' /\ CycleType' /\ RequestType' /\ RestType'
  <2>1. round + 1 \in 0..MaxRetries
    BY <1>24 DEF BumpRetries, CycleType, RoundInv, MaxRetries
  <2>2. DbType'
    BY <1>24, <2>1, RetriedKeeps DEF BumpRetries, DbType
  <2>3. CycleType'
    BY <1>24, <2>1 DEF BumpRetries, AfterRound, CycleType, Phases, RoundInv, MaxRetries
  <2>. QED
    BY <1>24, <2>2, <2>3, RequestTypeKept, RestTypeKept DEF BumpRetries
<1>25. ASSUME GiveUp
       PROVE  DbType' /\ CycleType' /\ RequestType' /\ RestType'
  <2>1. DbType'
    BY <1>25, WithStatusKeeps, Defaults DEF GiveUp, DbType
  <2>2. CycleType'
    BY <1>25, NextTurnType DEF GiveUp, CycleType
  <2>. QED
    BY <1>25, <2>1, <2>2, RequestTypeKept, RestTypeKept DEF GiveUp
<1>26. ASSUME Restart
       PROVE  DbType' /\ CycleType' /\ RequestType' /\ RestType'
  BY <1>26, NoJobType
  DEF Restart, DbType, CycleType, RequestType, RestType, Phases, Labels, RoundInv, ReadyInv,
      MaxRetries
<1>27. CASE UNCHANGED vars
  BY <1>27, CycleTypeKept, RequestTypeKept, RestTypeKept DEF vars, DbType
<1>. QED
  BY <1>1, <1>2, <1>3, <1>4, <1>5, <1>6, <1>7, <1>8, <1>9, <1>10, <1>11, <1>12, <1>13, <1>14,
     <1>15, <1>16, <1>17, <1>18, <1>19, <1>20, <1>21, <1>22, <1>23, <1>24, <1>25, <1>26, <1>27
  DEF Next, Receive, Proceed, Cycle

\* The database, the cycle and the requests keep their types: no interleaving
\* of requests, cycle and restarts makes a row, a job or a batch the code does
\* not know.
THEOREM TypeCorrect == Spec => []TypeOK
<1>1. TypeInv => TypeOK
  BY DEF TypeInv
<1>. QED
  BY <1>1, TypeInit, TypeNext, PTL DEF Spec

----------------------------------------------------------------------------
(* Retries.  ExhaustedIsGivenUp is inductive: of the calls other than the   *)
(* cycle's own bump, each leaves a row that is pending after it with the    *)
(* retries it had as a pending row, or with none.                           *)

FreshOrSame ==
    \A id \in RowIds : Pending(id)' =>
        rows'[id].retry = 0 \/ (Pending(id) /\ rows'[id].retry = rows[id].retry)

LEMMA ExhaustedKept ==
  ASSUME ExhaustedIsGivenUp, FreshOrSame, UNCHANGED crashes,
         phase # "giveUp" \/ UNCHANGED <<phase, batch>>
  PROVE  ExhaustedIsGivenUp'
  BY DEF ExhaustedIsGivenUp, FreshOrSame, MaxRetries

LEMMA RowsKeptFresh ==
  ASSUME UNCHANGED <<stored, rows>>
  PROVE  FreshOrSame
  BY DEF FreshOrSame, Pending

LEMMA WithStatusFresh ==
  ASSUME DbType, NEW S, NEW s, s # "pending", rows' = WithStatus(S, s), UNCHANGED stored
  PROVE  FreshOrSame
  BY DEF DbType, Row, WithStatus, FreshOrSame, Pending

LEMMA RequeuedFresh ==
  ASSUME DbType, NEW S, rows' = Requeued(S), UNCHANGED stored
  PROVE  FreshOrSame
<1>1. ASSUME NEW row \in Row
      PROVE  [row EXCEPT !.status = "pending", !.retry = 0].retry = 0
  BY DEF Row
<1>. QED
  BY <1>1 DEF DbType, Requeued, FreshOrSame, Pending

LEMMA ActivatedFresh ==
  ASSUME DbType, NEW S, NEW b, rows' = Activated(S, b), UNCHANGED stored
  PROVE  FreshOrSame
<1>1. ASSUME NEW row \in Row, NEW n
      PROVE  [row EXCEPT !.status = "active", !.bal = n].status = "active"
  BY DEF Row
<1>. QED
  BY <1>1 DEF DbType, Activated, FreshOrSame, Pending

LEMMA DeleteFresh ==
  ASSUME DbType, NEW S, Delete(S)
  PROVE  FreshOrSame
  BY DEF DbType, Delete, FreshOrSame, Pending

LEMMA RequestFresh ==
  ASSUME TypeInv, NEW r \in Requests, Receive(r) \/ Proceed(r)
  PROVE  FreshOrSame
<1>. DbType
  BY TypeInvParts
<1>. USE DEF dbVars
<1>1. CASE SubmitWithReset(r) \/ DeleteAddress(r)
  BY <1>1, DeleteFresh DEF SubmitWithReset, DeleteAddress
<1>2. CASE \/ Submit(r) \/ SubmitValidate(r) \/ SubmitLookup(r) \/ RefreshAddress(r)
           \/ Tally(r) \/ Record(r) \/ Trigger(r)
  BY <1>2, RowsKeptFresh
  DEF Submit, SubmitValidate, SubmitLookup, RefreshAddress, Tally, Record, Trigger
<1>3. CASE SubmitUpdate(r) \/ RefreshExchange(r) \/ RefreshAll(r)
  BY <1>3, RequeuedFresh DEF SubmitUpdate, RefreshExchange, RefreshAll
<1>4. CASE SubmitInsert(r)
  <2>1. PICK p \in FreshIds(inserts[r]) :
          LET new == {p[i] : i \in inserts[r]}
              item(id) == job[r].sub.items[CHOOSE i \in inserts[r] : p[i] = id]
          IN  /\ stored' = stored \cup new
              /\ rows' = [id \in RowIds |-> IF id \in new
                   THEN [exch |-> job[r].exch, addr |-> item(id).addr, msg |-> item(id).msg,
                         status |-> "pending", retry |-> 0, bal |-> 0]
                   ELSE rows[id]]
    BY <1>4 DEF SubmitInsert
  <2>. DEFINE new == {p[i] : i \in inserts[r]}
  <2>2. stored' = stored \cup new
    BY <2>1
  <2>3. ASSUME NEW id \in RowIds, id \in new PROVE rows'[id].retry = 0
    BY <2>1, <2>3
  <2>4. ASSUME NEW id \in RowIds, id \notin new PROVE rows'[id] = rows[id]
    BY <2>1, <2>4
  <2>5. \A id \in RowIds : id \in stored' => rows'[id].retry = 0 \/ (id \in stored /\ rows'[id] = rows[id])
    BY <2>2, <2>3, <2>4
  <2>. QED
    BY <2>5 DEF FreshOrSame, Pending
<1>5. CASE CancelPending(r)
  BY <1>5, WithStatusFresh DEF CancelPending
<1>6. CASE RefreshAddressWrite(r)
  <2>1. ASSUME rows' = [id \in RowIds |-> IF id \in updates[r] \cap stored
                          THEN [rows[id] EXCEPT !.status = "failed", !.bal = 0] ELSE rows[id]],
               UNCHANGED stored
        PROVE  FreshOrSame
    <3>1. ASSUME NEW row \in Row
          PROVE  [row EXCEPT !.status = "failed", !.bal = 0].status = "failed"
      BY DEF Row
    <3>. QED
      BY <2>1, <3>1 DEF DbType, FreshOrSame, Pending
  <2>. QED
    BY <1>6, <2>1, ActivatedFresh DEF RefreshAddressWrite
<1>. QED
  BY <1>1, <1>2, <1>3, <1>4, <1>5, <1>6 DEF Receive, Proceed

LEMMA ExhaustedNext == TypeInv /\ ExhaustedIsGivenUp /\ [Next]_vars => ExhaustedIsGivenUp'
<1>. SUFFICES ASSUME TypeInv, ExhaustedIsGivenUp, [Next]_vars
              PROVE  ExhaustedIsGivenUp'
  OBVIOUS
<1>. DbType
  BY TypeInvParts
<1>. USE DEF dbVars
<1>1. ASSUME NEW r \in Requests, Receive(r) \/ Proceed(r)
      PROVE  ExhaustedIsGivenUp'
  <2>1. FreshOrSame
    BY <1>1, RequestFresh
  <2>2. UNCHANGED crashes /\ (phase # "giveUp" \/ UNCHANGED <<phase, batch>>)
    BY <1>1
    DEF Receive, Proceed, Submit, SubmitWithReset, SubmitValidate, SubmitLookup, SubmitUpdate,
        SubmitInsert, CancelPending, DeleteAddress, RefreshAddress, RefreshAddressWrite, Tally,
        Record, RefreshExchange, RefreshAll, Trigger, cycleVars
  <2>. QED
    BY <2>1, <2>2, ExhaustedKept
<1>2. CASE Cron \/ FindBatch \/ NoBatch \/ TallyBatch \/ RecordBatch \/ FailBatch \/ FindRetries
  <2>1. phase # "giveUp" /\ UNCHANGED <<stored, rows, crashes>>
    BY <1>2 DEF Cron, FindBatch, NoBatch, TallyBatch, RecordBatch, FailBatch, FindRetries
  <2>. QED
    BY <2>1, RowsKeptFresh, ExhaustedKept
<1>3. CASE ApplyBatch
  BY <1>3, ActivatedFresh, ExhaustedKept DEF ApplyBatch
<1>4. CASE BumpRetries
  <2>1. phase = "bump" /\ hits \subseteq batch /\ round \in 0..MaxRetries /\ round < MaxRetries
    BY <1>4 DEF BumpRetries, TypeInv, TypeOK, RoundInv
  <2>2. ASSUME crashes' = 0, NEW id \in RowIds, Pending(id)', rows'[id].retry = MaxRetries
        PROVE  phase' = "giveUp" /\ id \in batch'
    <3>1. ASSUME NEW row \in Row
          PROVE  /\ [row EXCEPT !.retry = round + 1].retry = round + 1
                 /\ [row EXCEPT !.retry = round + 1].status = row.status
      BY DEF Row
    <3>2. Pending(id)
      BY <1>4, <2>2, <3>1 DEF BumpRetries, Retried, Pending, DbType
    <3>3. id \in hits /\ rows'[id].retry = round + 1
      BY <1>4, <2>1, <2>2, <3>1, <3>2 DEF BumpRetries, Retried, DbType, ExhaustedIsGivenUp
    <3>. QED
      BY <1>4, <2>1, <2>2, <3>3 DEF BumpRetries, AfterRound, MaxRetries
  <2>. QED
    BY <2>2 DEF ExhaustedIsGivenUp
<1>5. CASE GiveUp
  <2>1. FreshOrSame
    BY <1>5, WithStatusFresh DEF GiveUp
  <2>2. ASSUME NEW id \in RowIds, crashes = 0, Pending(id), rows[id].retry = MaxRetries
        PROVE  rows'[id].status = "failed"
    BY <1>5, <2>2
    DEF GiveUp, WithStatus, Exhausted, ExhaustedIsGivenUp, DbType, Row, MaxRetries
  <2>. QED
    BY <1>5, <2>1, <2>2 DEF GiveUp, FreshOrSame, ExhaustedIsGivenUp, Pending, MaxRetries
<1>6. CASE Restart
  BY <1>6 DEF Restart, ExhaustedIsGivenUp, TypeInv, TypeOK
<1>7. CASE UNCHANGED vars
  BY <1>7, RowsKeptFresh, ExhaustedKept DEF vars, cycleVars
<1>. QED
  BY <1>1, <1>2, <1>3, <1>4, <1>5, <1>6, <1>7 DEF Next, Cycle

\* Whatever the requests do between the query for the rows to retry and the
\* update by id, and whoever queues rows anew meanwhile: as long as the process
\* lives, a pending row that has used up its retries is about to be given up.
THEOREM RetriesGivenUp == Spec => []ExhaustedIsGivenUp
<1>1. Init => ExhaustedIsGivenUp
  BY SeedAssumption DEF Init, ExhaustedIsGivenUp, Pending, MaxRetries
<1>. QED
  BY <1>1, TypeInit, TypeNext, ExhaustedNext, PTL DEF Spec

----------------------------------------------------------------------------
(* The life of an address.  Each call moves the rows it writes in one of    *)
(* the ways of AddressLifecycle, or changes no status at all.               *)

StepOfLifecycle == [Lifecycle!Next]_States

LEMMA NoMove ==
  ASSUME UNCHANGED <<stored, issued>>, \A id \in stored : rows'[id].status = rows[id].status
  PROVE  StepOfLifecycle
<1>1. \A id : StateOf(id)' = StateOf(id)
  BY DEF StateOf
<1>. QED
  BY <1>1 DEF StepOfLifecycle, States

LEMMA MovePresent ==
  ASSUME DbType, NEW S \in SUBSET stored, UNCHANGED <<stored, issued>>,
         NEW to \in {"pending", "active", "failed"},
         \A id \in RowIds : rows'[id].status = IF id \in S THEN to ELSE rows[id].status
  PROVE  StepOfLifecycle
<1>1. \A id \in S : States[id] \in Lifecycle!Present
  BY DEF DbType, States, StateOf, Lifecycle!Present, Row, Statuses
<1>2. States' = [id \in RowIds |-> IF id \in S THEN to ELSE States[id]]
  BY DEF States, StateOf, DbType
<1>3. S \in SUBSET RowIds
  BY DEF DbType
<1>. QED
  BY <1>1, <1>2, <1>3
  DEF StepOfLifecycle, Lifecycle!Next, Lifecycle!Requeue, Lifecycle!Activate, Lifecycle!Fail,
      Lifecycle!Move

LEMMA MoveRequeued ==
  ASSUME DbType, NEW S \in SUBSET stored, rows' = Requeued(S), UNCHANGED <<stored, issued>>
  PROVE  StepOfLifecycle
<1>1. ASSUME NEW row \in Row
      PROVE  [row EXCEPT !.status = "pending", !.retry = 0].status = "pending"
  BY DEF Row
<1>2. \A id \in RowIds : rows'[id].status = IF id \in S THEN "pending" ELSE rows[id].status
  BY <1>1 DEF Requeued, DbType
<1>. QED
  BY <1>2, MovePresent

LEMMA MoveActivated ==
  ASSUME DbType, NEW S \in SUBSET stored, NEW b, rows' = Activated(S, b),
         UNCHANGED <<stored, issued>>
  PROVE  StepOfLifecycle
<1>1. ASSUME NEW row \in Row, NEW n
      PROVE  [row EXCEPT !.status = "active", !.bal = n].status = "active"
  BY DEF Row
<1>2. \A id \in RowIds : rows'[id].status = IF id \in S THEN "active" ELSE rows[id].status
  BY <1>1 DEF Activated, DbType
<1>. QED
  BY <1>2, MovePresent

LEMMA MoveDeleted ==
  ASSUME DbType, NEW S \in SUBSET stored, Delete(S)
  PROVE  StepOfLifecycle
<1>1. \A id \in S : States[id] \in Lifecycle!Present
  BY DEF DbType, States, StateOf, Lifecycle!Present, Row, Statuses
<1>2. States' = [id \in RowIds |-> IF id \in S THEN "gone" ELSE States[id]]
  BY DEF Delete, States, StateOf, DbType
<1>3. S \in SUBSET RowIds
  BY DEF DbType
<1>. QED
  BY <1>1, <1>2, <1>3 DEF StepOfLifecycle, Lifecycle!Next, Lifecycle!Delete, Lifecycle!Move

LEMMA MoveInserted ==
  ASSUME DbType, NEW S \in SUBSET (RowIds \ issued),
         stored' = stored \cup S, issued' = issued \cup S,
         \A id \in S : rows'[id].status = "pending",
         \A id \in RowIds \ S : rows'[id] = rows[id]
  PROVE  StepOfLifecycle
<1>1. \A id \in S : States[id] \in {"absent"}
  BY DEF DbType, States, StateOf
<1>2. States' = [id \in RowIds |-> IF id \in S THEN "pending" ELSE States[id]]
  BY DEF States, StateOf, DbType
<1>. QED
  BY <1>1, <1>2 DEF StepOfLifecycle, Lifecycle!Next, Lifecycle!Insert, Lifecycle!Move

LEMMA LifecycleNext == TypeInv /\ [Next]_vars => StepOfLifecycle
<1>. SUFFICES ASSUME TypeInv, [Next]_vars
              PROVE  StepOfLifecycle
  OBVIOUS
<1>. DbType
  BY TypeInvParts
<1>. USE DEF dbVars
<1>1. ASSUME NEW r \in Requests, SubmitWithReset(r) \/ DeleteAddress(r)
      PROVE  StepOfLifecycle
  <2>1. \E S \in SUBSET stored : Delete(S)
    BY <1>1 DEF SubmitWithReset, DeleteAddress, Stored
  <2>. QED
    BY <2>1, MoveDeleted
<1>2. ASSUME NEW r \in Requests,
             \/ Submit(r) \/ SubmitValidate(r) \/ SubmitLookup(r) \/ RefreshAddress(r)
             \/ Tally(r) \/ Record(r) \/ Trigger(r)
      PROVE  StepOfLifecycle
  BY <1>2, NoMove
  DEF Submit, SubmitValidate, SubmitLookup, RefreshAddress, Tally, Record, Trigger
<1>3. ASSUME NEW r \in Requests, SubmitUpdate(r) \/ RefreshExchange(r) \/ RefreshAll(r)
      PROVE  StepOfLifecycle
  <2>1. UNCHANGED <<stored, issued>> /\ \E S \in SUBSET stored : rows' = Requeued(S)
    BY <1>3 DEF SubmitUpdate, RefreshExchange, RefreshAll, Stored
  <2>. QED
    BY <2>1, MoveRequeued
<1>4. ASSUME NEW r \in Requests, SubmitInsert(r)
      PROVE  StepOfLifecycle
  <2>1. PICK p \in FreshIds(inserts[r]) :
         LET new == {p[i] : i \in inserts[r]}
             item(id) == job[r].sub.items[CHOOSE i \in inserts[r] : p[i] = id]
         IN  /\ stored' = stored \cup new
             /\ issued' = issued \cup new
             /\ rows' = [id \in RowIds |-> IF id \in new
                  THEN [exch |-> job[r].exch, addr |-> item(id).addr, msg |-> item(id).msg,
                        status |-> "pending", retry |-> 0, bal |-> 0]
                  ELSE rows[id]]
    BY <1>4 DEF SubmitInsert
  <2>. DEFINE new == {p[i] : i \in inserts[r]}
  <2>2. p \in [inserts[r] -> RowIds \ issued]
    BY <2>1 DEF FreshIds, FirstIds
  <2>3. new \in SUBSET (RowIds \ issued)
    BY <2>2
  <2>4. /\ \A id \in new : rows'[id].status = "pending"
        /\ \A id \in RowIds \ new : rows'[id] = rows[id]
    BY <2>1, <2>3
  <2>. QED
    BY <2>1, <2>3, <2>4, MoveInserted
<1>5. ASSUME NEW r \in Requests, CancelPending(r)
      PROVE  StepOfLifecycle
  <2>1. PICK e \in Exchanges : rows' = WithStatus({id \in Stored(e) : Pending(id)}, "cancelled")
    BY <1>5 DEF CancelPending
  <2>. DEFINE S == {id \in Stored(e) : Pending(id)}
  <2>2. S \in SUBSET RowIds /\ \A id \in S : States[id] \in {"pending"}
    BY DEF Stored, Pending, DbType, States, StateOf
  <2>3. States' = [id \in RowIds |-> IF id \in S THEN "cancelled" ELSE States[id]]
    <3>1. ASSUME NEW row \in Row
          PROVE  [row EXCEPT !.status = "cancelled"].status = "cancelled"
      BY DEF Row
    <3>2. \A id \in RowIds : rows'[id].status = IF id \in S THEN "cancelled" ELSE rows[id].status
      BY <2>1, <3>1 DEF WithStatus, DbType
    <3>3. S \subseteq stored /\ UNCHANGED <<stored, issued>>
      BY <1>5 DEF CancelPending, Pending
    <3>. HIDE DEF S
    <3>. QED
      BY <3>2, <3>3 DEF States, StateOf
  <2>. QED
    BY <2>2, <2>3 DEF StepOfLifecycle, Lifecycle!Next, Lifecycle!Cancel, Lifecycle!Move
<1>6. ASSUME NEW r \in Requests, RefreshAddressWrite(r)
      PROVE  StepOfLifecycle
  <2>. DEFINE S == updates[r] \cap stored
  <2>1. ASSUME rows' = [id \in RowIds |-> IF id \in S
                          THEN [rows[id] EXCEPT !.status = "failed", !.bal = 0] ELSE rows[id]]
        PROVE  \A id \in RowIds : rows'[id].status = IF id \in S THEN "failed" ELSE rows[id].status
    <3>1. ASSUME NEW row \in Row
          PROVE  [row EXCEPT !.status = "failed", !.bal = 0].status = "failed"
      BY DEF Row
    <3>. QED
      BY <2>1, <3>1 DEF DbType
  <2>. QED
    BY <1>6, <2>1, MovePresent, MoveActivated DEF RefreshAddressWrite
<1>7. CASE Cron \/ FindBatch \/ NoBatch \/ TallyBatch \/ RecordBatch \/ FailBatch \/ FindRetries
           \/ Restart
  BY <1>7, NoMove
  DEF Cron, FindBatch, NoBatch, TallyBatch, RecordBatch, FailBatch, FindRetries, Restart
<1>8. CASE ApplyBatch
  BY <1>8, MoveActivated DEF ApplyBatch
<1>9. CASE BumpRetries
  <2>1. ASSUME NEW row \in Row, NEW n
        PROVE  [row EXCEPT !.retry = n].status = row.status
    BY DEF Row
  <2>2. \A id \in RowIds : rows'[id].status = rows[id].status
    BY <1>9, <2>1 DEF BumpRetries, Retried, DbType
  <2>. QED
    BY <1>9, <2>2, NoMove DEF BumpRetries, DbType
<1>10. CASE GiveUp
  <2>1. ASSUME NEW row \in Row
        PROVE  [row EXCEPT !.status = "failed"].status = "failed"
    BY DEF Row
  <2>2. \A id \in RowIds : rows'[id].status =
          IF id \in {x \in batch : Pending(x) /\ Exhausted(x)} THEN "failed" ELSE rows[id].status
    BY <1>10, <2>1 DEF GiveUp, WithStatus, DbType
  <2>3. {x \in batch : Pending(x) /\ Exhausted(x)} \in SUBSET stored
    BY DEF Pending
  <2>. QED
    BY <1>10, <2>2, <2>3, MovePresent DEF GiveUp
<1>11. CASE UNCHANGED vars
  BY <1>11, NoMove DEF vars
<1>. QED
  BY <1>1, <1>2, <1>3, <1>4, <1>5, <1>6, <1>7, <1>8, <1>9, <1>10, <1>11
  DEF Next, Receive, Proceed, Cycle

\* Requests, cycle and restarts together move the documents only as
\* AddressLifecycle allows: no answer that comes late brings a deleted row back,
\* and only a pending row is ever cancelled.
THEOREM LifecycleImplemented == Spec => ImplementsLifecycle
<1>1. Init => Lifecycle!Init
  <2>1. ASSUME Init PROVE Lifecycle!Init
    <3>1. \A id \in RowIds : StateOf(id) \in {"absent"} \cup Lifecycle!Present
      BY <2>1, SeedAssumption DEF Init, StateOf, Lifecycle!Present, Row, Statuses
    <3>. QED
      BY <3>1 DEF States, Lifecycle!Init
  <2>. QED
    BY <2>1
<1>2. TypeInv /\ [Next]_vars => [Lifecycle!Next]_States
  BY LifecycleNext DEF StepOfLifecycle
<1>. QED
  BY <1>1, <1>2, TypeInit, TypeNext, PTL DEF Spec, ImplementsLifecycle, Lifecycle!Spec

----------------------------------------------------------------------------
(* Settled funds.  The next tally puts the funds right, so what has to be   *)
(* shown is that there will be one: whenever the funds are not those of the *)
(* active rows, a row is pending or a submission is on its way to make one. *)

\* The submission r goes on to queue a row.
Promises(r) ==
    \/ pc[r] = "validate" /\ Accepted(job[r].exch, job[r].sub)
    \/ pc[r] = "lookup"
    \/ pc[r] = "update" /\ (updates[r] \cap stored # {} \/ inserts[r] # {})
    \/ pc[r] = "insert" /\ inserts[r] # {}

Due == (\E id \in RowIds : Pending(id)) \/ \E r \in Requests : Promises(r)

\* No request recomputes a status itself, and the cycle has no retries to count.
NobodyElseRecords ==
    /\ phase \in {"idle", "find", "balances", "tally", "record"}
    /\ \A r \in Requests : pc[r] \notin {"refresh", "tally", "record"}

FundsInv ==
    /\ NobodyElseRecords
    /\ phase \in {"idle", "find"} => Due \/ \A e \in Exchanges : funds[e] = ActiveFunds(e)
    /\ phase = "record" => Due \/ counted = ActiveFunds(current)

\* A step after which something is due, or before which nothing was and that
\* leaves the active rows alone.
Excused == Due' \/ (~Due /\ \A e \in Exchanges : ActiveFunds(e)' = ActiveFunds(e))

OthersKept(r) ==
    \A q \in Requests \ {r} :
        pc'[q] = pc[q] /\ job'[q] = job[q] /\ updates'[q] = updates[q] /\ inserts'[q] = inserts[q]

LEMMA RowsKeptExcused ==
  ASSUME NEW r \in Requests, UNCHANGED <<stored, rows>>, OthersKept(r),
         Promises(r) => Promises(r)'
  PROVE  Excused
<1>1. \A e \in Exchanges : ActiveFunds(e)' = ActiveFunds(e)
  BY DEF ActiveFunds, Stored
<1>2. ASSUME NEW q \in Requests, Promises(q)
      PROVE  Promises(q)'
  BY <1>2 DEF OthersKept, Promises, Accepted, Stored
<1>3. (\E id \in RowIds : Pending(id)) => Due'
  BY DEF Due, Pending
<1>. QED
  BY <1>1, <1>2, <1>3 DEF Excused, Due

LEMMA RequeuedExcused ==
  ASSUME DbType, NEW r \in Requests, NEW S \in SUBSET stored, rows' = Requeued(S),
         UNCHANGED stored, OthersKept(r),
         S = {} /\ Promises(r) => Promises(r)'
  PROVE  Excused
<1>1. CASE S = {}
  <2>1. rows' = rows
    BY <1>1 DEF Requeued, DbType
  <2>. QED
    BY <1>1, <2>1, RowsKeptExcused
<1>2. CASE S # {}
  <2>1. PICK id \in S : id \in RowIds
    BY <1>2 DEF DbType
  <2>2. ASSUME NEW row \in Row
        PROVE  [row EXCEPT !.status = "pending", !.retry = 0].status = "pending"
    BY DEF Row
  <2>3. rows'[id].status = "pending"
    BY <2>1, <2>2 DEF Requeued, DbType
  <2>. QED
    BY <2>1, <2>3 DEF Excused, Due, Pending
<1>. QED
  BY <1>1, <1>2

LEMMA ReturnKeepsOthers ==
  ASSUME RequestType, NEW r \in Requests, Return(r)
  PROVE  OthersKept(r)
  BY DEF RequestType, Return, OthersKept

\* A reset leaves the one exchange without rows, and its body is in order: it
\* will be accepted.
LEMMA ResetExcused ==
  ASSUME GoodDay, TypeInv, NEW r \in Requests, SubmitWithReset(r)
  PROVE  Excused
<1>1. PICK e \in Exchanges, s \in Submissions :
        /\ s.reset
        /\ job' = [job EXCEPT ![r] = [exch |-> e, sub |-> s]]
        /\ Delete(Stored(e))
  BY DEF SubmitWithReset
<1>2. pc'[r] = "validate" /\ job'[r].exch = e /\ job'[r].sub = s
  BY <1>1 DEF SubmitWithReset, Goto, TypeInv, TypeOK
<1>3. stored' = {}
  BY <1>1 DEF Delete, Stored, GoodDay, TypeInv, TypeOK, Row
<1>4. Accepted(e, s)'
  BY <1>1, <1>3 DEF GoodDay, Accepted, Stored
<1>5. Promises(r)'
  BY <1>2, <1>4 DEF Promises
<1>. QED
  BY <1>5 DEF Excused, Due

\* Each item of a submission has a row to queue again or is inserted.
LEMMA LookupExcused ==
  ASSUME TypeInv, NEW r \in Requests, SubmitLookup(r)
  PROVE  Excused
<1>. DEFINE items == job[r].sub.items
            known == KnownRows(job[r].exch, job[r].sub)
<1>1. PICK S \in SUBSET known :
        /\ \A x \in known : \E y \in S : rows[x].addr = rows[y].addr
        /\ updates' = [updates EXCEPT ![r] = S]
        /\ Goto(r, IF S # {} THEN "update" ELSE "insert")
  BY DEF SubmitLookup
<1>2. inserts'[r] = {i \in DOMAIN items : \A id \in known : rows[id].addr # items[i].addr}
  BY DEF SubmitLookup, TypeInv, TypeOK
<1>3. 1 \in DOMAIN items
  BY SubmissionsAssumption DEF TypeInv, TypeOK, Job
<1>4. S # {} \/ inserts'[r] # {}
  BY <1>1, <1>2, <1>3
<1>5. S \subseteq stored' /\ updates'[r] = S /\ pc'[r] = IF S # {} THEN "update" ELSE "insert"
  BY <1>1 DEF SubmitLookup, dbVars, Goto, KnownRows, Stored, TypeInv, TypeOK
<1>6. Promises(r)'
  BY <1>4, <1>5 DEF Promises
<1>. QED
  BY <1>6 DEF Excused, Due

LEMMA InsertExcused ==
  ASSUME TypeInv, NEW r \in Requests, SubmitInsert(r)
  PROVE  Excused
<1>1. PICK p \in FreshIds(inserts[r]) :
        LET new == {p[i] : i \in inserts[r]}
            item(id) == job[r].sub.items[CHOOSE i \in inserts[r] : p[i] = id]
        IN  /\ stored' = stored \cup new
            /\ rows' = [id \in RowIds |-> IF id \in new
                 THEN [exch |-> job[r].exch, addr |-> item(id).addr, msg |-> item(id).msg,
                       status |-> "pending", retry |-> 0, bal |-> 0]
                 ELSE rows[id]]
  BY DEF SubmitInsert
<1>. DEFINE new == {p[i] : i \in inserts[r]}
<1>2. new \subseteq RowIds
  BY DEF FreshIds, FirstIds
<1>3. /\ stored' = stored \cup new
      /\ \A id \in new : rows'[id].status = "pending"
      /\ \A id \in RowIds \ new : rows'[id] = rows[id]
      /\ DOMAIN rows' = RowIds
      /\ rows' = [id \in RowIds |-> rows'[id]]
  BY <1>1, <1>2
<1>4. CASE inserts[r] = {}
  <2>1. new = {} /\ pc[r] = "insert"
    BY <1>4 DEF SubmitInsert
  <2>. HIDE DEF new
  <2>2. rows' = rows /\ stored' = stored
    BY <1>3, <2>1 DEF TypeInv, TypeOK
  <2>3. OthersKept(r)
    BY ReturnKeepsOthers, TypeInvParts DEF SubmitInsert
  <2>4. ~Promises(r)
    BY <1>4, <2>1 DEF Promises
  <2>. QED
    BY <2>2, <2>3, <2>4, RowsKeptExcused
<1>5. CASE inserts[r] # {}
  <2>1. PICK id \in new : id \in RowIds
    BY <1>2, <1>5
  <2>. QED
    BY <1>3, <2>1 DEF Excused, Due, Pending
<1>. QED
  BY <1>4, <1>5

LEMMA RequestExcused ==
  ASSUME GoodDay, TypeInv, FundsInv, NEW r \in Requests, Receive(r) \/ Proceed(r)
  PROVE  Excused
<1>. DbType /\ RequestType
  BY TypeInvParts
<1>. USE DEF dbVars
<1>1. CASE SubmitWithReset(r) \/ SubmitLookup(r) \/ SubmitInsert(r)
  BY <1>1, ResetExcused, LookupExcused, InsertExcused
<1>2. CASE Submit(r)
  <2>1. UNCHANGED <<stored, rows>> /\ ~Promises(r)
    BY <1>2 DEF Submit, Receives, Promises
  <2>2. OthersKept(r)
    BY <1>2, ReturnKeepsOthers DEF Submit, OthersKept, Goto, RequestType
  <2>. QED
    BY <2>1, <2>2, RowsKeptExcused
<1>3. CASE SubmitValidate(r)
  <2>1. UNCHANGED <<stored, rows>>
    BY <1>3 DEF SubmitValidate
  <2>2. OthersKept(r)
    BY <1>3, ReturnKeepsOthers DEF SubmitValidate, OthersKept, Goto, RequestType
  <2>3. Promises(r) => Promises(r)'
    BY <1>3 DEF SubmitValidate, Promises, Goto, RequestType
  <2>. QED
    BY <2>1, <2>2, <2>3, RowsKeptExcused
<1>4. CASE SubmitUpdate(r)
  <2>1. OthersKept(r)
    BY <1>4, ReturnKeepsOthers DEF SubmitUpdate, OthersKept, Goto, RequestType
  <2>2. updates[r] \cap stored = {} /\ Promises(r) => Promises(r)'
    BY <1>4 DEF SubmitUpdate, Promises, Goto, RequestType
  <2>. QED
    BY <1>4, <2>1, <2>2, RequeuedExcused DEF SubmitUpdate
<1>5. CASE RefreshExchange(r)
  <2>1. \E S \in SUBSET stored : rows' = Requeued(S)
    BY <1>5 DEF RefreshExchange, Stored
  <2>2. UNCHANGED stored /\ OthersKept(r) /\ ~Promises(r)
    BY <1>5 DEF RefreshExchange, OthersKept, Goto, Receives, Promises, RequestType
  <2>. QED
    BY <2>1, <2>2, RequeuedExcused
<1>6. CASE RefreshAll(r)
  <2>1. UNCHANGED stored /\ OthersKept(r) /\ ~Promises(r)
    BY <1>6, ReturnKeepsOthers DEF RefreshAll, Receives, Promises
  <2>. QED
    BY <1>6, <2>1, RequeuedExcused DEF RefreshAll
<1>7. CASE Trigger(r)
  <2>1. UNCHANGED <<stored, rows>> /\ OthersKept(r) /\ ~Promises(r)
    BY <1>7, ReturnKeepsOthers DEF Trigger, Promises
  <2>. QED
    BY <2>1, RowsKeptExcused
<1>8. ~CancelPending(r) /\ ~DeleteAddress(r) /\ ~RefreshAddress(r)
  BY DEF GoodDay, CancelPending, DeleteAddress, RefreshAddress, Receives
<1>9. ~RefreshAddressWrite(r) /\ ~Tally(r) /\ ~Record(r)
  BY DEF FundsInv, NobodyElseRecords, RefreshAddressWrite, Tally, Record
<1>. QED
  BY <1>1, <1>2, <1>3, <1>4, <1>5, <1>6, <1>7, <1>8, <1>9 DEF Receive, Proceed

\* What a request leaves alone beside the rows.
LEMMA RequestRecordsNothing ==
  ASSUME GoodDay, TypeInv, FundsInv, NEW r \in Requests, Receive(r) \/ Proceed(r)
  PROVE  /\ UNCHANGED <<funds, counted, current>>
         /\ phase' = phase \/ (phase = "idle" /\ phase' = "find")
         /\ \A q \in Requests : pc'[q] \notin {"refresh", "tally", "record"}
<1>. RequestType
  BY TypeInvParts
<1>. USE DEF FundsInv, NobodyElseRecords, cycleVars, RequestType
<1>1. \/ Submit(r) \/ SubmitWithReset(r) \/ RefreshExchange(r) \/ RefreshAll(r)
      \/ SubmitValidate(r) \/ SubmitLookup(r) \/ SubmitUpdate(r) \/ SubmitInsert(r) \/ Trigger(r)
  BY DEF Receive, Proceed, GoodDay, CancelPending, DeleteAddress, RefreshAddress, Receives,
         RefreshAddressWrite, Tally, Record
<1>2. CASE Submit(r) \/ SubmitWithReset(r) \/ RefreshExchange(r) \/ RefreshAll(r)
  BY <1>2 DEF Submit, SubmitWithReset, RefreshExchange, RefreshAll, Goto, Return
<1>3. CASE SubmitValidate(r) \/ SubmitLookup(r) \/ SubmitUpdate(r) \/ SubmitInsert(r)
  BY <1>3 DEF SubmitValidate, SubmitLookup, SubmitUpdate, SubmitInsert, Goto, Return
<1>4. CASE Trigger(r)
  BY <1>4 DEF Trigger, StartCycle, Return
<1>. QED
  BY <1>1, <1>2, <1>3, <1>4

LEMMA FundsNext == GoodDay /\ TypeInv /\ FundsInv /\ [Next]_vars => FundsInv'
<1>. SUFFICES ASSUME GoodDay, TypeInv, FundsInv, [Next]_vars
              PROVE  FundsInv'
  OBVIOUS
<1>. USE DEF dbVars, requestVars
\* What is due stays due in the steps of the cycle that touch no row.
<1>1. ASSUME UNCHANGED <<stored, rows, pc, job, updates, inserts>>
      PROVE  Due' = Due /\ \A e : ActiveFunds(e)' = ActiveFunds(e)
  BY <1>1 DEF Due, Pending, Promises, Accepted, ActiveFunds, Stored
<1>2. ASSUME NEW r \in Requests, Receive(r) \/ Proceed(r)
      PROVE  FundsInv'
  <2>1. Excused
    BY <1>2, RequestExcused
  <2>2. /\ UNCHANGED <<funds, counted, current>>
        /\ phase' = phase \/ (phase = "idle" /\ phase' = "find")
        /\ \A q \in Requests : pc'[q] \notin {"refresh", "tally", "record"}
    BY <1>2, RequestRecordsNothing
  <2>3. current \in Exchanges
    BY DEF TypeInv, TypeOK
  <2>4. (counted = ActiveFunds(current))' = (counted = ActiveFunds(current)')
    BY <2>2 DEF ActiveFunds, Stored
  <2>. QED
    BY <2>1, <2>2, <2>3, <2>4 DEF Excused, FundsInv, NobodyElseRecords
<1>3. CASE Cron \/ NoBatch
  BY <1>1, <1>3 DEF Cron, StartCycle, NoBatch, FundsInv, NobodyElseRecords
<1>4. CASE FindBatch
  BY <1>4 DEF FindBatch, FundsInv, NobodyElseRecords
<1>5. CASE ApplyBatch
  BY <1>5 DEF ApplyBatch, FundsInv, NobodyElseRecords
<1>6. CASE TallyBatch
  <2>1. counted' = ActiveFunds(current)'
    BY <1>6 DEF TallyBatch, ActiveFunds, Stored
  <2>. QED
    BY <1>6, <2>1 DEF TallyBatch, FundsInv, NobodyElseRecords, ActiveFunds, Stored
<1>7. CASE RecordBatch
  <2>1. \A e \in Exchanges : e = current
    BY DEF GoodDay, TypeInv, TypeOK
  <2>2. funds' = [funds EXCEPT ![current] = counted] /\ phase = "record"
    BY <1>7 DEF RecordBatch
  <2>3. \A e \in Exchanges : funds'[e] = counted
    BY <2>1, <2>2 DEF TypeInv, TypeOK
  <2>4. Due' \/ \A e \in Exchanges : funds'[e] = ActiveFunds(e)'
    BY <1>1, <1>7, <2>1, <2>2, <2>3 DEF RecordBatch, FundsInv
  <2>5. phase' \in {"find", "balances"} /\ UNCHANGED pc
    BY <1>7 DEF RecordBatch, NextTurn
  <2>. QED
    BY <2>4, <2>5 DEF FundsInv, NobodyElseRecords
<1>8. ~FailBatch
  BY DEF FailBatch, GoodDay, TypeInv, TypeOK, Row
<1>9. ~FindRetries /\ ~BumpRetries /\ ~GiveUp
  BY DEF FundsInv, NobodyElseRecords, FindRetries, BumpRetries, GiveUp
<1>10. ~Restart
  BY DEF Restart, GoodDay, TypeInv, TypeOK
<1>11. CASE UNCHANGED vars
  BY <1>1, <1>11 DEF vars, cycleVars, FundsInv, NobodyElseRecords
<1>. QED
  BY <1>2, <1>3, <1>4, <1>5, <1>6, <1>7, <1>8, <1>9, <1>10, <1>11 DEF Next, Cycle

\* On a good day, whatever requests arrive and however they interleave with the
\* cycle: once all are answered, nothing is pending and the cycle is idle, the
\* status updateStatus last wrote is the one it would write now.
THEOREM FundsSettled == GoodDay => (Spec => []SettledFunds)
<1>. SUFFICES ASSUME GoodDay PROVE Spec => []SettledFunds
  OBVIOUS
<1>1. Init => FundsInv
  BY DEF Init, FundsInv, NobodyElseRecords, ActiveFunds, Stored
<1>2. FundsInv => SettledFunds
  BY DEF FundsInv, SettledFunds, Quiet, Due, Promises
<1>3. FundsInv /\ TypeInv /\ [Next]_vars => FundsInv'
  BY FundsNext
<1>. QED
  BY <1>1, <1>2, <1>3, TypeInit, TypeNext, PTL DEF Spec

============================================================================
