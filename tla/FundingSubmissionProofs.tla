---------------------- MODULE FundingSubmissionProofs ----------------------
(***************************************************************************)
(* What createSubmission guarantees of an exchange's rows as long as no    *)
(* two submissions of the exchange run at once, whatever else does.        *)
(***************************************************************************)
EXTENDS FundingProofs

----------------------------------------------------------------------------
(* The inductive invariant: what a submission has read stays true until it  *)
(* writes, because only a submission of the same exchange could undo it.    *)

OneSubmission ==
    \A q, r \in Requests :
        /\ InSubmission(q) /\ InSubmission(r)
        /\ job[q].exch = job[r].exch /\ job[q].exch \notin overlap
        => q = r

\* The network has been validated.
CheckedNetwork ==
    \A r \in Requests :
        pc[r] \in {"lookup", "update", "insert"} /\ job[r].exch \notin overlap =>
            \A a, b \in AddressesOf(job[r].sub) :
                /\ NetworkOf(a) = NetworkOf(b)
                /\ \A id \in Stored(job[r].exch) : NetworkOf(rows[id].addr) = NetworkOf(a)

\* The rows the exchange has for addresses of the submission have been read.
CheckedRows ==
    \A r \in Requests :
        pc[r] \in {"update", "insert"} /\ job[r].exch \notin overlap =>
            \A i \in inserts[r] : \A id \in Stored(job[r].exch) :
                rows[id].addr # job[r].sub.items[i].addr

SubmissionInv ==
    /\ OneSubmission
    /\ CheckedNetwork
    /\ CheckedRows
    /\ OneNetworkUnlessOverlap
    /\ OneRowUnlessOverlap

LEMMA SubmissionInit == Init => SubmissionInv
<1>. SUFFICES ASSUME Init PROVE SubmissionInv
  OBVIOUS
<1>1. OneSubmission /\ CheckedNetwork /\ CheckedRows
  BY DEF Init, OneSubmission, CheckedNetwork, CheckedRows, InSubmission
<1>2. \A id \in stored : id \in DOMAIN Seed /\ rows[id] = Seed[id]
  BY SeedAssumption DEF Init
<1>3. OneNetworkUnlessOverlap /\ OneRowUnlessOverlap
  BY <1>2, SeedAssumption DEF OneNetworkUnlessOverlap, OneRowUnlessOverlap, Stored
<1>. QED
  BY <1>1, <1>3 DEF SubmissionInv

----------------------------------------------------------------------------
(* The steps that insert no rows.                                          *)

RowsOnlyLost == stored' \subseteq stored /\ stored \subseteq RowIds /\ Origins(rows', rows)

LEMMA RowsKept ==
  ASSUME DbType, UNCHANGED <<stored, rows>>
  PROVE  RowsOnlyLost
  BY DEF DbType, RowsOnlyLost, Origins

LEMMA StoredOnlyLost ==
  ASSUME RowsOnlyLost, NEW e
  PROVE  \A id \in Stored(e)' : id \in Stored(e) /\ rows'[id].addr = rows[id].addr
  BY DEF RowsOnlyLost, Origins, Stored

LEMMA RowsPartsKept ==
  ASSUME RowsOnlyLost, overlap \subseteq overlap',
         OneNetworkUnlessOverlap, OneRowUnlessOverlap
  PROVE  OneNetworkUnlessOverlap' /\ OneRowUnlessOverlap'
<1>1. OneNetworkUnlessOverlap'
  BY StoredOnlyLost DEF OneNetworkUnlessOverlap
<1>2. OneRowUnlessOverlap'
  BY StoredOnlyLost DEF OneRowUnlessOverlap
<1>. QED
  BY <1>1, <1>2

\* Nobody starts a submission or goes on with one.
NoSubmissionStep ==
    \A q \in Requests : InSubmission(q)' =>
        /\ InSubmission(q)
        /\ pc'[q] = pc[q] /\ job'[q] = job[q] /\ inserts'[q] = inserts[q]

LEMMA Bystander ==
  ASSUME SubmissionInv, RowsOnlyLost, NoSubmissionStep, UNCHANGED overlap
  PROVE  SubmissionInv'
<1>1. OneSubmission'
  BY DEF SubmissionInv, OneSubmission, NoSubmissionStep
<1>2. CheckedNetwork'
  <2>1. ASSUME NEW r \in Requests, pc'[r] \in {"lookup", "update", "insert"},
               job'[r].exch \notin overlap', NEW a \in AddressesOf(job'[r].sub),
               NEW b \in AddressesOf(job'[r].sub)
        PROVE  /\ NetworkOf(a) = NetworkOf(b)
               /\ \A id \in Stored(job[r].exch)' : NetworkOf(rows'[id].addr) = NetworkOf(a)
    <3>1. pc'[r] = pc[r] /\ job'[r] = job[r]
      BY <2>1 DEF NoSubmissionStep, InSubmission
    <3>. QED
      BY <2>1, <3>1, StoredOnlyLost DEF SubmissionInv, CheckedNetwork
  <2>. QED
    BY <2>1 DEF CheckedNetwork
<1>3. CheckedRows'
  <2>1. ASSUME NEW r \in Requests, pc'[r] \in {"update", "insert"},
               job'[r].exch \notin overlap', NEW i \in inserts'[r],
               NEW id \in Stored(job[r].exch)'
        PROVE  rows'[id].addr # job'[r].sub.items[i].addr
    <3>1. pc'[r] = pc[r] /\ job'[r] = job[r] /\ inserts'[r] = inserts[r]
      BY <2>1 DEF NoSubmissionStep, InSubmission
    <3>. QED
      BY <2>1, <3>1, StoredOnlyLost DEF SubmissionInv, CheckedRows
  <2>. QED
    BY <2>1 DEF CheckedRows
<1>. QED
  BY <1>1, <1>2, <1>3, RowsPartsKept DEF SubmissionInv

LEMMA ReturnNoSubmissionStep ==
  ASSUME RequestType, NEW r \in Requests, Return(r)
  PROVE  NoSubmissionStep
  BY DEF RequestType, Return, NoSubmissionStep, InSubmission

LEMMA RequestsKept ==
  ASSUME UNCHANGED requestVars
  PROVE  NoSubmissionStep
  BY DEF requestVars, NoSubmissionStep, InSubmission

LEMMA GotoNoSubmissionStep ==
  ASSUME RequestType, NEW r \in Requests, NEW l \in {"refresh", "tally", "record", "trigger"},
         Goto(r, l), UNCHANGED inserts,
         \/ job' = job
         \/ \E j : job' = [job EXCEPT ![r] = j]
  PROVE  NoSubmissionStep
  BY DEF RequestType, Goto, NoSubmissionStep, InSubmission

LEMMA OthersNext ==
  ASSUME TypeInv, SubmissionInv, [Next]_vars,
         \A r \in Requests : ~(\/ Submit(r) \/ SubmitWithReset(r) \/ SubmitValidate(r)
                               \/ SubmitLookup(r) \/ SubmitUpdate(r) \/ SubmitInsert(r))
  PROVE  SubmissionInv'
<1>. DbType /\ CycleType /\ RequestType
  BY TypeInvParts
<1>. USE DEF dbVars
<1>1. ASSUME NEW r \in Requests, CancelPending(r)
      PROVE  SubmissionInv'
  <2>1. RowsOnlyLost
    BY <1>1, WithStatusKeeps, Defaults DEF CancelPending, DbType, RowsOnlyLost
  <2>2. NoSubmissionStep
    BY <1>1, GotoNoSubmissionStep DEF CancelPending
  <2>. QED
    BY <1>1, <2>1, <2>2, Bystander DEF CancelPending
<1>2. ASSUME NEW r \in Requests, DeleteAddress(r)
      PROVE  SubmissionInv'
  <2>1. RowsOnlyLost
    BY <1>2, DeleteKeeps DEF DeleteAddress, DbType, RowsOnlyLost
  <2>2. NoSubmissionStep
    BY <1>2, GotoNoSubmissionStep DEF DeleteAddress
  <2>. QED
    BY <1>2, <2>1, <2>2, Bystander DEF DeleteAddress
<1>3. ASSUME NEW r \in Requests, RefreshAddress(r)
      PROVE  SubmissionInv'
  <2>1. NoSubmissionStep
    BY <1>3, GotoNoSubmissionStep, ReturnNoSubmissionStep DEF RefreshAddress
  <2>. QED
    BY <1>3, <2>1, RowsKept, Bystander DEF RefreshAddress
<1>4. ASSUME NEW r \in Requests, RefreshAddressWrite(r)
      PROVE  SubmissionInv'
  <2>1. ASSUME NEW b \in Balances,
               rows' = Activated(updates[r] \cap stored, [a \in Addresses |-> b])
        PROVE  Origins(rows', rows)
    BY <2>1, ActivatedKeeps, ChainAssumption DEF DbType, Row
  <2>2. ASSUME rows' = [id \in RowIds |-> IF id \in updates[r] \cap stored
                 THEN [rows[id] EXCEPT !.status = "failed", !.bal = 0] ELSE rows[id]]
        PROVE  Origins(rows', rows)
    <3>1. ASSUME NEW row \in Row
          PROVE  /\ [row EXCEPT !.status = "failed", !.bal = 0].exch = row.exch
                 /\ [row EXCEPT !.status = "failed", !.bal = 0].addr = row.addr
                 /\ [row EXCEPT !.status = "failed", !.bal = 0].msg = row.msg
      BY DEF Row
    <3>. QED
      BY <2>2, <3>1 DEF Origins, DbType
  <2>3. RowsOnlyLost
    BY <1>4, <2>1, <2>2 DEF RefreshAddressWrite, RowsOnlyLost, DbType
  <2>4. NoSubmissionStep
    BY <1>4, GotoNoSubmissionStep DEF RefreshAddressWrite
  <2>. QED
    BY <1>4, <2>3, <2>4, Bystander DEF RefreshAddressWrite
<1>5. ASSUME NEW r \in Requests, Tally(r) \/ Record(r) \/ Trigger(r)
      PROVE  SubmissionInv'
  <2>1. NoSubmissionStep
    BY <1>5, GotoNoSubmissionStep, ReturnNoSubmissionStep DEF Tally, Record, Trigger
  <2>. QED
    BY <1>5, <2>1, RowsKept, Bystander DEF Tally, Record, Trigger
<1>6. ASSUME NEW r \in Requests, RefreshExchange(r) \/ RefreshAll(r)
      PROVE  SubmissionInv'
  <2>1. NoSubmissionStep
    BY <1>6, GotoNoSubmissionStep, ReturnNoSubmissionStep DEF RefreshExchange, RefreshAll
  <2>2. RowsOnlyLost
    BY <1>6, RequeuedKeeps DEF RefreshExchange, RefreshAll, DbType, RowsOnlyLost
  <2>. QED
    BY <1>6, <2>1, <2>2, Bystander DEF RefreshExchange, RefreshAll
<1>7. CASE Cron \/ FindBatch \/ NoBatch \/ TallyBatch \/ RecordBatch \/ FailBatch \/ FindRetries
  BY <1>7, RequestsKept, RowsKept, Bystander
  DEF Cron, FindBatch, NoBatch, TallyBatch, RecordBatch, FailBatch, FindRetries
<1>8. CASE ApplyBatch
  <2>1. RowsOnlyLost
    <3>1. PICK b \in [{rows[id].addr : id \in batch} -> Balances] :
            rows' = Activated(batch \cap stored, b)
      BY <1>8 DEF ApplyBatch
    <3>. QED
      BY <1>8, <3>1, ActivatedKeeps, ChainAssumption DEF ApplyBatch, DbType, RowsOnlyLost
  <2>. QED
    BY <1>8, <2>1, RequestsKept, Bystander DEF ApplyBatch
<1>9. CASE BumpRetries
  <2>1. round + 1 \in 0..MaxRetries
    BY <1>9 DEF BumpRetries, CycleType, RoundInv, MaxRetries
  <2>2. RowsOnlyLost
    BY <1>9, <2>1, RetriedKeeps DEF BumpRetries, DbType, RowsOnlyLost
  <2>. QED
    BY <1>9, <2>2, RequestsKept, Bystander DEF BumpRetries
<1>10. CASE GiveUp
  <2>1. RowsOnlyLost
    BY <1>10, WithStatusKeeps, Defaults DEF GiveUp, DbType, RowsOnlyLost
  <2>. QED
    BY <1>10, <2>1, RequestsKept, Bystander DEF GiveUp
<1>11. CASE Restart
  <2>1. NoSubmissionStep
    BY <1>11 DEF Restart, NoSubmissionStep, InSubmission
  <2>. QED
    BY <1>11, <2>1, RowsKept, Bystander DEF Restart
<1>12. CASE UNCHANGED vars
  BY <1>12, RequestsKept, RowsKept, Bystander DEF vars
<1>. QED
  BY <1>1, <1>2, <1>3, <1>4, <1>5, <1>6, <1>7, <1>8, <1>9, <1>10, <1>11, <1>12
  DEF Next, Receive, Proceed, Cycle

----------------------------------------------------------------------------
(* The steps of a submission.                                              *)

\* r starts a submission of exchange e; the others stay where they are.
LEMMA NoteOverlapKeepsOne ==
  ASSUME RequestType, OneSubmission, NEW r \in Requests, NEW e \in Exchanges, NEW s, NEW l,
         Goto(r, l), job' = [job EXCEPT ![r] = [exch |-> e, sub |-> s]], NoteOverlap(r, e)
  PROVE  /\ OneSubmission'
         /\ overlap \subseteq overlap'
         /\ job'[r].exch = e /\ job'[r].sub = s /\ pc'[r] = l
         /\ \A q \in Requests \ {r} : pc'[q] = pc[q] /\ job'[q] = job[q]
<1>1. /\ job'[r] = [exch |-> e, sub |-> s] /\ pc'[r] = l
      /\ \A q \in Requests \ {r} : pc'[q] = pc[q] /\ job'[q] = job[q]
  BY DEF RequestType, Goto
<1>2. overlap \subseteq overlap'
  BY DEF NoteOverlap
<1>3. ASSUME NEW q \in Requests \ {r}, InSubmission(q)', job'[q].exch = e
      PROVE  e \in overlap'
  BY <1>1, <1>3 DEF NoteOverlap, InSubmission
<1>4. OneSubmission'
  <2>1. ASSUME NEW p \in Requests, NEW q \in Requests, InSubmission(p)', InSubmission(q)',
               job'[p].exch = job'[q].exch, job'[p].exch \notin overlap'
        PROVE  p = q
    <3>1. CASE p # r /\ q # r
      BY <1>1, <1>2, <2>1, <3>1 DEF OneSubmission, InSubmission
    <3>2. CASE p = r \/ q = r
      BY <1>1, <1>3, <2>1, <3>2
    <3>. QED
      BY <3>1, <3>2
  <2>. QED
    BY <2>1 DEF OneSubmission
<1>. QED
  BY <1>1, <1>2, <1>4

LEMMA SubmitNext ==
  ASSUME TypeInv, SubmissionInv, NEW r \in Requests, Submit(r)
  PROVE  SubmissionInv'
<1>. DbType /\ RequestType
  BY TypeInvParts
<1>. USE DEF dbVars
<1>1. PICK e \in Exchanges, s \in Submissions :
        IF Accepted(e, s)
        THEN /\ job' = [job EXCEPT ![r] = [exch |-> e, sub |-> s]]
             /\ Goto(r, "lookup")
             /\ NoteOverlap(r, e)
             /\ UNCHANGED <<updates, inserts, seen>>
        ELSE Return(r) /\ UNCHANGED overlap
  BY DEF Submit
<1>2. UNCHANGED <<stored, rows>>
  BY DEF Submit
<1>3. CASE ~Accepted(e, s)
  BY <1>1, <1>2, <1>3, ReturnNoSubmissionStep, RowsKept, Bystander
<1>4. CASE Accepted(e, s)
  <2>1. /\ OneSubmission' /\ overlap \subseteq overlap' /\ UNCHANGED inserts
        /\ job'[r].exch = e /\ job'[r].sub = s /\ pc'[r] = "lookup"
        /\ \A q \in Requests \ {r} : pc'[q] = pc[q] /\ job'[q] = job[q]
    <3>1. /\ job' = [job EXCEPT ![r] = [exch |-> e, sub |-> s]]
          /\ Goto(r, "lookup") /\ NoteOverlap(r, e) /\ UNCHANGED inserts
      BY <1>1, <1>4
    <3>2. OneSubmission
      BY DEF SubmissionInv
    <3>. QED
      BY <3>1, <3>2, NoteOverlapKeepsOne
  <2>2. CheckedNetwork'
    <3>1. \A q \in Requests \ {r} : Stored(job[q].exch)' = Stored(job[q].exch)
      BY <1>2, <2>1 DEF Stored
    <3>2. Stored(job[r].exch)' = Stored(e)
      BY <1>2, <2>1 DEF Stored
    <3>. QED
      BY <1>2, <1>4, <2>1, <3>1, <3>2 DEF SubmissionInv, CheckedNetwork, Accepted
  <2>3. CheckedRows'
    <3>1. \A q \in Requests \ {r} : Stored(job[q].exch)' = Stored(job[q].exch)
      BY <1>2, <2>1 DEF Stored
    <3>. QED
      BY <1>2, <2>1, <3>1 DEF SubmissionInv, CheckedRows
  <2>. QED
    BY <1>2, <2>1, <2>2, <2>3, RowsKept, RowsPartsKept DEF SubmissionInv
<1>. QED
  BY <1>3, <1>4

LEMMA SubmitWithResetNext ==
  ASSUME TypeInv, SubmissionInv, NEW r \in Requests, SubmitWithReset(r)
  PROVE  SubmissionInv'
<1>. DbType /\ RequestType
  BY TypeInvParts
<1>1. PICK e \in Exchanges, s \in Submissions :
        /\ job' = [job EXCEPT ![r] = [exch |-> e, sub |-> s]]
        /\ Delete(Stored(e))
        /\ NoteOverlap(r, e)
  BY DEF SubmitWithReset
<1>2. RowsOnlyLost
  BY <1>1, DeleteKeeps DEF DbType, RowsOnlyLost
<1>3. /\ OneSubmission' /\ overlap \subseteq overlap' /\ UNCHANGED inserts
      /\ pc'[r] = "validate"
      /\ \A q \in Requests \ {r} : pc'[q] = pc[q] /\ job'[q] = job[q]
  BY <1>1, NoteOverlapKeepsOne DEF SubmissionInv, SubmitWithReset
<1>4. CheckedNetwork'
  <2>1. ASSUME NEW q \in Requests, pc'[q] \in {"lookup", "update", "insert"},
               job'[q].exch \notin overlap', NEW a \in AddressesOf(job'[q].sub),
               NEW b \in AddressesOf(job'[q].sub)
        PROVE  /\ NetworkOf(a) = NetworkOf(b)
               /\ \A id \in Stored(job[q].exch)' : NetworkOf(rows'[id].addr) = NetworkOf(a)
    <3>1. q # r /\ pc'[q] = pc[q] /\ job'[q] = job[q]
      BY <1>3, <2>1
    <3>. QED
      BY <1>2, <1>3, <2>1, <3>1, StoredOnlyLost DEF SubmissionInv, CheckedNetwork
  <2>. QED
    BY <2>1 DEF CheckedNetwork
<1>5. CheckedRows'
  <2>1. ASSUME NEW q \in Requests, pc'[q] \in {"update", "insert"}, job'[q].exch \notin overlap',
               NEW i \in inserts'[q], NEW id \in Stored(job[q].exch)'
        PROVE  rows'[id].addr # job'[q].sub.items[i].addr
    <3>1. q # r /\ pc'[q] = pc[q] /\ job'[q] = job[q] /\ inserts'[q] = inserts[q]
      BY <1>3, <2>1
    <3>. QED
      BY <1>2, <1>3, <2>1, <3>1, StoredOnlyLost DEF SubmissionInv, CheckedRows
  <2>. QED
    BY <2>1 DEF CheckedRows
<1>. QED
  BY <1>2, <1>3, <1>4, <1>5, RowsPartsKept DEF SubmissionInv

\* r goes on with its submission, having read no more than was there.
LEMMA GoesOn ==
  ASSUME RequestType, SubmissionInv, RowsOnlyLost, UNCHANGED <<job, overlap>>,
         NEW r \in Requests, InSubmission(r), NEW l, Goto(r, l),
         \A q \in Requests \ {r} : inserts'[q] = inserts[q],
         l \in {"lookup", "update", "insert"} => Accepted(job[r].exch, job[r].sub)
           \/ pc[r] \in {"lookup", "update", "insert"},
         l \in {"update", "insert"} => \A i \in inserts'[r] : \A id \in Stored(job[r].exch) :
           rows[id].addr # job[r].sub.items[i].addr \/ job[r].exch \in overlap
  PROVE  SubmissionInv'
<1>1. pc'[r] = l /\ \A q \in Requests \ {r} : pc'[q] = pc[q]
  BY DEF RequestType, Goto
<1>2. OneSubmission'
  BY <1>1 DEF SubmissionInv, OneSubmission, InSubmission
<1>3. CheckedNetwork'
  <2>1. ASSUME NEW q \in Requests, pc'[q] \in {"lookup", "update", "insert"},
               job[q].exch \notin overlap, NEW a \in AddressesOf(job[q].sub),
               NEW b \in AddressesOf(job[q].sub)
        PROVE  /\ NetworkOf(a) = NetworkOf(b)
               /\ \A id \in Stored(job[q].exch) : NetworkOf(rows[id].addr) = NetworkOf(a)
    BY <1>1, <2>1 DEF SubmissionInv, CheckedNetwork, Accepted
  <2>2. ASSUME NEW q \in Requests, NEW id \in Stored(job[q].exch)'
        PROVE  id \in Stored(job[q].exch) /\ rows'[id].addr = rows[id].addr
    BY <2>2 DEF Stored, RowsOnlyLost, Origins
  <2>. QED
    BY <2>1, <2>2 DEF CheckedNetwork
<1>4. CheckedRows'
  <2>1. ASSUME NEW q \in Requests, pc'[q] \in {"update", "insert"}, job[q].exch \notin overlap,
               NEW i \in inserts'[q], NEW id \in Stored(job[q].exch)
        PROVE  rows[id].addr # job[q].sub.items[i].addr
    BY <1>1, <2>1 DEF SubmissionInv, CheckedRows
  <2>2. ASSUME NEW q \in Requests, NEW id \in Stored(job[q].exch)'
        PROVE  id \in Stored(job[q].exch) /\ rows'[id].addr = rows[id].addr
    BY <2>2 DEF Stored, RowsOnlyLost, Origins
  <2>. QED
    BY <2>1, <2>2 DEF CheckedRows
<1>. QED
  BY <1>2, <1>3, <1>4, RowsPartsKept DEF SubmissionInv

LEMMA SubmitValidateNext ==
  ASSUME TypeInv, SubmissionInv, NEW r \in Requests, SubmitValidate(r)
  PROVE  SubmissionInv'
<1>. DbType /\ RequestType
  BY TypeInvParts
<1>1. RowsOnlyLost /\ UNCHANGED overlap
  BY RowsKept DEF SubmitValidate, dbVars
<1>2. CASE Accepted(job[r].exch, job[r].sub)
  <2>1. UNCHANGED <<job, inserts>> /\ Goto(r, "lookup") /\ InSubmission(r)
    BY <1>2 DEF SubmitValidate, InSubmission
  <2>. QED
    BY <1>1, <1>2, <2>1, GoesOn
<1>3. CASE ~Accepted(job[r].exch, job[r].sub)
  BY <1>1, <1>3, ReturnNoSubmissionStep, Bystander DEF SubmitValidate
<1>. QED
  BY <1>2, <1>3

LEMMA SubmitLookupNext ==
  ASSUME TypeInv, SubmissionInv, NEW r \in Requests, SubmitLookup(r)
  PROVE  SubmissionInv'
<1>. DbType /\ RequestType
  BY TypeInvParts
<1>. DEFINE known == KnownRows(job[r].exch, job[r].sub)
            I == {i \in DOMAIN job[r].sub.items :
                    \A id \in known : rows[id].addr # job[r].sub.items[i].addr}
<1>1. inserts' = [inserts EXCEPT ![r] = I] /\ UNCHANGED <<job, overlap>> /\ pc[r] = "lookup"
  BY DEF SubmitLookup
<1>2. PICK l \in {"update", "insert"} : Goto(r, l)
  BY DEF SubmitLookup
<1>3. RowsOnlyLost
  BY RowsKept DEF SubmitLookup, dbVars
<1>4. ASSUME NEW i \in I, NEW id \in Stored(job[r].exch)
      PROVE  rows[id].addr # job[r].sub.items[i].addr
  BY <1>4 DEF KnownRows, AddressesOf
<1>5. inserts'[r] = I /\ \A q \in Requests \ {r} : inserts'[q] = inserts[q]
  BY <1>1 DEF RequestType
<1>. HIDE DEF I
<1>. QED
  BY <1>1, <1>2, <1>3, <1>4, <1>5, GoesOn DEF InSubmission

LEMMA SubmitUpdateNext ==
  ASSUME TypeInv, SubmissionInv, NEW r \in Requests, SubmitUpdate(r)
  PROVE  SubmissionInv'
<1>. DbType /\ RequestType
  BY TypeInvParts
<1>1. RowsOnlyLost /\ UNCHANGED overlap /\ pc[r] = "update"
  BY RequeuedKeeps DEF SubmitUpdate, RowsOnlyLost, DbType
<1>2. CASE inserts[r] # {}
  <2>1. UNCHANGED <<job, inserts>> /\ Goto(r, "insert")
    BY <1>2 DEF SubmitUpdate
  <2>2. \A i \in inserts[r] : \A id \in Stored(job[r].exch) :
          rows[id].addr # job[r].sub.items[i].addr \/ job[r].exch \in overlap
    BY <1>1 DEF SubmissionInv, CheckedRows
  <2>. QED
    BY <1>1, <2>1, <2>2, GoesOn DEF InSubmission
<1>3. CASE inserts[r] = {}
  BY <1>1, <1>3, ReturnNoSubmissionStep, Bystander DEF SubmitUpdate
<1>. QED
  BY <1>2, <1>3

\* The new rows are those of one exchange, and get ids of their own.
LEMMA SubmitInsertNext ==
  ASSUME TypeInv, SubmissionInv, NEW r \in Requests, SubmitInsert(r)
  PROVE  SubmissionInv'
<1>. DbType /\ RequestType
  BY TypeInvParts
<1>. DEFINE e == job[r].exch
            items == job[r].sub.items
<1>1. PICK p \in FreshIds(inserts[r]) :
         LET new == {p[i] : i \in inserts[r]}
             item(id) == items[CHOOSE i \in inserts[r] : p[i] = id]
         IN  /\ stored' = stored \cup new
             /\ rows' = [id \in RowIds |-> IF id \in new
                  THEN [exch |-> e, addr |-> item(id).addr, msg |-> item(id).msg,
                        status |-> "pending", retry |-> 0, bal |-> 0]
                  ELSE rows[id]]
  BY DEF SubmitInsert
<1>. DEFINE new == {p[i] : i \in inserts[r]}
            of(id) == CHOOSE i \in inserts[r] : p[i] = id
<1>2. p \in [inserts[r] -> RowIds \ issued] /\ new \subseteq RowIds \ issued
  BY <1>1 DEF FreshIds, FirstIds
<1>3. \A id \in new : of(id) \in inserts[r] /\ p[of(id)] = id
  OBVIOUS
<1>4. /\ stored' = stored \cup new
      /\ \A id \in new : rows'[id].exch = e /\ rows'[id].addr = items[of(id)].addr
      /\ \A id \in stored : rows'[id] = rows[id]
  <2>1. \A id \in stored : id \in RowIds /\ id \notin new
    BY <1>2 DEF DbType
  <2>. HIDE DEF e, items
  <2>. QED
    BY <1>1, <1>2, <2>1
<1>5. pc[r] = "insert" /\ Return(r) /\ UNCHANGED overlap
  BY DEF SubmitInsert
<1>6. /\ ~InSubmission(r)'
      /\ \A q \in Requests \ {r} : pc'[q] = pc[q] /\ job'[q] = job[q] /\ inserts'[q] = inserts[q]
  BY <1>5 DEF Return, RequestType, InSubmission
<1>. HIDE DEF new, of, e, items
<1>7. ASSUME NEW x \in Exchanges, NEW id \in Stored(x)'
      PROVE  \/ id \in Stored(x) /\ rows'[id].addr = rows[id].addr
             \/ x = e /\ id \in new /\ rows'[id].addr = items[of(id)].addr
  BY <1>4, <1>7 DEF Stored
<1>8. ASSUME NEW q \in Requests \ {r}, InSubmission(q), job[q].exch \notin overlap,
             NEW id \in Stored(job[q].exch)'
      PROVE  id \in Stored(job[q].exch) /\ rows'[id].addr = rows[id].addr
  <2>1. job[q].exch # e
    BY <1>5, <1>8 DEF SubmissionInv, OneSubmission, InSubmission, e
  <2>2. job[q].exch \in Exchanges
    BY DEF RequestType, Job
  <2>. QED
    BY <1>4, <1>6, <1>8, <2>1, <2>2 DEF Stored
<1>9. OneSubmission'
  BY <1>5, <1>6 DEF SubmissionInv, OneSubmission, InSubmission
<1>10. CheckedNetwork'
  <2>1. ASSUME NEW q \in Requests, pc'[q] \in {"lookup", "update", "insert"},
               job'[q].exch \notin overlap', NEW a \in AddressesOf(job'[q].sub),
               NEW b \in AddressesOf(job'[q].sub)
        PROVE  /\ NetworkOf(a) = NetworkOf(b)
               /\ \A id \in Stored(job[q].exch)' : NetworkOf(rows'[id].addr) = NetworkOf(a)
    <3>1. q \in Requests \ {r} /\ InSubmission(q) /\ job[q].exch \notin overlap
      BY <1>5, <1>6, <2>1 DEF InSubmission
    <3>. QED
      BY <1>6, <1>8, <2>1, <3>1 DEF SubmissionInv, CheckedNetwork
  <2>. QED
    BY <2>1 DEF CheckedNetwork
<1>11. CheckedRows'
  <2>1. ASSUME NEW q \in Requests, pc'[q] \in {"update", "insert"}, job'[q].exch \notin overlap',
               NEW i \in inserts'[q], NEW id \in Stored(job[q].exch)'
        PROVE  rows'[id].addr # job'[q].sub.items[i].addr
    <3>1. q \in Requests \ {r} /\ InSubmission(q) /\ job[q].exch \notin overlap
      BY <1>5, <1>6, <2>1 DEF InSubmission
    <3>. QED
      BY <1>6, <1>8, <2>1, <3>1 DEF SubmissionInv, CheckedRows
  <2>. QED
    BY <2>1 DEF CheckedRows
<1>12. \A i \in inserts[r] : i \in DOMAIN items /\ items[i].addr \in AddressesOf(job[r].sub)
  BY DEF RequestType, AddressesOf, items
<1>13. OneNetworkUnlessOverlap'
  <2>1. ASSUME NEW x \in Exchanges \ overlap', NEW y \in Stored(x)', NEW z \in Stored(x)'
        PROVE  NetworkOf(rows'[y].addr) = NetworkOf(rows'[z].addr)
    <3>1. x \in Exchanges \ overlap
      BY <1>5
    <3>2. CASE x # e
      BY <1>7, <2>1, <3>1, <3>2 DEF SubmissionInv, OneNetworkUnlessOverlap
    <3>3. CASE x = e
      <4>1. ASSUME NEW a \in AddressesOf(job[r].sub), NEW b \in AddressesOf(job[r].sub)
            PROVE  /\ NetworkOf(a) = NetworkOf(b)
                   /\ \A id \in Stored(x) : NetworkOf(rows[id].addr) = NetworkOf(a)
        BY <1>5, <3>1, <3>3 DEF SubmissionInv, CheckedNetwork, e
      <4>2. \A id \in Stored(x)' : \/ id \in Stored(x) /\ rows'[id].addr = rows[id].addr
                                   \/ rows'[id].addr \in AddressesOf(job[r].sub)
        BY <1>3, <1>7, <1>12
      <4>3. \A i, j \in Stored(x) : NetworkOf(rows[i].addr) = NetworkOf(rows[j].addr)
        BY <3>1 DEF SubmissionInv, OneNetworkUnlessOverlap
      <4>. QED
        BY <2>1, <4>1, <4>2, <4>3
    <3>. QED
      BY <3>2, <3>3
  <2>. QED
    BY <2>1 DEF OneNetworkUnlessOverlap
<1>14. OneRowUnlessOverlap'
  <2>1. ASSUME NoRepeats, NEW x \in Exchanges \ overlap', NEW y \in Stored(x)',
               NEW z \in Stored(x)', rows'[y].addr = rows'[z].addr
        PROVE  y = z
    <3>1. x \in Exchanges \ overlap
      BY <1>5
    <3>2. \A i, j \in Stored(x) : rows[i].addr = rows[j].addr => i = j
      BY <2>1, <3>1 DEF SubmissionInv, OneRowUnlessOverlap
    <3>3. CASE x # e
      BY <1>7, <2>1, <3>2, <3>3
    <3>4. CASE x = e
      <4>1. \A i \in inserts[r] : \A id \in Stored(x) : rows[id].addr # items[i].addr
        BY <1>5, <3>1, <3>4 DEF SubmissionInv, CheckedRows, e, items
      <4>2. \A i, j \in inserts[r] : items[i].addr = items[j].addr => i = j
        BY <1>12, <2>1 DEF NoRepeats, RequestType, Job, items
      <4>. QED
        BY <1>3, <1>7, <2>1, <3>1, <3>2, <3>4, <4>1, <4>2
    <3>. QED
      BY <3>3, <3>4
  <2>2. NoRepeats' <=> NoRepeats
    BY DEF NoRepeats
  <2>. QED
    BY <2>1, <2>2 DEF OneRowUnlessOverlap
<1>. QED
  BY <1>9, <1>10, <1>11, <1>13, <1>14 DEF SubmissionInv

LEMMA SubmissionNext == TypeInv /\ SubmissionInv /\ [Next]_vars => SubmissionInv'
  BY SubmitNext, SubmitWithResetNext, SubmitValidateNext, SubmitLookupNext, SubmitUpdateNext,
     SubmitInsertNext, OthersNext

LEMMA SubmissionInvariant == Spec => []SubmissionInv
  BY TypeInit, TypeNext, SubmissionInit, SubmissionNext, PTL DEF Spec

\* validateAddressNetwork keeps an exchange on one network although it checks
\* the rows several calls before it inserts: nothing but a second submission of
\* the same exchange can make its answer stale.
THEOREM NetworksKeptApart == Spec => []OneNetworkUnlessOverlap
<1>1. SubmissionInv => OneNetworkUnlessOverlap
  BY DEF SubmissionInv
<1>. QED
  BY <1>1, SubmissionInvariant, PTL

\* An address is not counted twice: between the lookup of the rows that exist
\* and the insert of those that do not, only a second submission of the exchange
\* could add one.
THEOREM AddressesOnce == Spec => []OneRowUnlessOverlap
<1>1. SubmissionInv => OneRowUnlessOverlap
  BY DEF SubmissionInv
<1>. QED
  BY <1>1, SubmissionInvariant, PTL

============================================================================
