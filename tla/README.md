# Formal models of the crypto registry

The registry lets exchanges show that they hold the bitcoin they owe. Each
institution runs a node (`api/`, NestJS on MongoDB). An exchange submits signed
on-chain addresses (*funding*) and hashed customer holdings (*holdings*); the
node reads the balances of the addresses from bitcoin nodes and compares; a
customer asks any node to *verify* a holding. Nodes know each other through a
registration with approvals, tell each other who has joined or left, and can
elect a leader. A web client lets the users of an exchange do all this in a
browser.

This directory holds TLA+ modules of that code, the TLC configurations that
check them and proofs checked by TLAPS. Paths below are relative to
`api/src/`, or to `client/src/` for the web client, unless they start with
`src/`.

## 1. Inventory

All components of a node run in one JavaScript process. Code between two awaits
is atomic; at an await any other request, message, timer or answer may run.
MongoDB is used without transactions, without unique indexes and without
versions of documents, so every read followed by a write is a race, and a crash
may fall between any two calls.

| Component | State | Operations | Hard behaviour | What makes it correct |
|---|---|---|---|---|
| **On-chain funding** `funding/`, `control/`, `command/` | collection `fundingAddresses`; `isProcessing` in memory | `createSubmission` (with or without reset), `cancelPending`, `deleteAddress`, `refreshAddress`, `refreshExchangeBalances`, `refreshAllBalances` (a process of its own); `executionCycle` with `processAddressBatch` and `handleProcessingFailure`, every 10 s | the cycle works on rows it read long ago; batches mix exchanges; failures, retries and give-up; overlapping submissions; restarts | retries run out and are given up; the cycle ends; one network and one row per address in an exchange; late answers do not revive rows; funds equal the active rows |
| **Exchange status** `exchange/exchange.service.ts` | collection `exchanges` | `updateStatus` (called by funding and holdings), `createExchange`, `updateExchange` | read of rows and holdings, then write: lost updates | status, funds and holdings agree with the collections when nobody is at work |
| **Customer holdings** `customer-holdings/` | `holdingsSubmissions`, `holdings` with `isCurrent` | `createSubmission` (five calls), `cancel` | overlapping submissions, crash in between, `cancel` leaves holdings current and status alone | one current submission for an exchange, and exactly its holdings current |
| **Verification** `verification/` | `verifications` | `verifyByUid`, `createVerification` (also from a message, which no node of this version sends) | holdings and status read one after the other while requests change both; e-mail fails after the record is inserted | a customer is told of a holding only if it is current and backed; a success only if something was verified |
| **Registration** `registration/` | `registrations`, `approvals` | `processRegistration`, `verifyEmail`, `initiateApprovals`, `approve` | repeated registrations, links followed at any time and as often as one likes, two approvers at once, answers taken back, nodes that other nodes tell of meanwhile, mail that fails in the middle | this node admits another only when everybody asked has said yes; the status agrees with the approvals; the list names a node once |
| **Node list** `node/` | `nodes` on every node | `addNode`, `removeNode`, `processNodeList`, `startUp`; `updateLeader` for a leader, which only tests call | overlapping changes at several nodes, a newcomer without a list, restarts of a single node service | members list exactly the members; nobody loses its own row |
| **Network messages** `network/`, `authentication/` | in flight | signed direct and broadcast messages, `receiveMessage` | sent once, no retry, any order; several changes at one node; a message from a node one does not list is refused | news reaches all members who know the sender |
| **Electrum client** `electrum-api/` | socket, `callbacks` by request id | `connect`, `send`, `sendMultiple`, answers, timeouts | late answers, equal ids of two batches, two connects at once, chunks that are no answer | an answer reaches the caller that asked, each caller is told once and none waits for ever |
| **Bitcoin services** `bitcoin-service/`, `bitcoin-core-api/` | none | balances, transactions, wallet scan with gap limit | boundary of the gap | the balance of a wallet counts all used addresses before the gap and no other |
| **Web client** `store/`, `components/` of the client | stores of the user, of funding (kept on the disk) and of holdings; cookies; the page | `signIn`, `signOut`, `loadCurrentExchange`, submissions, cancellation, deletion, refreshes, a poll every 10 s | calls of one user answered after another has signed in, with or without a sign-out between; polls that overtake submissions; a reload in the middle; flags that all calls share | a page shows what is the user's own and, in the end, what the server has; a form unlocks and submits once |
| Database access `db/db-api.ts` | collections | `find`, `insertMany`, `updateMany`, `bulkUpdate`, `deleteMany`, ... | multi-document updates | - |
| Authentication, users, mail, CSV files, tools, logging, migration, `openapi.json` | documents edited one at a time | CRUD, parsing, formatting | little | not modelled |
| Synchronisation `syncronisation/`, hash chain `blockchain/` | none | commented out, or called by nobody | - | not modelled |

Interactions: the HTTP controllers and the cron timer call the services;
funding and holdings call `updateStatus`; verification reads what that wrote;
`receiveMessage` calls node list, registration and verification; an approved
registration calls the message sender; funding calls the bitcoin services,
which call the Electrum client; the web client calls the controllers. Everything
else is shared state in MongoDB.

`PROJECT.json` lists the hazards, each at its line, with the properties that
cover it.

## 2. Plan

1. **Funding** (done): the core, because every number the registry shows comes
   from it. Abstract specification: `AddressLifecycle`.
2. **Holdings** (done): holdings submissions, `updateStatus` in full (holdings,
   funds, status) and verification, composed over one exchange document, with
   the funds as an input that changes at any time.
3. **Registration** (done): registrations, approvals, links followed any number
   of times and in any order, mail that fails, rows that messages add. Theorem:
   this node admits only a registration that everybody asked has approved.
   Abstract specification: `Admission`.
4. **Network** (done): the lists of all nodes at once, several changes at each of
   them, with messages that are lost or reordered and restarts. Theorem: quiet
   members agree on who is a member but for the pairs the code leaves in doubt.
5. **Electrum** (done): connection, requests, answers and timeouts: each call is
   answered with its own answer or fails, which is what `Funding` assumes of it.
6. **WalletScan** (done): the gap limit as a pure function against a reference
   definition over bounded inputs.
7. **Client** (done): the stores and the calls of a browser tab, two users who
   sign in after or over one another, against a server whose funding cycle settles pending rows.

Left: the election of a leader (votes, `getWinningPost`, the two updates of
`updateCurrentLeader`), once something but a test calls it and a message carries a vote.
Pure algorithms ride along as assumptions of a run that exists. Each state
machine has its type invariant and its safety properties proved, but for what
is named at the end of section 5.

## 3. Modules

| Module | Models |
|---|---|
| `Funding` | the funding addresses, the requests that change them and the execution cycle |
| `AddressLifecycle` | what a watcher of the documents' status may see (abstract) |
| `MCFunding`, `MCFundingHealthy` | values of the constants for TLC |
| `FundingProofs` | type correctness, retries, refinement of `AddressLifecycle`, settled funds |
| `FundingSubmissionProofs` | networks and addresses of an exchange |
| `Holdings` | holdings submissions, status of the exchanges, verifications |
| `MCHoldings` | values of the constants for TLC |
| `HoldingsProofs` | type correctness |
| `HoldingsSettledProofs` | the three safety properties of `Holdings` |
| `Registration` | registrations, approvals, and the rows that they and messages of other nodes add, on one node |
| `Admission` | what the members may see of the admission of nodes (abstract) |
| `MCRegistration` | values of the constants for TLC |
| `RegistrationProofs` | type correctness, who joins, verdicts, one row for a node, refinement of `Admission` |
| `Network` | the lists of all nodes and the messages that keep them |
| `MCNetwork` | values of the constants for TLC |
| `NetworkProofs` | type correctness, own rows, agreement of the lists, news that is taken |
| `Electrum` | both clients of an ElectrumX server |
| `WalletScan` | the scan of a wallet, its balance and its addresses, as functions |
| `MCElectrum` | values of the constants for TLC, and all scans of small wallets |
| `ElectrumProofs` | type correctness, timers, own answers |
| `Client` | the stores of a browser tab and its calls to the server |
| `MCClient` | values of the constants for TLC |
| `ClientProofs` | type correctness and the four safety properties of `Client` |

`Funding` and `Holdings` meet in the exchange document and in the sum of the
active addresses. They are not composed: `Funding` computes the sum down to the
single address, `Holdings` takes any change of it (`ChangeFunding`,
`QueueFunding`) and models what `updateStatus` makes of it.

`Registration` and `Network` meet in the list. An admission in the first ends with
the row that `broadcastNodeJoin` adds to this node's list; the second starts from
there (`Join`) and follows the messages. What these do to a list that is not the
sender's, `Deliver` in the second, is `Hear` in the first: there a message may name
any node at any time, and a `nodeList` of several is several hearings.

`Electrum` justifies what `Funding` takes of a call for
balances: it ends, and its balances are those of the addresses asked for.
`Client` sees the server as what a signed-in user may observe of it: whether
rows are pending, which `Settle` ends, as `PendingSettles` of `Funding` says.

### Funding: state

| Variable | Code |
|---|---|
| `stored`, `issued`, `rows` | the collection `fundingAddresses`; ids are never reused; `rows` of a deleted id is what a reader of the document may still hold |
| `funds` | `currentFunds` of an exchange, kept as the set of rows and balances it sums, so that equal sums do not hide different rows |
| `phase`, `net`, `batch`, `todo`, `current` | `executionCycle`, `processAddresses` (`pendingAddresses`) and the loop of `processAddressBatch`; `phase = "idle"` is `isProcessing` unset |
| `round`, `left`, `hits` | `i`, `failedAddressIds`, `retrySubSetIds` of `handleProcessingFailure` |
| `counted`, `seen` | the active rows `updateStatus` has read and not yet written |
| `pc`, `job`, `updates`, `inserts` | where a request is, its exchange and body, and the local variables of `createSubmission` and `refreshAddress` |
| `overlap` | history: the exchanges of which two submissions ran at once |
| `crashes` | restarts so far |

### Funding: actions

One action is one database call with the code up to the next one.

| Code | Actions |
|---|---|
| `createSubmission` | `Submit`, or `SubmitWithReset` and `SubmitValidate`; then `SubmitLookup`, `SubmitUpdate`, `SubmitInsert` |
| `cancelPending`, `deleteAddress` | `CancelPending`, `DeleteAddress`, then `Tally`, `Record` |
| `refreshAddress` | `RefreshAddress`, `RefreshAddressWrite`, then `Tally`, `Record` |
| `updateStatus` | `Tally`, `Record` in a request; `TallyBatch`, `RecordBatch` in the cycle |
| `refreshExchangeBalances` | `RefreshExchange`, `Trigger` |
| `refreshAllBalances` | `RefreshAll` |
| `executionCycle`, `processAddresses` | `Cron` or `Trigger`, `FindBatch`, `NoBatch` |
| `processAddressBatch` | `ApplyBatch` or `FailBatch`, once for each exchange of the batch |
| `handleProcessingFailure` | `FindRetries`, `BumpRetries`, `GiveUp` |
| the process dies | `Restart` |

### Abstractions

- A multi-document `updateMany`, `bulkUpdate`, `insertMany` or `deleteMany` is one
  step, and calls to the database do not fail. `DbApi.deleteMany` looks whether
  there is anything to delete first; the two calls are taken as one.
- A balance is an arbitrary member of `Balances` at each read: the chain moves on
  its own. An absent balance is 0; `signatureDate`, `balanceDate`,
  `failureMessage` and the signatures are left out. `signed` says whether the
  signatures of a body verify; whether a message names a block is fixed
  (`Blocks`).
- A call for balances either answers for every address or throws. An Electrum
  batch may answer single addresses with an error, which the client takes for an
  answer without a balance: here a balance of 0.
- `isFundingServiceActive` is taken as true, one API process runs beside the
  `refresh-balances` command, and exchanges are never deleted (no operation
  deletes one).
- Empty submissions, which are refused before anything else, are not made.
- Rows of one exchange come in any order (the queries sort by exchange; after
  that by creation date, or not at all).

### Holdings: state

A request inserts at most one submission, so submissions go by their request.

| Variable | Code |
|---|---|
| `current` | the submissions with `isCurrent` in `holdingsSubmissions` |
| `live` | those whose documents in `holdings` have `isCurrent`; they are inserted together and cleared together |
| `funding` | sum of the ACTIVE rows of an exchange, `None` if it has none |
| `doc` | `status`, `currentFunds`, `currentHoldings` of an exchange |
| `seenFunds`, `seenHoldings` | what a running `updateStatus` has read |
| `pc`, `job` | where a request is; its exchange and body |
| `by`, `toCheck`, `verified`, `answer` | a verification: uid or e-mail, holdings still to look at in `verifyExchanges`, `verifiedHoldings`, status of its document |
| `met`, `mixed`, `stale`, `calm` | history, for the properties only: requests that others have come between; exchanges whose submissions or whose document that may have spoilt; exchanges that were settled at a verification's lookup and have not changed since |

### Holdings: actions

| Code | Actions |
|---|---|
| `HoldingsSubmissionService.createSubmission` | `Submit`, `ClearHoldings`, `InsertSubmission`, `InsertHoldings`, then `updateStatus` |
| `cancelSubmission`, `cancel` | `Cancel` |
| `ExchangeService.updateStatus` | `ReadFunds`, `ReadHoldings`, `Record` |
| funding operations that call `updateStatus`, and those that leave it to a later batch | `ChangeFunding`; `QueueFunding` |
| `verifyByUid`, `createVerification` | `LookUp`, `Check` for each submission the customer is in, `Save`; by e-mail also `Mail`, `Confirm` |
| the process dies | `Restart` |

Abstractions. Of a body only its total and who is in it are kept; a body that
`validateHoldings` refuses changes nothing and is not submitted. A customer has
one uid and one e-mail. Amounts are whole satoshis, for which `* 0.9` is exact in
floating point at these sizes. The queries that only display are left out;
`shortFall`, dates and network are functions of the values kept. `findOne` takes
any of the documents that match. In `cancelSubmission` the check of the owner is
one step with the update, since the owner of a submission never changes.

### Registration: state

A request inserts at most one registration, one approval for each node, or one
row of the list, so all three go by their request; a message that names a node is
a request, too.

| Variable | Code |
|---|---|
| `reg` | `registrations`: address, `status`, `verified` |
| `linked` | registrations whose link to verify was mailed |
| `approval`, `mailed` | status of `approvals` by request and node; those whose link was mailed |
| `members`, `joined`, `heard` | `nodes`: rows there at the start that are still there, rows added by `approve`, rows added for a message of another node |
| `pc`, `job`, `crashes` | where a request is; its registration, address and the nodes it asks; restarts |
| `yes`, `met`, `crossed`, `gone` | history: approvals that were ever given; registrations on which requests met, were cut short or whose mail failed; addresses added by two at once; addresses removed |

### Registration: actions

| Code | Actions |
|---|---|
| `processRegistration` | `Register`, `RegisterCancel` if there are earlier ones, `RegisterInsert` with the mail |
| `verifyEmail` | `VerifyEmail` |
| `initiateApprovals` | `Initiate`, `InitiatePend`, `InitiateNodes`, `InitiateAsk` (insertions and mails up to the first that fails) |
| `approve` | `Approve` (the look for the approval and the answer), `ApproveTally`, then `ApproveReject` or `ApproveAccept` |
| `broadcastNodeJoin`, `addNode` | `Join`, `Add`, `AddRow` |
| `receiveMessage` (`nodeJoined`, `nodeList`), `addNode` | `Hear`, `Add`, `Note` |
| `removeNode`, of the controller or for a message | `Remove` |
| the process dies | `Crash` |

A link works whenever it is opened, and as often: its expiry is left out. Of a
registration only its address, its status and whether its e-mail is verified are
kept; of the row that is added only its address. Whether a message's signature is
good is left to `Network`: here any node may be heard of, which is more than the
code lets in. So `Admission` promises something of this node's own admissions
only (`admitted`): they come from rounds in which everybody on the list was asked
and all said yes. Nodes that were `told` of are listed without a round, and are
asked in the rounds after.

### Network: state and actions

| Variable | Code |
|---|---|
| `list` | the addresses in `nodes`, on every node |
| `running` | the nodes whose process is up |
| `job` | each admission or removal: how far it has got, the node that makes it, the node it is about |
| `wire` | messages on the way: type, change, sender, receiver, the nodes they name |
| `members`, `odd` | history: the nodes admitted; pairs that may be wrong about each other |
| `changes`, `losses`, `crashes` | bounds |

| Code | Actions |
|---|---|
| `broadcastNodeJoin` | `Join` (its look), `Add` (the row), `SendList`, then `Tell` when the list has been answered |
| `removeNode` and its broadcast | `Remove`, `Untell` |
| `receiveMessage` with `addNode`, `removeNode`, `processNodeList` | `Deliver`: a message whose signature the receiver cannot check is refused |
| a message, or its answer, that does not arrive | `Lose`, `GiveUp` |
| the process dies; `startUp` | `Crash`; `Restart`, on which a single node service deletes the others |

Nothing in the code serialises the changes of a node: while one waits for the
database or for the answer to its list, further requests of `approve` and
`removeNode` run. So every change has a job of its own, a node may be at any
number of them, and two may be about one node.

`odd` names, at the action where it happens, the pairs the code leaves in doubt:
members the sender does not list (`Unheard`), a newcomer whose list was not its
sender's (`Hearsay`), overlapping changes (`Together`, where a node that was
itself removed before it came to the row leaves anything about the two in doubt;
`Overtaken`), a message that is lost. `ListsAgree` says everybody else agrees; the next undisturbed
change does not repair a pair, since nothing is sent twice. A list is a set of
addresses: that a row may be inserted twice is in `Registration`. Public keys go
with addresses and never change, so a signature is good if the receiver lists
the sender. `unresponsive`, `lastSeen` and votes decide nothing here.

### Electrum: state and actions

| Variable | Code |
|---|---|
| `kind`, `ask` | which client the url selects; what each call asks for: a batch, or a question of its own |
| `socket`, `state` | `this.socket`; the state of every socket ever made |
| `pc`, `on` | where a call is, the socket whose opening it awaits |
| `callbacks`, `timers` | the map by request id; the calls whose timeout is armed |
| `wire`, `answers`, `now` | requests and answers on the way; what the chain is at |
| `since`, `got`, `missed` | history: when a call asked, what it was given, whether its answer passed it by |

| Code | Actions |
|---|---|
| `send`, `sendMultiple` | `Ask` on an open socket (`Send`, with the web socket client's `check`); `Connect` first otherwise |
| `connect` and the handlers of a socket | `Opened`, `Closed`, `ConnectTimeout` |
| `handleResponse`, `processCallback` | `Receive`; `Garbled` for a chunk that is no JSON, which ends the process |
| the timer of a call | `Timeout` |
| the server | `Serve`, `Block` |

The id of a batch is a hash of its addresses, so calls for the same batch share
one callback; the late answer of a call that has timed out serves its retry. A
TLS socket says it is open while its handshake is still under way (`Ready`).
Batches come as a whole: of their elements nothing is told apart. `disconnect`
is called at the end of the process only; empty batches are refused.

`WalletScan` has no state: a series of addresses is a function from its used
indexes to balances, `Loop` is the code's loop, `Reached` says without a loop
what it should find. The gaps of 20 and 10 are constants; the run uses 2 and 1.

### Client: state

| Variable | Code |
|---|---|
| `session`, `cookies` | who is signed in: `isAuthenticated` and user of the store; the cookies, which `signOut` leaves |
| `page`, `atMount` | the page that is open; the exchange which the funding page's `useCallback(..., [])` has kept since it was opened |
| `exchange` | `currentExchange` of the user store, as its owner |
| `processing`, `working`, `mode`, `status` | funding store |
| `holdings`, `holdingsWorking` | holdings store |
| `calls` | calls under way: kind, stage, for whom they were sent, what the server answered; `orphan` is one whose page was reloaded |
| `pending` | server: the users whose exchange has pending rows |
| `straddled`, `kept`, `interrupted`, `lost`, `blind` | history: a call was under way when its user left, by a sign-out or by another's sign-in; a sign-in over a session left the exchange of that one; another call ended the work of a submission; a reload cut short what was to reset `isWorking`; the last change came without the status of who is signed in |

### Client: actions

One action is one turn of the event loop with the effects of the rendering it
causes: a page that is mounted, or whose `isProcessing` changes, polls.

| Code | Actions |
|---|---|
| `signIn`, `signOut` | `SignIn`, `SignOut` |
| routes; reload, at any page | `OpenFunding`, `OpenPage`; `ReloadFunding`, `ReloadPage` (both pages by `Enter`) |
| `setMode` | `ShowForm`, `Back` |
| `createFundingSubmission`, `cancelPending`, `deleteAddress`, `refreshAddress`, `refreshExchangeBalances` | `Submit`, `CancelPending`, `DeleteAddress`, `RefreshAddress`, `RefreshExchange` |
| `createHoldingsSubmission`, `loadCurrentHoldings` | `SubmitHoldings`, `Enter` |
| `LiveFundingStatusWidget` | `Interval` |
| what follows an await | `Continue` (to `loadCurrentExchange`), `Loaded`, `Refreshed`, `FundingFailed`, `HoldingsLoaded`, `HoldingsSubmitted` |
| the server, the network | `Serve` (it acts), `Answer` (it reads the status that it answers), `Settle` (the cycle has emptied the queue), `Fail` |

`SignIn` has no guard on the session, since `signIn` has none: the pages for
signing in and for a new password are open to everyone, and the stores stay as
they are, with the exchange of the session before and the calls under way.

Abstractions. A page that is neither that of funding nor that of holdings is
`other`; coming to it loads the exchange or nothing. Of an exchange or of holdings
only the owner is kept, of a funding
status also whether rows are pending. The expiry and renewal of tokens, messages
about errors, the loading flag of the user store and the queries of the address
table are left out. `funding-info-row.tsx:13` and `funding-address-table.tsx:24`
call a different number of hooks with an exchange and without one; React gives
up a page on which that changes, which is the page `blank`.

## 4. Runs

| Run | Checks | Shows |
|---|---|---|
| `funding` | `TypeOK`, `ExhaustedIsGivenUp`, `OneNetworkUnlessOverlap`, `OneRowUnlessOverlap`, `ImplementsLifecycle` | all requests beside the cycle, failing nodes, a message that names no block, refused bodies, one restart |
| `funding_retries` | `PendingSettles`, `CycleEnds` | pending rows are settled and the cycle ends however often the nodes fail |
| `funding_healthy` | `SettledFunds`, `FundsCatchUp` | with one exchange and nodes that answer (`GoodDay`), funds agree with the rows once the system is quiet, and in the end |
| `funding_networks` (violated) | `OneNetwork` | overlapping submissions put rows of both networks into one exchange |
| `funding_two_exchanges` (violated) | `SettledFunds` | a batch of two exchanges leaves the funds of the first stale |
| `holdings` | `TypeOK`, `SubmissionsSettle`, `StatusSettles`, `VerifiedIsBacked` | whatever overlaps, cancellations and a restart have left, the next undisturbed submission and `updateStatus` put right; verified holdings of a settled exchange are backed |
| `holdings_by_uid` (violated) | `SuccessIsVerified` | a verification by uid succeeds with nothing verified |
| `registration` | `TypeOK`, `JoinsAreAgreed`, `VerdictSettles`, `ListedOnce`, `ImplementsAdmission` | this node admits nobody without everybody's yes, whoever else it hears of, a registration on which no two requests meet ends with the verdict of its approvals, a node is listed once unless two insertions overlap, each round asks all who are on the list, admitted or heard of |
| `registration_member` (violated) | `MembersAreKnown` | a node on the list registers again |
| `network` | `TypeOK`, `ListsAgree`, `ListsItself`, `NewsIsTaken` | members list exactly the members, but for pairs that a loss, an overlap or an ignorant sender has touched; news between members that agree about its sender is accepted, also where a node makes several changes at once |
| `electrum` | `TypeOK`, `EachIsTimed`, `AnswersAreOwn`, `AnswersAreTaken`, `CallsEnd` | waiting calls are timed and end, answers reach who asked for them; all scans of small wallets are exact (`AllScansAreExact`) |
| `client` | `TypeOK`, `ExchangeIsOwn`, `HoldingsAreOwn`, `WorkIsUnderWay`, `OneSubmission`, `StatusShown` | what a page shows is the user's own, but for the named crossings of a sign-out or a sign-in, the form unlocks and submits once, an open funding page ends up with what the server has |

Bounds. `Exchanges` has two members where exchanges can disturb each other, and one
where the property is about one. Two requests (three in `funding_healthy`) are
enough for every pair of operations to interleave with each other and with the
cycle. `RowIds` is as large as the seed plus what all requests can insert, so
that no insert is ever blocked. `BatchSize = 2` makes rows of two exchanges
share a batch and leaves rows over for another one. Two messages, one of which
names no block; three addresses, on both networks. One restart: the state it
leaves is that of a fresh process on an arbitrary reachable database, so a
second adds little. `Requests`, `RowIds`, `Submissions` and `MaxCrashes` are the
bounds; nothing else is cut off.

In `holdings` three requests on two exchanges cover an overlap of two submissions
repaired by a third, and a submission, a change of the funds and a verification
in any order; the one sum is exactly 90 percent of one body and one satoshi short
of that of the other. Its requests are interchangeable (`SYMMETRY`). The proofs
lift all these bounds.

In `registration` four requests are the shortest history in which a node registers,
is asked about and is answered for twice at once; two founders make an answer
that is missing and one that is early; the third node is the newcomer, but the
founders may register, be heard of and be removed as well. Requests are interchangeable. In
`network` three changes on four nodes let an admission overlap another, at one
node or at two, and a removal follow both; one message is lost and one process dies; one of the nodes
is a single node service, the others but the root are interchangeable. In
`electrum` three calls, over two sockets, ask for one batch, for two, or for one
and something else, of either client; one block separates an old answer from a
new one. The wallets are all those with at most six used addresses in a series,
with gaps of 2 and 1: the loop compares a counter with the gap and nothing else,
so that a larger gap adds only length. In `client` two users have one tab, with
two calls at once, four things the user does and one failure: enough for a
sign-out and a sign-in across a call, for a sign-in over a session and a page
opened before its load ends, and for a poll beside a submission; the interval and
the server are not counted. The users are alike, and `MCSpec` starts from one of
each two initial states that differ only in their names (`SYMMETRY` is not sound
for liveness).

Each history variable of a property is needed: without `met`, `crossed`, `odd`,
`straddled`, `kept`, `interrupted`, `lost` or `blind` TLC finds a behaviour of the code
that breaks the property. For `HoldingsAreOwn` that takes three calls at once.

Deadlock is checked in the runs of `Funding`, where the timer can always fire, and of
`Holdings`, where requests that are all done stutter (`AllDone`). In the other
runs (`registration`, `registration_member`, `network`, `electrum`,
`client`) the system really stops when nothing more is asked for: their cfg says
`CHECK_DEADLOCK FALSE`, and what must still happen is stated as an invariant of
quiet states (`VerdictSettles`, `ListsAgree`) or as liveness (`CallsEnd`,
`StatusShown`).

Fairness of `Funding` (`FairSpec`): weak fairness of the timer, which fires every
10 seconds; of the cycle's own steps, because every database and node call comes
back, with an answer or with a timeout of the driver or of axios; of each request
that has started, for the same reason. Nothing makes a user send a request, a
node fail or the process restart. `PendingSettles` depends on the bound on
requests: an exchange that refreshes for ever gives its rows fresh retries for
ever.

Fairness of `Electrum`: weak fairness of each call's timers (`Timeout`,
`ConnectTimeout`), which the event loop fires, and of the end of each attempt to
connect (`Connects`): the web socket client has a timer for it, for TLS the
operating system gives up. The server need not answer. Fairness of `Client`:
weak fairness of the interval while the widget is mounted, of the server's cycle
for each user (`PendingSettles` of `Funding`), and of each call that is under
way: it is served, answered or has failed, and the tab goes on with it.

What the violated runs show. `funding_networks`: submission A validates, submission B of
the same exchange validates, both insert. `funding_two_exchanges`: rows of
exchanges 1 and 2 are in one batch; the turn of 1 stores and adds up a balance;
the turn of 2 reads the balance again, now changed, stores it in the row of 1,
and adds up exchange 2 only.

`holdings_by_uid`: an exchange without funds submits holdings, its status is
`awaiting-data`; a verification by uid finds the holding, verifies none, and
saves SUCCESS, because `verifyByUid` tests `holdings.length`.

`registration_member`: a node that is on the list registers; `processRegistration`
looks for a row by `nodeAddress`, a field that rows of `nodes` do not have, finds
none and goes on where it means to answer "Node already registered".

What the properties of `Holdings` leave open is what the code leaves open: two
overlapping submissions may both stay current, `cancel` leaves holdings current
and the status alone, the later of two overlapping `updateStatus` calls may
write what it read first, and between `InsertHoldings` and `Record` the new
holdings are verified by the old status. The history variables name exactly
these cases, and the next undisturbed request ends them.

`SettledFunds` is checked where requests do not call `updateStatus`. With
`cancelPending`, `deleteAddress` or `refreshAddress` beside the cycle the code
loses updates: the one that reads first may write last.

## 5. Proofs

The theorems of `Funding` hold for every value of the constants that satisfies their named
assumptions: any sets of exchanges, addresses, messages, balances and requests,
any submissions (each non-empty and well formed), any number of restarts, any
initial collection without half-retried rows in which exchanges are on one
network with an address once.

| Theorem | States | Argument |
|---|---|---|
| `TypeCorrect` | `[]TypeOK` | inductive with `RoundInv` (a round under way is one of three; only rounds leave ids to look at, which is what makes `left` part of a new batch) and `ReadyInv` (a request not yet received has nothing to insert, so that taking up a body keeps `inserts` within it) |
| `RetriesGivenUp` | `[]ExhaustedIsGivenUp` | inductive by itself: every call but the cycle's bump leaves a row that is pending after it with the count it had as a pending row or with 0 (`FreshOrSame`), and the bump that reaches the limit is followed at once by the give-up of the same batch |
| `LifecycleImplemented` | `ImplementsLifecycle` | each call is one `Move` of `AddressLifecycle` on the ids it writes that are still stored, or changes no status |
| `NetworksKeptApart` | `[]OneNetworkUnlessOverlap` | `SubmissionInv` below |
| `AddressesOnce` | `[]OneRowUnlessOverlap` | `SubmissionInv` below |
| `FundsSettled` | `GoodDay => (Spec => []SettledFunds)` | `FundsInv` below |

`SubmissionInv` says what a submission may rely on between its calls: outside
`overlap` it is the only one of its exchange (`OneSubmission`), what the
validation found still holds (`CheckedNetwork`), and no row has appeared for an
address it is about to insert (`CheckedRows`). Steps that insert nothing only
lose rows (`RowsOnlyLost`), which keeps all three; the insert uses them for its
own exchange and `OneSubmission` for the others.

`FundsInv` says when the funds may be behind the rows: only while something is
`Due`, which is a pending row or a request that `Promises` to make one, so that a
turn of the cycle is still to come; what `tally` has counted is `ActiveFunds`
unless something is due, and nobody but the cycle records. Every step leaves
something due or, with nothing due before it, the active rows as they are
(`Excused`). `GoodDay` is the hypothesis, and every part of it is there because
the code breaks the property without it: `cancelPending`, `deleteAddress` and
`refreshAddress` call `updateStatus` beside the cycle and the one that reads
first may write last; a batch that is given up, or cut off by a restart, changes
rows and recomputes nothing; with two exchanges the turn of the second may store a
newer balance in a row of the first (`funding_two_exchanges`); a body that is
refused after its reset has deleted rows leaves the funds as they were. It holds in
`funding_healthy`, where TLC evaluates `OneExchangeIsGoodDay`.

Of `Holdings`, for any sets of exchanges, customers, bodies, sums and requests:

| Theorem | States | Argument |
|---|---|---|
| `HoldingsTypeCorrect` | `[]TypeOK` | inductive by itself |
| `SubmissionsSettled` | `[]SubmissionsSettle` | inductive with `SubmitsAlone` (of two submissions at once both are in `met`) and `AloneClears` (what a submission outside `met` has cleared and inserted is still so) |
| `StatusesSettled` | `[]StatusSettles` | inductive with `UpdatesAlone` and `AloneReads`: what an `updateStatus` outside `met` has read is still so, unless a change that another `updateStatus` is to follow is under way (`Still`) |
| `VerifiedBacked` | `[]VerifiedIsBacked` | from the other two and `CalmInv`: a calm exchange is quiet and settled, what a verification has found there is still current, and what it has verified is still OK |

Steps that leave a layer alone go through one frame lemma (`SubmissionFrame`,
`StatusFrame`, `CalmElsewhere`), the steps that touch one exchange through
`OthersSettled`.

Of `Registration`, for any sets of nodes and requests and any number of restarts:

| Theorem | States | Argument |
|---|---|---|
| `RegistrationTypeCorrect` | `[]TypeOK` | inductive with `Documents`, `Knowledge` and `Lists` below |
| `JoinsAgreed` | `[]JoinsAreAgreed` | `Documents` (what is mailed or approved is in the database, a round is inserted at once and for a verified registration) and `Knowledge`: a request that has counted only yes, and whatever row it then adds, has such a round behind it (`Agreed`), while a row heard of needs none; `verified` and `yes` never shrink |
| `OnceListed` | `[]ListedOnce` | `Lists`: a request between the look of `addNode` and its insertion finds no row and no other such request, or its address is in `crossed` |
| `VerdictsSettled` | `[]VerdictSettles` | `Settling` below |
| `AdmissionImplemented` | `ImplementsAdmission` | the documents are mapped to confirmed nodes, rounds, answers, and the nodes that are listed on this node's own account and those it was told of; with `Rounds` (a round has an approval of each node that was on the list when it looked, or none yet) each call is one step of `Admission` or shows nothing |

`VerdictSettles` speaks of a registration nobody is at work on, so its
strengthening says what is true while somebody is. Of a registration outside
`met`, at most one of the requests about its address is at work (`Solo`), and
each place of `approve` and `initiateApprovals` comes with what the request there
`Knows`: that the status is still pending, that an answer was no, that all were
yes. A request that starts is in `met` with whoever it meets (`StartMeets`), the
worker's own steps lead from one `Knows` to the next or to `Settled`
(`WorkerStep`), and anybody else's leave the documents alone or cancel a
registration nobody works on (`OtherStep`).

Of `Network`, for any finite set of nodes and any number of changes, losses and
restarts, with any number of changes at one node at once:

| Theorem | States | Argument |
|---|---|---|
| `NetworkTypeCorrect` | `[]TypeOK` | inductive by itself: every message that is sent is `Sound` |
| `OwnRowKept` | `[]ListsItself` | inductive: no message and no job asks a node to drop itself |
| `ListsAgreed` | `[]ListsAgree` | `IInv`: two members agree, or are in `odd`, or news of one is still to come to the other (`Told`); news and lists under way are true (`TrueNews`, `TrueLists`) but for pairs in `odd`; changes overlap only where `odd` says so (`Overlaps`); a node at work is running and at a change of another (`Workers`) |
| `NewsTaken` | `[]NewsIsTaken` | with `Senders`: a node that is being admitted or removed while news of it is heard, and one that admits without being a member, is in doubt with everybody |

`NewsIsTaken` excuses a newcomer whose first list is on the wire or still to be
sent. The second happens when a node makes two admissions at once: that of y1 is
done with its list and tells y2, which is on the list already, but whose own list
its admission has yet to send. y2 refuses what y1's admission tells it, and learns the
same from its list. The run reaches this, and fails without the disjunct.

Of `Electrum`, for any sets of calls, batches and any number of sockets:

| Theorem | States | Argument |
|---|---|---|
| `ElectrumTypeCorrect` | `[]TypeOK` | inductive; requests and answers are only on sockets that are up |
| `CallsTimed` | `[]EachIsTimed` | inductive: a timer that fires takes its own call out of waiting, and whatever is under its id out of the map |
| `AnswersOwn` | `[]AnswersAreOwn` | with `Known`: requests, callbacks and answers are those of calls that have asked, answers no older than their request |
| `AnswersTaken` | `[]AnswersAreTaken` | with `Replaced`: a waiting call whose callback is not in the map shares its id with another |

Of `Client`, for any sets of users and any number of calls and steps:

| Theorem | States | Argument |
|---|---|---|
| `ClientTypeCorrect` | `[]TypeOK` | inductive with `Known`: the store of the user is empty or says what the cookies say, and nothing is under way before anybody has signed in |
| `OwnExchange`, `OwnHoldings` | `[]ExchangeIsOwn`, `[]HoldingsAreOwn` | `Owners`: unless a call was under way when its user left, by a sign-out or by another's sign-in (`straddled`), every call under way is of who is signed in; unless a sign-in over a session has left its exchange (`kept`), so are the exchange and what the page keeps of it; `Kept`: the store has holdings of another user only while no submission of holdings, which leaves them when it fails, is under way |
| `FormUnlocks` | `[]WorkIsUnderWay` | inductive: the flag is set by a call, the end of any call that sets it resets it, and after a reload that cut such a call short (`lost`) the first table that is shown polls |
| `SubmitsOnce` | `[]OneSubmission` | with `Submissions`: while a submission is under way the form is locked, or `interrupted` is set |

`CallsStep` says once what a step may do to a call; the steps of the invariants
that speak of calls all rest on it.

Only model-checked: `PendingSettles`, `CycleEnds`, `FundsCatchUp`, `CallsEnd` and
`StatusShown` (liveness under fairness is beyond the prover's reach);
`AllScansAreExact` (induction over a recursive function is, too). Every other
property of a passing run is the statement of a theorem.

## 6. Not modelled

- The election of a leader: `updateLeader` has no caller but its test, no
  message carries a vote, and so `getWinningPost` and `updateCurrentLeader` never
  run on a node.
- Parts without a caller: `SyncService` (its body is commented out), the hash
  chain, `setNodeBlackBall`, `broadcastNodeList`, `ping` and `discover`, the
  broadcast of verifications, `getAmountSentBySender`, `retryWithBackoff`; in the
  client `init` and `setExchange` of the user store.
- Authentication, users, mail templates, CSV parsing, tools, migration, logging:
  they keep no state that concurrent steps could spoil beyond edits of one
  document, or none at all. Cryptography is taken at its word.
- The expiry of links and tokens.
- Of the client: forms, tables and texts, the pages of registration, users,
  verification and tools, which call the server and keep nothing across calls;
  several tabs with one disk; the generated `open-api` services, which pass a
  call on.
- `DbApi` beyond the five calls on documents that the models use.
