# Verification of conflux-sourcify

Conflux-sourcify is a contract verification service: it compiles submitted
sources, compares the result with the bytecode deployed on a chain, and stores
and serves the matches.  A second process follows the chains and collects the
ABIs that are announced on them.  This directory holds a model of the service in
TLA+, the configurations that model-check it, and theorems about it that TLAPS
checks.

Run from this directory: `tlc -config X.cfg M` for the runs and `tlapm M.tla` for
the proof modules listed below.

## 1. The system

| part | state it keeps | operations | talks to |
|---|---|---|---|
| HTTP API (`routes/`) | none | validate, check "already verified", check "already running", hand over, look up | store (reads), VerificationService |
| `VerificationService` | running tasks and their ids (memory), worker pool | start a task, settle it, close | pool (calls), store (writes) |
| workers (`services/workers`) | one compilation and one verification at a time | compile, compare, export a match or an error | chain RPC, compilers |
| store (`services/store`) | the tables: `verification_jobs(_ephemeral)`, `verified_contracts`, `sourcify_matches`, content-addressed code and sources, `abi_signatures`, `config` | insert or update a verification, complete or fail a job, look-ups | MySQL |
| chain access (`services/chain`) | list of nodes | every call tries the nodes in order | nodes, which fail and lag |
| monitor (`services/monitor`) | position and range (memory), cursor (table `config`) | catch up, follow the head, store | chain access, store, alerts |
| health and alerts (`services/health`, `services/alert`, `utils/alert.ts`) | time of the first failure, number of reports | count a success or failure, report to every channel | channels over HTTP |
| listings (`routes/api/lookup`, `StoreService`, `Dao`) | none; a client keeps the last id it got | list a chain by id | store (reads) |
| backfill tool (`utils/tools`) | the last id, in table `config` | fill in columns of similar matches, ten at a time | store, chain access |
| compilation, validation, importers | compiled output, assembled sources | compile, find sources, convert | compilers, network |
| process life cycle (`server.ts`, `docker-compose.yaml`) | up, closing, exited | signal, close, exit; docker restarts it | everything |

Node runs one callback at a time, so a function is atomic between two `await`s
and interleaves with every other function at each of them.  That makes these
behaviours hard to test:

* **Overlapping requests for one contract.**  Each goes through two checks (two
  reads), an insert, and a task that reads the current match, then reads the
  current verified contract, then writes three tables in three statements without a
  transaction.  The checks and the writes of several tasks interleave freely.
* **Partial failure.**  Any statement may fail, or take effect and be reported as
  failed.  The error path writes two more statements, and a failure there is an
  unhandled rejection that ends the process.
* **Death and restart.**  Running tasks are known in memory only; the tables
  survive.  A graceful shutdown must neither wait for a compiler that does not
  return nor leave a job open.
* **A chain that changes under the reader.**  The monitor asks one node for the
  height and another for the block; blocks are reorganised; a range may be refused
  and is narrowed; the signatures and the cursor are two statements.
* **Shared rows.**  Codes, contracts, compilations and sources are stored once and
  shared by every verification that has them.  Two transactions insert the same row,
  one waits, is told that the row exists, and may then not see it in its snapshot.
* **Readers beside writers.**  A client walks the matches by id, and a tool by a saved
  id, while matches are inserted, replaced and committed late.
* **An alert that nobody awaits.**  A similar match without a creation code sends an
  alert beside its transaction; when a channel refuses it, the process ends at whatever
  await its tasks are at.
* **A report inside every step.**  The monitor waits for the alert of each step, and
  what the alert throws becomes the result of the step.
* **Comparisons written twice.**  The middleware's gate, the store's comparison,
  the level shown by the API and the status shown by the verification code are
  four functions of the same two fields.

What makes each part correct is stated with its module below, and the list of
hazards with their places in the code is in `PROJECT.json`.

## 2. The modules

| module | models | checked by | proved in |
|---|---|---|---|
| `MatchStatus` | the comparisons and summaries of `services/utils/util.ts` | `MCMatchStatus` | `VerificationJobsProofs` |
| `VerificationJobs` | a request from the middlewares to the stored match; server life cycle | `MCVerificationJobs` | `VerificationJobsProofs` |
| `SimilarMatch` | the cross-chain endpoint, beside the requests of `VerificationJobs` | `MCSimilarMatch` | `SimilarMatchProofs` |
| `VerificationLedger` | what the API promises of jobs and contracts (abstract) | property `ImplementsLedger` | `VerificationJobsProofs`, `SimilarMatchProofs` |
| `ContentStore` | the transactions of a store, statement by statement, on the shared tables | `MCContentStore` | `ContentStoreProofs` |
| `MatchTable` | what `sourcify_matches` promises to its readers (abstract) | property `ImplementsMatchTable` | `ContentStoreProofs` |
| `MatchListing` | a client that walks the matches and the backfill tool, beside the writers of `MatchTable` | `MCMatchListing` | `MatchListingProofs` |
| `BytecodeVerification` | one verification inside a worker, over every contract its input compiles to | `MCBytecodeVerification` | `BytecodeVerificationProofs` |
| `CreationLookup` | the search for the transaction that created a contract, node by node | `MCCreationLookup` | `CreationLookupProofs` |
| `AnnouncementSync` | the monitor of one chain, its chain and nodes | itself | `AnnouncementSyncProofs` |
| `HealthAlerts` | the timed counter of a syncer and the loops over the alert channels | `MCHealthAlerts` | `HealthAlertsProofs` |

Two pairs of modules meet in an abstract one.  `VerificationJobs` and `SimilarMatch`
implement `VerificationLedger`, what a client of the API sees of jobs and contracts.
`ContentStore` implements `MatchTable`, and `MatchListing` uses `MatchTable` as the
writers its readers run beside: what is proved of the readers holds for every writer
that keeps that promise.

### MatchStatus

Pure operators.  A match is a record of two statuses, creation and runtime;
`"null"` stands for JavaScript's `null`.  `MCMatchStatus` walks every chain of
replacements that `isBetterVerification` accepts over all 25 pairs and checks the
end of the chain against its start: `ChainImproves` (transitive, asymmetric, and in
agreement with the level shown), `GateAgreesWithStore` (the middleware refuses exactly
what the store would refuse whatever came), and `SummariesAgree` (the two summaries of a
pair are the same).

### VerificationJobs

State and code:

| variable | code |
|---|---|
| `phase` | `up`; `closing` after the signal (the HTTP server closes); `draining` after `workerPool.destroy()`; `down` |
| `pc[j]` | the await the request or its task is at |
| `openJobs[j]`, `result[j]`, `oldRecord[j]`, `error[j]` | local variables that live across an await |
| `runningTaskIds` | the field of `VerificationService` |
| `jobRow`, `jobRecord`, `ephemeral` | `verification_jobs` (state, `verified_contract_id`), ids in `verification_jobs_ephemeral` |
| `records`, `matches` | `verified_contracts` and `sourcify_matches` joined with their verified contract, as sets of rows with their unique keys |

Actions, in the order of the code: `Submit`, `CheckIfAlreadyVerified`,
`ListJobs` / `CheckIfJobIsAlreadyRunning` (the middleware before and after its
await), `StoreVerificationJob`, `RunInBackground`; `WorkerExports` / `WorkerFails`;
`CheckMatch` (`storeVerification`), `ReadRecord` (`insertOrUpdateVerification`),
`WriteRecord` (one transaction), `UpdateMatch`, `InsertMatch`, `CompleteJob`;
`SetJobError`, `InsertEphemeral`; `Settle`.  Faults: `StatementFails`,
`RequestFails`, `ReplyLost`, `InsertReplyLost`, `BookkeepingFails`, `Crash`.
Life cycle: `Shutdown`, `DestroyPool`, `Exit`, `Restart`.

Two points of the code decide much of the behaviour and are modelled as they are:

* a query without `ORDER BY` whose first row is used returns *any* row
  (`FirstRow`);
* the affected-row count of an insert-or-update, or of an update, whose row already
  holds the new values may be 0, because time stamps have a resolution of one
  second; the code takes 0 for a conflict, or for "no such row".

Properties: `SuccessIsBacked`, `MatchesAreRecorded`, `DetailsBelongToErrors`,
`RejectedOnlyWhileRunning`, `ImplementsLedger`,
`BestLevelNeverDrops`, and the liveness properties `ShutdownCompletes` and
`TaskWritesOutcome`.  Each is stated in a comment above its definition.
`OrphanOnlyByFault` is about these requests alone; the runs check it for the composition
(`CrossOrphanOnlyByFault`, below).

The ledger has one transition a reader may not expect, `Retract`: the statement
that completes a job may take effect and be reported as failed, and the error path
then overwrites the success.  It is the only way an outcome changes.

A ledger job may also verify and succeed in one step: that is a cross-chain request,
whose transaction commits the match together with the job.

### SimilarMatch

`verifyFromCrossChain` compiles nothing: it looks for a contract with the same
runtime code and copies its verified contract and its match.  The module extends
`VerificationJobs` and adds the handler; a step of any other request is taken
together with `Beside`, which makes it wait for an open transaction on the same
deployment and keeps the order of the deployments' ids.

| variable | code |
|---|---|
| `crossPc[j]` | the await the handler is at |
| `deployed` | `contract_deployments` in the order of their ids |
| `source[j]`, `sourceRecord[j]`, `sourceMatch[j]` | `contractDeployment`, `verifiedContract`, `sourcifyMatch` of `insertNewSimilarContract` |
| `hasMatch[j]` | whether `oldMatch` was found |
| `alerts` | the calls of `alertErrorImmediately` that are under way |
| `alertFailed` | history: one of them was refused |

Actions, in the order of the code: `StartCrossChain` (the two middlewares and the
insert of the job are those of `VerificationJobs`), `GetBytecode`, `NotDeployed`,
`ChainFails`; `ReadDeployment`, `ReadSourceRecord`, `ReadSourceMatch`;
`BeginTransaction`, `Commit`; `CrossSetError`, `CrossInsertEphemeral`;
`CrossStatementFails`, `CommitReplyLost`; `AlertSent`, `AlertRejects`.  All contracts of the model have the same
code, which is the case the endpoint is for; a deployment may be that of the contract
itself.

What differs from the other endpoints, and is modelled as it is: the handler is no
running task, so neither the running-job check nor a shutdown knows of it; the calls
of the chain and `setJobError` are awaited outside any `try`, so a failure leaves the
job open; the old match is read outside the transaction, and its update may change
nothing; the old match is not compared with the new one.  When the chain gave no
creation code, the handler starts an alert to every configured channel and goes on
(`StoreBase.ts:350-356`).  Nothing awaits or catches it, and it throws for a channel that
refuses it or is not enabled (`alert.ts:85-111`): `ReadSourceMatch` may leave such an
alert, and `AlertRejects` ends the process at any later step, of this handler or of
another.

The safety properties are those of `VerificationJobs`, and they hold for the
composition, with one addition: `CrossOrphanOnlyByFault` says that an open job without a
task or handler needs a fault *or* a refused alert.  The second is no fault of the
database, the chain or the process, and no bound counts it: with the default
configuration, which names a channel and enables none, every such alert is refused
(section 6).
`CrossChainEnds` is the liveness of the handler.  The
deployment that is copied is the first one, `deployed` being in the order of the ids; of
several verified contracts of it any may be read.  A cross-chain request can end in
`no_similar_match_found` although a match exists, because `ReadSourceRecord` takes
any verified contract of the deployment, and one that was replaced has no match.

### ContentStore and MatchTable

`VerificationJobs` takes the tables behind a verified contract as given.
`ContentStore` models them: every job is one call of `storeVerification` or
`insertNewSimilarContract`, every step one statement.

| variable | code |
|---|---|
| `db` | the committed rows, by unique key: codes, contracts, deployments, compilations, sources, files of a compilation, verified contracts, matches |
| `task[j].todo` | the statements the transaction still has to make, in the order of `insertNewVerifiedContract`, `updateExistingVerifiedContract` or `insertNewSimilarContract` |
| `task[j].writes`, `.locks`, `.snapshot` | what the transaction has written, the rows it has locked, the snapshot of its first `SELECT` |
| `task[j].contract`, `.comp`, `.verified` | the ids the statements return, by the key of their row |
| `task[j].found`, `.old` | `oldMatch`, and the verified contract that is replaced |
| `lastId` | `AUTO_INCREMENT` of `sourcify_matches` |

`BeginStore` and `BeginSimilar` are the reads before `BEGIN`; `Touch` (insert and
ignore the duplicate), `AddFiles`, `InsertDeployment`, `InsertCompiled`,
`InsertVerified`, `ReadOldMatch`, `WriteMatch` and `Commit` are the transaction;
`UpdateMatch` and `InsertMatch` follow it.  A row that a statement reports as there and
the transaction does not see (`Without`) is undefined in the code, and what happens then
depends on who uses it: for a recompiled code and for the deployment the next statement
that takes its hash or id throws (`LacksRow`); the creation code of the chain is used
only as `onchainCreationCode?.bytecode_hash`, so the store goes on and the contract is
stored with NULL for it (`BareContract`).  A unique key does not compare NULLs, so every
such store inserts a contract of its own.  `LoseConnection` and `Deadlock` are the
faults; a deadlock is a circle of waiting transactions, of which one is rolled back.

The database is not part of the repository; what the model takes of it is in the
module's heading: unique keys, the row counts of `ON DUPLICATE KEY UPDATE`, row locks,
and the snapshot of `REPEATABLE READ`.  Left out: the locks of one statement are taken
together, gap locks are not modelled, the row of the job is in `VerificationJobs` and
not repeated, and the code at an address does not change.  Whether a row that is
written again was also written in the same second is left open, because the row count
then differs.  The comparison with the match that is there is not repeated either:
every export may be stored, which is more than the code does.

* `MatchIsReadable`: the inner joins that read a match find every row, whatever
  transaction was interrupted, and also when its contract was stored without the creation
  code the transaction could not see.
* `OneInputIsWhole`: a compilation that is shared gains files from each who verifies
  with it; one of the inputs it was verified with is there as a whole.
* `VerdictIsEarned`: a verified contract says what a comparison of these codes found,
  also when it was copied from another chain.
* `AbortNeedsRace`: a store that runs alone never fails for a row that it was told
  exists, never goes on without it, and is no victim of a deadlock.  With another beside it both happen (`Dao.ts:766`,
  "Source not found").
* `LevelsAgree`: the two tables that hold the statuses agree unless stores overlapped
  or a statement failed between them.
* `ImplementsMatchTable`: ids grow with the inserts, a replaced match keeps its id, no
  match disappears, and an id may appear after a larger one.

### MatchListing

One reader runs beside the writers, its kind chosen at the start.

| reader | code | actions |
|---|---|---|
| walk | `listContractsEndpoint`, `getSourcifyMatchesByChain`: the client gives the last id it got | `StartWalk`, `WalkPage` |
| tool | `backfillTransformationValues`: ten rows, each written and its id saved | `StartTool`, `Select`, `Backfill`, `Save`, `Die`, `Restart` |

`Firsts` is `ORDER BY .. LIMIT` on a unique key.  `cursor` is the id in table `config`,
`backfilled` the verified contracts whose values are written.

`WalkSeesAll`: a walk returns every match that was there when it began, none twice.
`ToolSkipsNothing`: the tool never passes a match that was due when it was first started
and has not been written since.  What it does skip is a match that commits late with a
smaller id.

The store has two more listings, `getContracts` and `getPaginatedContractAddresses`, of
the first version of the API.  They are not modelled: nothing in `src` calls them, and
both begin with a total whose `CAST(SUM(..) AS INTEGER)` (`Dao.ts:174-177`) MySQL does
not accept.

### CreationLookup

`getCreatorTx`, and what `verify` then does with the transaction, for a core-space
chain.  Every call goes through the nodes in their order, and every node may lag,
fail or have no traces.

| variable | code |
|---|---|
| `created`, `destroyed`, `direct`, `reorganised` | the chain: the blocks the contract begins and ends at, and whether the transaction itself or a factory created it |
| `seen[n]` | the height node `n` has received |
| `pc`, `node` | the call under way and the node it is at |
| `currentBlockNumber`, `left`, `right`, `txs` | the local variables of `findContractCreationTxByBinarySearch` |
| `creator`, `trace`, `creationCode` | the results |
| `silent`, `cutShort` | history: the nodes that failed to answer, and whether a call ended at the first of them |

`AskApi`, `AskPage`; `GetBlockNumber`, `GetBytecode` (one question of the binary
search), `GetBlock`, `NextCandidate`, `CheckCandidate`; `GetTx`, `GetTxBlock`,
`GetTxReceipt`, `ReadReceipt`, `GetTraces`.  Traces that are empty or make another
contract send the call to the next node (`TracesLackOurs`).  A call that is not answered is
`NodeFails` (an error or the timer), `NodeLacksBlock` or `NodeWithoutTraces`, and goes
on with `NextNode` or ends with `CallThrows`.  `GetTxReceipt` and the block that
follows it are one pair of calls used twice, before and after the transaction is
found.

`SearchBracketsCreation` and `SearchFinds` are about the binary search whose questions
are answered by different nodes.  `SearchFinds` has the exceptions the code has:

* a contract that was made by a factory, or destroyed before the block the search starts from, is not found;
* `getTx` and `getTxReceipt` have no `try` around the call of a node
  (`Chain.ts:100`, `Chain.ts:181`), so the first node that fails ends them, and the
  search passes over that transaction;
* a node that says "no code" because the block was replaced sends the search to the
  wrong half.

`CodeIsOurs` is about nested creations in a trace: `MCCreationLookup` gives it every
trace of up to three nested or consecutive creations, and TLC evaluates
`TracesAssumption` on each: creations are nested, so that one which begins within
another ends before it, and one of them may make the contract.  The theorem
`CodeFromTraces` is about every such trace.  `LookupEnds` needs that the
interval gets shorter.  The explorer's answers are taken to be the right transaction
or none, and a transaction found by the search is believed only by its receipt, which
is the guard of `CheckCandidate` and needs no property.

### BytecodeVerification

What happens inside a worker between `WorkerExports` and the hand-over that
precedes it.  When the client names no contract, `verifyWithBestEfforts` runs one
`Verification` object and one compilation object over every contract of the
compiler output, so every field these objects do not reset is an input of the next
comparison.  The module keeps all of those fields:

| variable | code |
|---|---|
| `input`, `attempt` | the request; the first or second `Verification` of `_verifyFromMetadata` |
| `todo`, `matched`, `final` | the loop of `verifyWithBestEfforts` (the positions of the contracts it has not tried), its `compilationTarget`, and the last `verify` of the match |
| `target`, `output`, `contracts` | `compilation.compilationTarget`, `compilerOutput` with the compiler it came from, the contracts in it |
| `runtimeAuxdata`, `creationAuxdata` | the contract the stored auxdata positions were computed for |
| `runtimeCode`, `creationCode`, `creatorTxHash` | `_onchainRuntimeBytecode`, `_onchainCreationBytecode`, `creatorTxHash` |
| `runtimeMatch`, `creationMatch` | the fields of the same names |
| `profile[t]` | what contract `t` is, compared with the chain: size, auxdata, metadata hash, the two outcomes |

The actions follow `verify` line by line, one per await or decision:
`GetCreatorTx`, `CompileAndList`; `TryCandidate`, `VerifyMatchAgain`,
`NothingMatched`; `FetchRuntime`, `RefetchRuntime`, `NotDeployed`; `Compile`,
`ContractNotFound`, `FindPerfectMetadata`, `KeepMetadata`; `CheckLength`;
`GeneratePositions`, `PositionsFail`; `MatchRuntime`, `HandleBugs`;
`FetchCreation`, `CreationAsBefore`, `MatchCreation`; `Export`, `NoteMatch`,
`NoMatch`.  `Throw` is every way `verify` throws: in the search two codes go on
with the next contract, in a metadata request the extra-file error starts a second
`Verification`, everything else ends the request.

A byte string is represented by the outcome of its comparison, a profile.  The
outcome of a comparison made with another contract's auxdata positions is open
where it depends on them (`Outcomes`).  `CandidatesAssumption` says that the compiler
output has no two contracts of one fully qualified name: the names are the keys of its
object.  Two kinds of input are left out: Fe, whose code has no auxdata, no metadata and no
check of its length, and code with no metadata on either side, where the two hashes that
`handleSolidityExtraFileInputBug` compares are both undefined (`ConsistentProfiles`).

`ExportIsOfTarget`, `AmbiguityIsReal` and `SearchFindsTheMatch` compare the reused
objects with what a fresh object would say of each contract.  They hold with four
exceptions, which the properties name because the code really behaves so:

* auxdata positions in the runtime code are kept for a later contract with several
  auxdatas (`SolidityCompilation.ts:244`).  The later contract can then be missed,
  and so can the match when it is verified again: the answer is `no_match` although
  one of the contracts matched;
* metadata found for varied sources replaces the compilation of the whole search
  (`Verification.ts:397`), whose output may lack the later candidates; the search then
  ends with `contract_not_found_in_compiler_output`;
* the extra-file error of one candidate ends the search;
* a comparison that throws for want of positions leaves the status of the contract
  before in place (`Verification.ts:273`), which needs a failed second compilation.

### AnnouncementSync

`latest`, `finalized` and `block` are the chain; `pc`, `live` (Syncer instead of
CatchupSyncer), `currentBlock`, `finalizedBlock`, `start`, `end`, `logs` are the
monitor's memory; `stored` and `cursor` are its tables.  `Seen(h)` are the heights a
node may report: the code takes the first node that answers, call by call, so two
consecutive answers may come from different nodes.  Catch-up uses
`LoadLastSyncBlock`, `UpdateBlockRange`, `NarrowRange`, `GetLogs`; following the head
uses `SyncOnce`, `TryReceiptsRPC`, `GetBlockReceipts` or `GetLogs`; both store with
`BulkCreate` (or `DecodeFails`) and `SaveCursor`.  `CallFails`, `ReplyLost`, `Crash`,
`Signal`, `Restart` are the faults.

`CursorIsComplete` needs `DelayAssumption`: the configured delay is at least the
deepest reorganisation and the largest lag.  The code's default delay is 0, so an
operator who leaves it unset relies on a chain without reorganisations and on nodes
that never lag; the assumption names what the configuration has to provide.

### HealthAlerts

| variable | code |
|---|---|
| `failedAt`, `reports` | the two fields of `TimedCounter` |
| `now` | the clock, which moves between any two steps |
| `node` | how the syncer's call of the node went: well, an error, or a head that does not move |
| `step`, `urgent` | the loops of `alertError` and `alertErrorImmediately` over the channels: the next one, and whether there is an error |
| `enabled` | the channels in the manager |
| `result`, `server` | how the step of the syncer ended; whether the server runs |
| `since`, `checked`, `alarms`, `recovered` | history: the outage, the latest look at it, and what was announced |

`CallNode`, `UnknownChannel`, `ReportSuccess`, `ReportFailure`, `Send`, `EndStep` are a
step of a syncer with its alert; `StoreWithoutCreation`, `SendUrgent`, `EndUrgent`,
`RestartServer` the alert of a similar match without a creation code, which nobody
waits for.

All channels of an alert ask one counter in turn, so the first one that is found
changes what the later ones are told.  `AlarmsFollowTheOutage` and `AlarmsAreClosed`
are therefore about all channels together: an outage is announced at the first look
that finds it old enough, by then with at most one message and one more for each remind
interval after it, and closed by a recovery.  (When a look comes late several of these
are due, and two channels are told at one instant.)  `StepsGoOn` is the liveness of the
syncer.  `AlertsAreOptional` is a claim the code does not keep (section 6): a step
whose node answered fails when no channel is enabled.  What the alert of a similar match
does to the server's jobs is in `SimilarMatch`.

### Wrong variants

Some definitions are preceded by a variant marked "Wrong variant" or "A plausible
slip": a plausible bug in the same lines (a dropped check, a swapped order, an off-by-one).  No
specification uses them.  `PROJECT.json` pairs each property with a variant that
breaks it, so that every property is known to be able to fail.

## 3. The runs

| run | asks | size |
|---|---|---|
| `match_chains` | do the four functions of a match agree, over all pairs | 228 states |
| `jobs_faults` | safety and refinement with both kinds of request: 3 requests, 2 contracts, 3 possible exports on 2 compilations, 1 failure, any refused alerts, shutdowns and restarts | 1 022 000 states |
| `jobs_serial` | the best level over 4 non-overlapping requests, every order of 12 exports on 3 compilations | 8 500 states |
| `jobs_progress` | do the tables stay consistent through lost replies and a kill, does a signalled server stop, does a task or a cross-chain request write an outcome | 2 requests, 1 contract, one fault of each kind, any refused alerts; 97 000 states |
| `sync` | completeness of the cursor and progress | 4 blocks, batches of 2, ranges refused above 1, reorganisation and lag of 1, 2 announcements of which one is malformed, 1 failure, 1 crash, 1 signal; 690 000 states |
| `verification` | is what one reused object exports what separate objects would find; does it end | 3 candidates, each of 11 kinds, 7 kinds of request, 1 failed call; 940 000 states |
| `creation` | is the creating transaction found, is the creation code that of the contract, does the search end | 3 nodes, 4 blocks, traces of 3 creations, 1 reorganisation, any number of failed calls; 572 000 states |
| `store` | are the shared rows complete and true, whatever overlaps or fails; do the matches keep what `MatchTable` promises | 3 stores, each of any of 6 exports or a copy, 3 addresses of which two have the same code, 1 lost connection; 294 000 states |
| `listing` | what may each reader rely on | 3 verified contracts at 2 addresses, 4 ids, pages of 1 and 2, 2 writes beside the reader, any before; 1 156 000 states |
| `alerts` | is an outage announced and closed, do the steps go on | 2 channels, any of them enabled, threshold and remind interval 2, 8 ticks; 56 000 states |
| `two_match_levels`, `alerts_optional` | claims of a comment and of the README the code does not keep (section 6) | 1 contract and 3 requests; as `alerts` |

Bounds and why they are enough.  Three requests on the same contract give every
pairwise interleaving and one beside it; two contracts show that requests do not disturb each other;
a fourth request matters only where matches accumulate, which
`jobs_serial` covers.  Three exports contain a pair that improves, a pair that
conflicts and a repetition, within one compilation and across two.  One kill and one
shutdown reach every state of the tables a restart can find.  In the monitor, 3
finalized blocks make a batch of 2 that is cut, narrowed to 1 and continued at the
next block; 4 blocks let catch-up end and following begin, with a reorganisation at
the head.  In `verification`, three candidates are one that leaves something behind,
one that finds it, and one for which the search goes on; the kinds contain every
reason for which a contract matches or does not, and one failed call reaches each
error path with every combination of what the earlier contracts left.  In `creation`,
three nodes are one that answers, one that fails and one that lags, in every order;
four blocks make the search halve twice, with the creation in each half and at each
end.  A cross-chain request copies from another contract that
is verified, and its transaction can be overtaken by a third request, hence three
requests in `jobs_faults`; two requests with 2 failures, a lost reply and a kill, and
three with a lost reply and a kill (2.5 million states), were checked once with the
same result.  In `store`, two jobs make every pair of overlapping statements and a
deadlock, and the third a row that both find; the exports share a code, a compilation, a
deployment and a source in every combination that two of them can, and a lost
connection can end any of them; one export takes
its snapshot at the codes of another and its creation code from a third, so that the code
can be there and not be seen.  In `listing`, four ids are a page
that is full, one that is short, and one that comes late; what a write does to a reader,
it does to the page it falls in, and two writes are a replacement and an insert.  In
`alerts`, 8 ticks are two remind intervals after the threshold, and an outage and a
recovery after them.  The theorems
below drop all these bounds for the safety properties.

Symmetry is used in `jobs_faults` (requests and contracts), `jobs_serial` (requests and
compilations) and `store` (jobs), where all properties are safety properties; no liveness run uses it.

Deadlock is checked in every run but these: `match_chains` stops at a pair of
perfect matches, a verification ends with its export, a lookup ends with its result, a
listing ends when its reader has finished and the bounds on the writes are reached, the
clock of `alerts` is bounded, and the monitor's model stops when its bounded chain has
been read to the end and waits at the head.

### Fairness

`StepFairness` is weak fairness of each request's steps, each task's steps and the
steps of closing: callbacks run and statements return (successfully or not).
Nothing makes a compilation end: the pool is created without a time limit, so
`ShutdownCompletes` holds whatever the compilers do, and `TaskWritesOutcome` starts
when the task has heard from its worker.  No fault is fair, and nothing makes a server be
signalled or restarted.  In `CrossFairSpec` the steps of
a cross-chain handler are fair as well, as callbacks of the same process; `CrossChainEnds`
names the failures after which the job may stay open.  In `CreationLookup` each call of a
node ends, because it is raced with a timer of `Chain`, or, for the epoch's blocks
(`Chain.ts:538`), by the time limit of the SDK, which is not part of the repository.  In `BytecodeVerification` weak fairness is on the verification as a whole: each call
it awaits returns or fails, the compilers included.  `VerificationEnds` therefore says
only that the code itself does not go round for ever (`verify` calls itself), not that
a compiler returns.  In `AnnouncementSync` weak fairness is on the monitor as a
whole, including the restart by docker; the wait at the head is a disabled
`SyncOnce`, so fairness says that a monitor asking again and again is eventually
answered by a node that has the block.  In `HealthAlerts` the syncer's loop takes its
next step and a message ends, sent or not; time need not pass, no node need answer, and
nothing is assumed of the server.

## 4. What is proved

All theorems hold for every value of the constants that satisfies the assumptions
named in the modules.

* **MatchStatus** (in `VerificationJobsProofs`).  `UpgradesNeverCircle`, `GateIsMaximum`,
  `SummaryIsOne`.  The invariant is that the current pair is the first or better than it
  in the order of scores; transitivity of the comparison is linear arithmetic over
  scores.
* **VerificationJobs.**  One inductive invariant (`Invariance`), from which
  `TypeCorrect`, `SuccessBacked`, `MatchesRecorded`, `DetailsOfErrors`,
  `OrphansNeedFaults` (without cross-chain requests), `RejectionIsJustified` and
  `LedgerImplemented` follow.
  `SuccessIsBacked` is not inductive alone: it needs to know what a task has already
  written at each step (its record before `updateMatch`, the match before
  `completeJob`), that records are never removed and that a contract that has a match
  keeps one, which holds because the only statement that removes a match puts another of
  the same contract in its place.  The shape of the local variables at each step
  (export present exactly in the store's steps, and so on) carries the type
  correctness, and `OrphanOnlyByFault` needs the connection between `phase`, `pc` and
  `runningTaskIds`.
  `LevelNeverDrops` is about `SerialSpec`, with the bounds on faults zero (`NoFaults`, as
  in its run).  An update replaces the match of whatever verified contract the task read
  first, which need not be the match it compared its result with; what saves the level
  is the sum of the two scores.  `SerialInv`: a match of sum 1 is the only match of its
  contract, and its verified contract the only one, so it is the match compared and the
  match replaced; without a match there is no verified contract; every other match has
  sum 2 or more, and what improves on one of those has at least 3, hence the highest
  level, whatever it replaces.  `Task` says what of this holds between the statements of
  the one task at work.
* **SimilarMatch.**  The same seven properties of the composition `CrossSpec`, so for
  every endpoint that verifies: `CrossTypeCorrect`, `CrossSuccessBacked`,
  `CrossMatchesRecorded`, `CrossDetailsOfErrors`, `CrossOrphansNeedFaults`,
  `CrossRejectionIsJustified`, `CrossLedgerImplemented`.  The invariant `CrossInv` is the
  invariant of `VerificationJobs`, the type of the handler, and what a handler knows at
  each of its steps (`AtStep`): once it has read the source, its record and the match
  read from it belong together, and the copy it inserts backs itself.  A step of another
  request is a step of `VerificationJobs`, so its lemmas are used again; what is new is
  that the handlers' variables keep their meaning beside it, because records and
  deployments are never removed.  A refused alert is, for the invariant, one more death of
  the process; for `CrossOrphanOnlyByFault` it is the history variable that remembers it,
  which never goes back.
* **BytecodeVerification.**  `TransactionKept`: a creation match is never exported
  without the transaction it was read from.  `VerificationTypeCorrect`,
  `ExportBelongsToTarget` and `AmbiguityHasTwoMatches` rest on an invariant
  (`WorkerInv`) with one part for each thing that outlives a contract.  `SearchInv`: the
  match is no contract that is still to be tried, so examining another one cannot change
  what is known of it.  `CarryInv`: a status in the fields belongs to the contract under
  examination or, when there was nothing to compare with, to the match.  `CheckInv`: what
  is compared has passed the checks before, and the match would be accepted by objects of
  its own.  `FaultFreeInv`: without a failed call there are always positions, those of
  the contract or of another whose length fits.
  `SearchIsFaithful` (`SearchFindsTheMatch`, for a compiler output of any length) adds
  what the search has learnt, `FindsInv`: every listed contract that was tried and is not
  the match was rejected for a reason of its own, which no later step can take away, or
  falls under an exception the property names.  At the end of the search that leaves the
  match, two matches or none; finiteness of the output gives the cardinalities.
* **ContentStore.**  All of its properties, for any number of stores, exports, addresses
  and lost connections.  The invariant has a part for each thing that two transactions can
  disturb.  `LockInv`: a job holds the locks of the rows it has written and no other job
  holds them (`LocksAreExclusive`); every other part rests on it, because a row that is
  written is then out of everybody's reach until the commit.  `SoloInv`: a job beside
  which nothing ran has the committed rows as its snapshot, so what it was told exists is
  there (`AloneNeverMisses`), the creation code among it, so that it never stores a
  contract without one.  `DbInv`: what a committed row refers to is committed, a
  compilation has the files of one input as a whole, a verified contract was earned.
  `DbInv` alone is not inductive: a commit keeps it only because `TaskInv` says what an
  open transaction has already written or found for each statement that is over, in the
  order the statements have (a file is written before its verified contract, a
  compilation before both), and that a compilation it found, not wrote, has its files
  already, and that a contract stored without its creation code refers to codes that are
  there; nothing is removed but verified contracts and matches that are moved to
  another compilation.  From the two follow `MatchesAreReadable`, `InputsAreWhole` and
  `VerdictsAreEarned`.  `TableInv`: an id belongs to one match, whether committed or only
  written.  `CalmInv`: while no stores overlap and none fails, verified contract and match
  of an address agree, or the one job at work is about to make them agree
  (`CalmLevelsAgree`); a copy carries two statuses that agree, and writes its match with
  the second in the transaction that writes the first.  `StoreImplementsMatchTable` maps
  every step to a step of `MatchTable` or to a stutter: an id names one row, among those a
  reader sees (`SeenRows`) and those of open transactions (`PendingRows`), because of
  `TableInv`.
* **CreationLookup.**  `SearchBrackets`: for any chain, any number of nodes and any
  failures, the search keeps the creation between its ends.  The invariant adds that the
  upper end never passes the block the search started from: the contract has its code
  there, so a block in between without code lies before the creation, not after the
  destruction.  The rest is integer arithmetic on `(left + right) \div 2`.
  `SearchIsComplete`:
  if one node answers every call, the search finds the creator, with the exceptions
  listed above.  The invariant says that the nodes before the current one have failed
  to answer, so that a call is given up only when all have, and that the creating
  transaction is among those still to be looked at.  `LookupTypeCorrect`.
  `CodeFromTraces`: traces are asked for only when a factory made the contract
  (`CodeInv`), and the loop over a trace of any length then finds the code of the
  creation that made it, or none (`StackFindsOurs`).  The stack holds the codes of
  exactly the creations that have begun and not ended, the last begun on top
  (`IsStack`); nesting, the assumption on `Traces`, makes the top the one that ends
  next.  The induction over the steps is over a set of numbers (`SetInduction`, from the
  least element of its complement), which the provers can instantiate where the
  library's induction theorems, about an operator, cannot be; this is why the loop is
  written as a recursive function.
* **AnnouncementSync.**  `SyncTypeCorrect`, `NothingSkipped`, `CursorOnlyAdvances`.
  The invariant adds to completeness that the next block is at most one past the cursor,
  that a range being read starts at most there and lies below what can still change,
  and that the logs in hand cover the canonical blocks of the range.  The last part
  is where the delay is needed: the range is below `latest - Delay` or below
  `finalized`, hence out of reach of a reorganisation and present on every node.
* **MatchListing.**  `WalkIsComplete`, for every writer that keeps to `MatchTable`: what
  the walk has not returned yet of the matches it began with lies past the last id it
  got, because ids and addresses never change (`MatchesStay`).  `ToolIsComplete`: the
  rows selected and not finished are those past the saved id, so a restart continues
  where the tool was.
* **HealthAlerts.**  `AlertTypeCorrect`, `OutageAnnounced`, `AlarmsGetClosed`, for any
  number of channels.  The counter's `failedAt` is the first failure of the outage and
  its `reports` the number of alarms; that an alarm is due at `Threshold + Remind *
  reports` bounds them by the time passed, which is integer arithmetic.

Left to the model checker: liveness (fairness and `ENABLED` are out of the prover's
reach) and, of course, the violations.

## 5. Plan

Done, in this order: the match comparison, the verification job pipeline, the
monitor, the verification inside a worker, the search for the creating transaction
with the fail-over between nodes, the cross-chain endpoint, the transactions on the
shared tables, the listings and the backfill tool, the alerts; then the proofs about the
composition, the worker, the store, the listings and the requests that do not overlap.

Left, in this order:

1. `ContentStore` together with `VerificationJobs`: the comparison with the match that
   is there, and the row of the job in the transaction of a copy.
2. The sources of a metadata file, found by hash or fetched.

### Not modelled

* Compilers: calls of external packages; what they return is an input of
  `BytecodeVerification`.
* Importers (Etherscan, Confluxscan, IPFS, git): requests to other services and
  conversions of their answers; no state is kept.
* Proxy and ERC-5202 detection and the byte strings themselves: pure string decoding.
* `getContracts` and `getPaginatedContractAddresses` of the store: without a caller, and
  refused by MySQL (`MatchListing` above).
* Job and ABI lookup, the look-up of one contract: projections of the columns of rows
  other modules write.
* Logging and its alert hook's filter, configuration, formats of the alert channels: no
  state.
* Assembly of sources from a metadata file: pure matching of hashes and paths, with
  fetches that fail one by one.
* Column types and JSON selectors of the tables.

## 6. Where the repository says something else

| run | claim | what the code does |
|---|---|---|
| `two_match_levels` | `StoreService.ts:444` "there could never be two matches with different MatchLevelWithoutAny inside sourcify_match" | three requests leave a contract with two matches, one full and one partial |
| `alerts_optional` | `README.md:77` "To enable DingTalk or Telegram alerts [..] configure the [..] variables as needed" | without an enabled channel the alert of a step throws, so a step of the monitor whose node answered fails |

More were met while modelling and have no run of their own.  The models contain the
behaviour, and the properties name it where they have to make an exception.

Requests:

* `json.spec.ts:429` expects 429 while a contract is being verified, but two requests can
  both pass the check before either inserts its job, and two overlapping tasks can then
  leave the worse of their results.
* `Dao.ts:118` speaks of "the latest (and better) match", but a cross-chain request
  replaces the match it finds by the copied one, whichever is better (`StoreBase.ts:386`).
* `json.spec.ts:528` expects that an upgrade is stored; when the contract has two
  verified contracts, the unique key may refuse to move the match.
* `WriteRecord` lets the second of two overlapping tasks end with `already_verified`
  although no match exists yet.

The worker:

* `Verification.ts:453` "Try to verify again with Emscripten": `AbstractCompilation.ts:84`
  returns the output it already has, so the second try compares the first compiler's
  output again.

The store:

* `SourcifyDatabaseService.spec.ts:40` expects a conflict when a compilation is verified
  again for the same deployment, but `insertVerifiedContract` updates the row in place.
* A source that another transaction has just inserted is reported as there and then not
  seen (`Dao.ts:766`): the store fails with "Source not found".
* A creation code that another transaction has just inserted is not seen either, and the
  contract is then stored without one (`StoreBase.ts:91`), although the chain gave it.
* An unchanged compilation is looked up without its version (`Dao.ts:779`), so one of
  another version may be taken.

Readers:

* The backfill tool skips a match that commits after one with a larger id; one contract
  that fails stops it at the same place every time it is started; and what it writes is
  computed from a row read before a call of the chain, so a replacement in between is
  overwritten in that column.

The monitor and its alerts:

* A similar match without a creation code sends an alert that nothing catches
  (`StoreBase.ts:351`); with a channel that is not enabled, as in the default
  configuration, it ends the server with its jobs open (`AlertRejects` in `SimilarMatch`,
  `EndUrgent` in `HealthAlerts`).
* `Monitor.ts:51` stops "after executing all the pending requests", but the process exits
  between two writes.
* A refused range of logs counts as a success for the counter.
* A recovery is announced to the first channel that is found, which need not be the one
  that had the alarm, and also when no alarm was due at any look at the counter before.
  An alarm whose message failed is not sent again before the remind interval.
* The log hook fires at exactly the configured level, while `Loader.ts:121` calls it the
  minimum level, and does not use the hook's `async` option.
