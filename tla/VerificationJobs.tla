-------------------------- MODULE VerificationJobs --------------------------
(***************************************************************************)
(* A verification request from the HTTP middlewares to the stored match:   *)
(* routes/api/middlewares.ts, services/verification/VerificationService.ts *)
(* and services/store/StoreService.ts, for the endpoints that compile in   *)
(* the worker pool (JSON input, metadata, Confluxscan).                    *)
(*                                                                         *)
(* Node runs one callback at a time, so everything between two awaits is   *)
(* one step; each database statement (or transaction) is a step of its     *)
(* own, and the steps of different jobs interleave.  The tables are sets   *)
(* of rows.  The process may die between any two steps.                    *)
(***************************************************************************)
EXTENDS MatchStatus

CONSTANTS
  Jobs,            (* requests; a job is named by the request that makes it *)
  Contracts,       (* the (chain id, address) pairs                         *)
  Compilations,    (* the rows of compiled_contracts                        *)
  Verifications,   (* what the workers may export                           *)
  None,
  MaxFailures,     (* bound: statements that fail without effect            *)
  MaxLostReplies,  (* bound: statements that take effect but are reported   *)
                   (* as failed (connection lost after the commit)          *)
  MaxCrashes       (* bound: kills of the process                           *)

\* What the code can store: VerificationStatus values the matching assigns.
StoredStatuses == {"null", "partial", "perfect"}

Exports == [compilation : Compilations,
            creation : StoredStatuses, runtime : StoredStatuses]

\* A row of verified_contracts (its match columns) or of sourcify_matches
\* (joined with the verified contract it points to).
Rows == [contract : Contracts, compilation : Compilations,
         creation : StoredStatuses, runtime : StoredStatuses]

\* Verification.verify() exports only when one of the two sides matched.
ASSUME VerificationsAssumption ==
  Verifications \subseteq {v \in Exports : {v.creation, v.runtime} # {"null"}}

ASSUME NoneAssumption ==
  /\ None \notin Contracts /\ None \notin Compilations
  /\ None \notin Exports /\ None \notin Rows /\ None # "internal_error"
  /\ None # "already_verified" /\ None # "verify_error"

ASSUME BoundsAssumption ==
  /\ MaxFailures \in Nat /\ MaxLostReplies \in Nat /\ MaxCrashes \in Nat

VARIABLES
  phase,           (* of the process: up, closing, draining, down           *)
  pc,              (* the step each request is at                           *)
  contract,        (* the contract it names                                 *)
  openJobs,        (* the middleware's list of uncompleted jobs             *)
  result,          (* the worker's export, while the task holds it          *)
  oldRecord,       (* compilation of the existing verified contract read    *)
  error,           (* the error the task is about to write                  *)
  runningTaskIds,  (* VerificationService.runningTaskIds                    *)
  jobRow,          (* verification_jobs: none, open, success or error code  *)
  jobRecord,       (* verification_jobs.verified_contract_id                *)
  ephemeral,       (* ids in verification_jobs_ephemeral                    *)
  records,         (* verified_contracts                                    *)
  matches,         (* sourcify_matches                                      *)
  failures, lostReplies, crashes

locals  == <<contract, openJobs, result, oldRecord, error>>
jobRows == <<jobRow, jobRecord, ephemeral>>
tables  == <<records, matches>>
budgets == <<failures, lostReplies, crashes>>
vars == <<phase, pc, locals, runningTaskIds, jobRows, tables, budgets>>

RequestSteps == {"checkVerified", "listJobs", "checkRunning", "insertJob", "start"}
StoreSteps   == {"checkMatch", "readRecord", "writeRecord", "updateMatch",
                 "insertMatch", "completeJob"}
ErrorSteps   == {"setError", "addEphemeral"}
TaskSteps    == {"compile", "settle"} \cup StoreSteps \cup ErrorSteps
ActiveSteps  == RequestSteps \cup TaskSteps
FinalSteps   == {"new", "rejected", "done", "lost"}
ErrorCodes   == {"verify_error", "already_verified", "internal_error"}

Init ==
  /\ phase = "up"
  /\ pc = [j \in Jobs |-> "new"]
  /\ contract = [j \in Jobs |-> None]
  /\ openJobs = [j \in Jobs |-> {}]
  /\ result = [j \in Jobs |-> None]
  /\ oldRecord = [j \in Jobs |-> None]
  /\ error = [j \in Jobs |-> None]
  /\ runningTaskIds = {}
  /\ jobRow = [j \in Jobs |-> "none"]
  /\ jobRecord = [j \in Jobs |-> None]
  /\ ephemeral = {}
  /\ records = {}
  /\ matches = {}
  /\ failures = 0 /\ lostReplies = 0 /\ crashes = 0

-----------------------------------------------------------------------------
(* Helpers *)

Goto(j, from, to) == pc[j] = from /\ pc' = [pc EXCEPT ![j] = to]

RowsOf(table, c) == {row \in table : row.contract = c}

\* records[0] of a SELECT that has no ORDER BY: any row, nothing if none.
FirstRow(rows) == IF rows = {} THEN {None} ELSE rows

\* The row of contract c and compilation k; at most one, by the unique keys.
RowOf(table, c, k) == {row \in RowsOf(table, c) : row.compilation = k}

ResultRow(j) == [contract |-> contract[j], compilation |-> result[j].compilation,
                 creation |-> result[j].creation, runtime |-> result[j].runtime]

Active(j) == pc[j] \in ActiveSteps

-----------------------------------------------------------------------------
(* The request: the middlewares and the verify...ViaWorker functions *)

\* A request passes the validating middlewares; a closing server takes none.
Submit(j, c) ==
  /\ phase = "up"
  /\ Goto(j, "new", "checkVerified")
  /\ contract' = [contract EXCEPT ![j] = c]
  /\ UNCHANGED <<phase, openJobs, result, oldRecord, error, runningTaskIds,
                 jobRows, tables, budgets>>

CheckIfAlreadyVerified(j) ==
  /\ \E row \in FirstRow(RowsOf(matches, contract[j])) :
       Goto(j, "checkVerified",
            IF row # None /\ IsFullyVerified(row) THEN "rejected" ELSE "listJobs")
  /\ UNCHANGED <<phase, locals, runningTaskIds, jobRows, tables, budgets>>

\* checkIfJobIsAlreadyRunning, the SELECT.
ListJobs(j) ==
  /\ Goto(j, "listJobs", "checkRunning")
  /\ openJobs' = [openJobs EXCEPT ![j] =
       {k \in Jobs : contract[k] = contract[j] /\ jobRow[k] = "open"}]
  /\ UNCHANGED <<phase, contract, result, oldRecord, error, runningTaskIds,
                 jobRows, tables, budgets>>

\* Wrong variant: any open row of the contract counts, running or not.
RejectIfOpenRow(j) ==
  /\ Goto(j, "checkRunning", IF openJobs[j] # {} THEN "rejected" ELSE "insertJob")
  /\ openJobs' = [openJobs EXCEPT ![j] = {}]
  /\ UNCHANGED <<phase, contract, result, oldRecord, error, runningTaskIds,
                 jobRows, tables, budgets>>

\* checkIfJobIsAlreadyRunning, after the await: the rows read then are
\* compared with the tasks running now.  The list dies with the function.
CheckIfJobIsAlreadyRunning(j) ==
  /\ Goto(j, "checkRunning",
          IF openJobs[j] \cap runningTaskIds # {} THEN "rejected" ELSE "insertJob")
  /\ openJobs' = [openJobs EXCEPT ![j] = {}]
  /\ UNCHANGED <<phase, contract, result, oldRecord, error, runningTaskIds,
                 jobRows, tables, budgets>>

StoreVerificationJob(j) ==
  /\ Goto(j, "insertJob", "start")
  /\ jobRow' = [jobRow EXCEPT ![j] = "open"]
  /\ UNCHANGED <<phase, locals, runningTaskIds, jobRecord, ephemeral, tables,
                 budgets>>

\* The continuation of the insert: the task is handed to the pool, the id
\* becomes visible to isRunning, and the client gets its 202.
RunInBackground(j) ==
  /\ Goto(j, "start", "compile")
  /\ runningTaskIds' = runningTaskIds \cup {j}
  /\ UNCHANGED <<phase, locals, jobRows, tables, budgets>>

-----------------------------------------------------------------------------
(* The background task: verifyViaWorker and storeVerification *)

\* Wrong variant: the error is swallowed and the task just ends.
Swallow(j, from, code) ==
  /\ Goto(j, from, "settle")
  /\ result' = [result EXCEPT ![j] = None]
  /\ oldRecord' = [oldRecord EXCEPT ![j] = None]
  /\ UNCHANGED <<contract, openJobs, error>>

\* The catch of verifyViaWorker: the export dies, the error is to be written.
Raise(j, from, code) ==
  /\ Goto(j, from, "setError")
  /\ error' = [error EXCEPT ![j] = code]
  /\ result' = [result EXCEPT ![j] = None]
  /\ oldRecord' = [oldRecord EXCEPT ![j] = None]
  /\ UNCHANGED <<contract, openJobs>>

WorkerExports(j) ==
  /\ Goto(j, "compile", "checkMatch")
  /\ \E v \in Verifications : result' = [result EXCEPT ![j] = v]
  /\ UNCHANGED <<phase, contract, openJobs, oldRecord, error, runningTaskIds,
                 jobRows, tables, budgets>>

\* The worker exports an error, the constructor arguments do not fit, or the
\* worker itself breaks.
WorkerFails(j) ==
  /\ \E code \in {"verify_error", "internal_error"} : Raise(j, "compile", code)
  /\ UNCHANGED <<phase, runningTaskIds, jobRows, tables, budgets>>

\* Wrong variant: the store does not compare with the existing match.
SkipMatchCheck(j) ==
  /\ Goto(j, "checkMatch", "readRecord")
  /\ UNCHANGED <<phase, locals, runningTaskIds, jobRows, tables, budgets>>

\* storeVerification: the existing match decides whether to go on.
CheckMatch(j) ==
  /\ pc[j] = "checkMatch"
  /\ \E row \in FirstRow(RowsOf(matches, contract[j])) :
       IF row # None /\ ~ IsBetterVerification(result[j], row)
       THEN Raise(j, "checkMatch", "already_verified")
       ELSE Goto(j, "checkMatch", "readRecord") /\ UNCHANGED locals
  /\ UNCHANGED <<phase, runningTaskIds, jobRows, tables, budgets>>

\* insertOrUpdateVerification: is there a verified contract already?
ReadRecord(j) ==
  /\ Goto(j, "readRecord", "writeRecord")
  /\ \E row \in FirstRow(RowsOf(records, contract[j])) :
       oldRecord' = [oldRecord EXCEPT ![j] =
                       IF row = None THEN None ELSE row.compilation]
  /\ UNCHANGED <<phase, contract, openJobs, result, error, runningTaskIds,
                 jobRows, tables, budgets>>

\* Wrong variant: the new verified contract replaces all of the deployment.
RecordReplacesAll(j) ==
  /\ records' = (records \ RowsOf(records, contract[j])) \cup {ResultRow(j)}
  /\ UNCHANGED matches

\* insertVerifiedContract: INSERT ... ON DUPLICATE KEY UPDATE.
RecordWritten(j) ==
  /\ records' = (records \ RowOf(records, contract[j], result[j].compilation))
                  \cup {ResultRow(j)}
  /\ UNCHANGED matches

\* insertNewVerifiedContract and updateExistingVerifiedContract: the same
\* transaction.  When the row already holds these values MySQL may report no
\* changed row (updatedAt has a resolution of one second): ConflictError.
WriteRecord(j) ==
  /\ \/ /\ Goto(j, "writeRecord",
                IF oldRecord[j] = None THEN "insertMatch" ELSE "updateMatch")
        /\ RecordWritten(j)
        /\ UNCHANGED locals
     \/ /\ Raise(j, "writeRecord", "already_verified")
        /\ ResultRow(j) \in records
        /\ UNCHANGED tables
  /\ UNCHANGED <<phase, runningTaskIds, jobRows, budgets>>

\* The rows UPDATE sourcify_matches ... WHERE verified_contract_id = old hits.
MatchToUpdate(j) == RowOf(matches, contract[j], oldRecord[j])

\* The unique key on verified_contract_id refuses the new value.
MatchKeyTaken(j) == RowOf(matches, contract[j], result[j].compilation) # {}

UpdateRefused(j) == /\ MatchToUpdate(j) # {}
                    /\ oldRecord[j] # result[j].compilation
                    /\ MatchKeyTaken(j)

\* Wrong variant: the replaced match is deleted first, in a statement of its own.
MatchDeleted(j) ==
  /\ MatchToUpdate(j) # {}
  /\ matches' = matches \ MatchToUpdate(j)
  /\ UNCHANGED records

MatchMoved(j) ==
  /\ MatchToUpdate(j) # {} /\ ~ UpdateRefused(j)
  /\ matches' = (matches \ MatchToUpdate(j)) \cup {ResultRow(j)}
  /\ UNCHANGED records

\* Wrong variant: the number of updated rows is not looked at.
TrustUpdate(j) ==
  /\ Goto(j, "updateMatch", "completeJob")
  /\ MatchMoved(j) \/ (MatchToUpdate(j) = {} /\ UNCHANGED tables)
  /\ UNCHANGED <<phase, locals, runningTaskIds, jobRows, budgets>>

\* No row matched, or the row matched but held these values already: either
\* way effectRows is 0 and the code goes on to insert.
UpdateMatch(j) ==
  /\ \/ Goto(j, "updateMatch", "completeJob") /\ MatchMoved(j) /\ UNCHANGED locals
     \/ /\ Goto(j, "updateMatch", "insertMatch")
        /\ MatchToUpdate(j) \subseteq {ResultRow(j)}
        /\ UNCHANGED <<locals, tables>>
     \/ /\ Raise(j, "updateMatch", "internal_error")
        /\ UpdateRefused(j)
        /\ UNCHANGED tables
  /\ UNCHANGED <<phase, runningTaskIds, jobRows, budgets>>

MatchInserted(j) ==
  /\ ~ MatchKeyTaken(j)
  /\ matches' = matches \cup {ResultRow(j)}
  /\ UNCHANGED records

InsertMatch(j) ==
  /\ \/ Goto(j, "insertMatch", "completeJob") /\ MatchInserted(j) /\ UNCHANGED locals
     \/ /\ Raise(j, "insertMatch", "internal_error")
        /\ MatchKeyTaken(j)
        /\ UNCHANGED tables
  /\ UNCHANGED <<phase, runningTaskIds, jobRows, budgets>>

\* Wrong variant: the whole export goes where its compilation belongs.
JobSucceededWithExport(j) ==
  /\ jobRow' = [jobRow EXCEPT ![j] = "success"]
  /\ jobRecord' = [jobRecord EXCEPT ![j] = result[j]]
  /\ UNCHANGED ephemeral

\* updateVerificationJob of a success.
JobSucceeded(j) ==
  /\ jobRow' = [jobRow EXCEPT ![j] = "success"]
  /\ jobRecord' = [jobRecord EXCEPT ![j] = result[j].compilation]
  /\ UNCHANGED ephemeral

CompleteJob(j) ==
  /\ Goto(j, "completeJob", "settle")
  /\ JobSucceeded(j)
  /\ result' = [result EXCEPT ![j] = None]
  /\ oldRecord' = [oldRecord EXCEPT ![j] = None]
  /\ UNCHANGED <<phase, contract, openJobs, error, runningTaskIds, tables, budgets>>

\* Wrong variant: the details are written before the error.
WriteDetailsFirst(j) ==
  /\ Goto(j, "setError", "addEphemeral")
  /\ ephemeral' = ephemeral \cup {j}
  /\ UNCHANGED <<phase, locals, runningTaskIds, jobRow, jobRecord, tables, budgets>>

\* setJobError is two statements and no transaction.
SetJobError(j) ==
  /\ Goto(j, "setError", "addEphemeral")
  /\ jobRow' = [jobRow EXCEPT ![j] = error[j]]
  /\ jobRecord' = [jobRecord EXCEPT ![j] = None]
  /\ error' = [error EXCEPT ![j] = None]
  /\ UNCHANGED <<phase, contract, openJobs, result, oldRecord, runningTaskIds,
                 ephemeral, tables, budgets>>

InsertEphemeral(j) ==
  /\ Goto(j, "addEphemeral", "settle")
  /\ ephemeral' = ephemeral \cup {j}
  /\ UNCHANGED <<phase, locals, runningTaskIds, jobRow, jobRecord, tables, budgets>>

\* The finally of runInBackground.
Settle(j) ==
  /\ Goto(j, "settle", "done")
  /\ runningTaskIds' = runningTaskIds \ {j}
  /\ UNCHANGED <<phase, locals, jobRows, tables, budgets>>

-----------------------------------------------------------------------------
(* Failing statements *)

\* A statement of the task fails and left no effect.
StatementFails(j) ==
  /\ failures < MaxFailures
  /\ failures' = failures + 1
  /\ \E step \in StoreSteps : Raise(j, step, "internal_error")
  /\ UNCHANGED <<phase, runningTaskIds, jobRows, tables, lostReplies, crashes>>

\* A statement of the request fails: the client gets an error, no job starts.
RequestFails(j) ==
  /\ failures < MaxFailures
  /\ failures' = failures + 1
  /\ \E step \in {"checkVerified", "listJobs", "insertJob"} : Goto(j, step, "rejected")
  /\ UNCHANGED <<phase, locals, runningTaskIds, jobRows, tables, lostReplies, crashes>>

\* A write of the task took effect but is reported as failed.
ReplyLost(j) ==
  /\ lostReplies < MaxLostReplies
  /\ lostReplies' = lostReplies + 1
  /\ \/ Raise(j, "writeRecord", "internal_error") /\ RecordWritten(j) /\ UNCHANGED jobRows
     \/ Raise(j, "updateMatch", "internal_error") /\ MatchMoved(j) /\ UNCHANGED jobRows
     \/ Raise(j, "insertMatch", "internal_error") /\ MatchInserted(j) /\ UNCHANGED jobRows
     \/ Raise(j, "completeJob", "internal_error") /\ JobSucceeded(j) /\ UNCHANGED tables
  /\ UNCHANGED <<phase, runningTaskIds, failures, crashes>>

\* The insert of the job took effect but is reported as failed: an open row
\* that no task will ever complete.
InsertReplyLost(j) ==
  /\ lostReplies < MaxLostReplies
  /\ lostReplies' = lostReplies + 1
  /\ Goto(j, "insertJob", "rejected")
  /\ jobRow' = [jobRow EXCEPT ![j] = "open"]
  /\ UNCHANGED <<phase, locals, runningTaskIds, jobRecord, ephemeral, tables,
                 failures, crashes>>

-----------------------------------------------------------------------------
(* The process *)

\* Everything in memory is gone; the tables stay.
ProcessDies ==
  /\ phase' = "down"
  /\ pc' = [j \in Jobs |-> IF Active(j) THEN "lost" ELSE pc[j]]
  /\ openJobs' = [j \in Jobs |-> {}]
  /\ result' = [j \in Jobs |-> None]
  /\ oldRecord' = [j \in Jobs |-> None]
  /\ error' = [j \in Jobs |-> None]
  /\ runningTaskIds' = {}
  /\ UNCHANGED <<contract, jobRows, tables>>

Crash ==
  /\ phase # "down"
  /\ crashes < MaxCrashes
  /\ crashes' = crashes + 1
  /\ ProcessDies
  /\ UNCHANGED <<failures, lostReplies>>

\* setJobError is awaited by nobody but the task itself: when one of its
\* statements fails the promise rejects unhandled, which ends the process.
BookkeepingFails(j) ==
  /\ pc[j] \in ErrorSteps
  /\ failures < MaxFailures
  /\ failures' = failures + 1
  /\ ProcessDies
  /\ UNCHANGED <<lostReplies, crashes>>

Restart ==
  /\ phase = "down"
  /\ phase' = "up"
  /\ UNCHANGED <<pc, locals, runningTaskIds, jobRows, tables, budgets>>

\* SIGTERM: the HTTP server takes no new request.
Shutdown ==
  /\ phase = "up"
  /\ phase' = "closing"
  /\ UNCHANGED <<pc, locals, runningTaskIds, jobRows, tables, budgets>>

\* Wrong variant: the pool is left to finish what it compiles.
WaitForPool ==
  /\ phase = "closing"
  /\ \A j \in Jobs : pc[j] \notin RequestSteps
  /\ phase' = "draining"
  /\ UNCHANGED <<pc, locals, runningTaskIds, jobRows, tables, budgets>>

\* The open requests have ended; workerPool.destroy() rejects what compiles.
DestroyPool ==
  /\ phase = "closing"
  /\ \A j \in Jobs : pc[j] \notin RequestSteps
  /\ phase' = "draining"
  /\ pc' = [j \in Jobs |-> IF pc[j] = "compile" THEN "setError" ELSE pc[j]]
  /\ error' = [j \in Jobs |-> IF pc[j] = "compile" THEN "internal_error" ELSE error[j]]
  /\ UNCHANGED <<contract, openJobs, result, oldRecord, runningTaskIds, jobRows,
                 tables, budgets>>

\* Wrong variant: the running tasks are not waited for.
ExitAtOnce ==
  /\ phase = "draining"
  /\ ProcessDies
  /\ UNCHANGED budgets

\* Promise.all(runningTasks) has resolved: process.exit(0).
Exit ==
  /\ phase = "draining"
  /\ \A j \in Jobs : pc[j] \notin TaskSteps
  /\ phase' = "down"
  /\ UNCHANGED <<pc, locals, runningTaskIds, jobRows, tables, budgets>>

-----------------------------------------------------------------------------
RequestStep(j) ==
  \/ CheckIfAlreadyVerified(j)
  \/ ListJobs(j)
  \/ CheckIfJobIsAlreadyRunning(j)
  \/ StoreVerificationJob(j)
  \/ RunInBackground(j)

WorkerReturns(j) == WorkerExports(j) \/ WorkerFails(j)

TaskStep(j) ==
  \/ CheckMatch(j)
  \/ ReadRecord(j)
  \/ WriteRecord(j)
  \/ UpdateMatch(j)
  \/ InsertMatch(j)
  \/ CompleteJob(j)
  \/ SetJobError(j)
  \/ InsertEphemeral(j)
  \/ Settle(j)

StatementTrouble(j) ==
  \/ StatementFails(j)
  \/ RequestFails(j)
  \/ ReplyLost(j)
  \/ InsertReplyLost(j)
  \/ BookkeepingFails(j)

ProcessStep == Crash \/ Restart \/ Shutdown \/ DestroyPool \/ Exit

Next ==
  \/ \E j \in Jobs :
       \/ \E c \in Contracts : Submit(j, c)
       \/ RequestStep(j)
       \/ WorkerReturns(j)
       \/ TaskStep(j)
       \/ StatementTrouble(j)
  \/ ProcessStep

Spec == Init /\ [][Next]_vars

\* Callbacks and statements come back, and a signalled process keeps closing.
\* Nothing makes a compiler return: the pool has no time limit.
StepFairness ==
  /\ \A j \in Jobs : WF_vars(RequestStep(j)) /\ WF_vars(TaskStep(j))
  /\ WF_vars(DestroyPool) /\ WF_vars(Exit)

FairSpec == Spec /\ StepFairness

\* Requests for one contract that never overlap: what the middleware
\* checkIfJobIsAlreadyRunning aims at.
OneAtATime == \A j, k \in Jobs :
  j # k /\ contract[j] = contract[k] => ~ (Active(j) /\ Active(k))

SerialNext == Next /\ OneAtATime'

SerialSpec == Init /\ [][SerialNext]_vars

-----------------------------------------------------------------------------
(* What the module is checked for *)

JobStates == {"none", "open", "success"} \cup ErrorCodes

TypeOK ==
  /\ phase \in {"up", "closing", "draining", "down"}
  /\ pc \in [Jobs -> ActiveSteps \cup FinalSteps]
  /\ contract \in [Jobs -> Contracts \cup {None}]
  /\ openJobs \in [Jobs -> SUBSET Jobs]
  /\ result \in [Jobs -> Verifications \cup {None}]
  /\ oldRecord \in [Jobs -> Compilations \cup {None}]
  /\ error \in [Jobs -> ErrorCodes \cup {None}]
  /\ runningTaskIds \in SUBSET Jobs
  /\ jobRow \in [Jobs -> JobStates]
  /\ jobRecord \in [Jobs -> Compilations \cup {None}]
  /\ ephemeral \in SUBSET Jobs
  /\ records \in SUBSET Rows
  /\ matches \in SUBSET Rows
  /\ failures \in 0..MaxFailures
  /\ lostReplies \in 0..MaxLostReplies
  /\ crashes \in 0..MaxCrashes

\* A job reported as successful names a verified contract that exists, and the
\* contract has a match to show, however the tasks of other jobs move rows
\* between the steps of this one and whatever fails (StoreService
\* _storeVerification: three tables, no transaction).
SuccessIsBacked ==
  \A j \in Jobs : jobRow[j] = "success" =>
    /\ RowsOf(matches, contract[j]) # {}
    /\ RowOf(records, contract[j], jobRecord[j]) # {}

\* Every match points at a verified contract of the same deployment, so the
\* joins of getSourcifyMatchByChainAddress never lose a match.
MatchesAreRecorded ==
  \A m \in matches : RowOf(records, m.contract, m.compilation) # {}

\* The two reads of a job (verification_jobs and verification_jobs_ephemeral)
\* agree: details of a failure never belong to a job shown open or successful.
DetailsBelongToErrors == \A j \in ephemeral : jobRow[j] \in ErrorCodes

\* A job row stays open for ever only through a fault: as long as no statement
\* failed, no reply was lost and nothing was killed, an open row has a task or
\* is about to get one.  In particular a graceful shutdown leaves none behind,
\* which is what VerificationService.close waits for.
OrphanOnlyByFault ==
  failures + lostReplies + crashes = 0 =>
    \A j \in Jobs : jobRow[j] = "open" => pc[j] \in {"start"} \cup TaskSteps

\* The middleware answers 429 only while a task for the same contract is really
\* there: rows left open by a dead process never block the contract, though
\* the list of rows is old when it is compared (checkIfJobIsAlreadyRunning).
RejectedOnlyWhileRunning ==
  [][\A j \in Jobs : pc[j] = "checkRunning" /\ pc'[j] = "rejected" =>
       \E k \in Jobs : pc[k] \in TaskSteps /\ contract[k] = contract[j]]_vars

\* The ledger a client of the API sees: accepted jobs, their outcomes and the
\* contracts that have a match.
Ledger == INSTANCE VerificationLedger WITH
  subject  <- [j \in Jobs |-> IF jobRow[j] = "none" THEN None ELSE contract[j]],
  outcome  <- jobRow,
  verified <- {m.contract : m \in matches}

\* The tables implement the ledger under every interleaving and every fault.
ImplementsLedger == Ledger!Spec

\* Liveness, whatever the compilers do: a server told to stop stops.
ShutdownCompletes == (phase \in {"closing", "draining"}) ~> (phase = "down")

\* Liveness: a task that has heard from its worker, or lost it to a shutdown,
\* writes an outcome unless the process dies first.  No client polls a job for
\* ever because an error path forgot it.
TaskWritesOutcome ==
  \A j \in Jobs : (pc[j] \in TaskSteps \ {"compile"})
                     ~> (jobRow[j] \notin {"none", "open"} \/ phase = "down")

-----------------------------------------------------------------------------
(* Requests for a contract that do not overlap *)

BestRank(c) == LET ranks == {LevelRank(LevelOf(m)) : m \in RowsOf(matches, c)}
               IN IF 2 \in ranks THEN 2 ELSE IF 1 \in ranks THEN 1 ELSE 0

\* Without overlap and faults the best level shown for a contract never drops,
\* even where a replaced contract keeps two matches (_storeVerification takes
\* the verified contract to replace from another table than the match it
\* compared with).
BestLevelNeverDrops ==
  [][\A c \in Contracts : BestRank(c)' >= BestRank(c)]_vars

-----------------------------------------------------------------------------
(* Claims of the repository that the code does not keep *)

\* StoreService.ts getFile: "there could never be two matches with different
\* MatchLevelWithoutAny inside sourcify_match", which is full or partial as in
\* LevelOf (checked for requests that do not overlap).
OneMatchLevel ==
  \A m1, m2 \in matches :
    m1.contract = m2.contract => LevelOf(m1) = LevelOf(m2)
=============================================================================
