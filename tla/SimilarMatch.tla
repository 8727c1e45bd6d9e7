---------------------------- MODULE SimilarMatch ----------------------------
(***************************************************************************)
(* The cross-chain endpoint beside the others: verifyFromCrossChain looks  *)
(* for a verified contract with the same runtime code and copies its match *)
(* (VerificationService.verifyFromCrossChainViaWorker and                  *)
(* StoreBase.insertNewSimilarContract).                                    *)
(*                                                                         *)
(* A request takes the steps of VerificationJobs up to the insert of its   *)
(* job.  A cross-chain request then goes on inside the HTTP handler: it is *)
(* no running task of the VerificationService, and its base pc stays at    *)
(* "start" until it ends.  All contracts of the model have the same code.  *)
(***************************************************************************)
EXTENDS VerificationJobs, Sequences, Functions

CONSTANT LinkedContracts  (* the contracts linkChainIds may select          *)

ASSUME LinkedAssumption == LinkedContracts \subseteq SUBSET Contracts

VARIABLES
  crossPc,       (* the await the handler is at; idle for other requests    *)
  deployed,      (* contract_deployments, in the order of their ids         *)
  source,        (* contractDeployment: the contract with the same code     *)
  sourceRecord,  (* verifiedContract: one of its verified contracts         *)
  sourceMatch,   (* sourcifyMatch: the match of that                        *)
  hasMatch,      (* oldMatch was found                                      *)
  alerts,        (* alertErrorImmediately is under way for these requests   *)
  alertFailed    (* history: one of them could not be sent to every channel *)

found == <<source, sourceRecord, sourceMatch, hasMatch>>
alerting == <<alerts, alertFailed>>
crossVars == <<vars, crossPc, deployed, found, alerting>>

CrossSteps == {"getBytecode", "readDeployment", "readRecord", "readMatch",
               "transaction", "commit", "setError", "addEphemeral"}

CrossInit ==
  /\ Init
  /\ crossPc = [j \in Jobs |-> "idle"]
  /\ deployed = <<>>
  /\ source = [j \in Jobs |-> None]
  /\ sourceRecord = [j \in Jobs |-> None]
  /\ sourceMatch = [j \in Jobs |-> None]
  /\ hasMatch = [j \in Jobs |-> FALSE]
  /\ alerts = {}
  /\ alertFailed = FALSE

-----------------------------------------------------------------------------
(* Helpers *)

CrossGoto(j, from, to) ==
  /\ pc[j] = "start" /\ crossPc[j] = from
  /\ crossPc' = [crossPc EXCEPT ![j] = to]

Forget(j) ==
  /\ source' = [source EXCEPT ![j] = None]
  /\ sourceRecord' = [sourceRecord EXCEPT ![j] = None]
  /\ sourceMatch' = [sourceMatch EXCEPT ![j] = None]
  /\ hasMatch' = [hasMatch EXCEPT ![j] = FALSE]

\* The handler ends, with an answer or with a rejected promise.
HandlerEnds(j, from, answer) ==
  /\ CrossGoto(j, from, "idle")
  /\ pc' = [pc EXCEPT ![j] = answer]
  /\ error' = [error EXCEPT ![j] = None]
  /\ Forget(j)
  /\ UNCHANGED <<phase, contract, openJobs, result, oldRecord, runningTaskIds>>

\* contract_not_deployed and no_similar_match_found are errors of the client,
\* as those a worker reports.
WriteError(j, from, code) ==
  /\ CrossGoto(j, from, "setError")
  /\ error' = [error EXCEPT ![j] = code]
  /\ Forget(j)
  /\ UNCHANGED <<phase, pc, contract, openJobs, result, oldRecord, runningTaskIds>>

Reads(j, from, to) ==
  /\ CrossGoto(j, from, to)
  /\ UNCHANGED <<vars, deployed>>

\* A statement that adds a deployment gives it the next id.
DeploymentsFollow ==
  deployed' = IF \E row \in records' : row.contract \notin Range(deployed)
              THEN Append(deployed, CHOOSE c \in Contracts :
                     c \notin Range(deployed) /\ RowsOf(records', c) # {})
              ELSE deployed

\* The transaction holds the rows of the deployment until it commits.
Locked(c) == \E k \in Jobs : crossPc[k] = "commit" /\ contract[k] = c

Copy(j) == [sourceRecord[j] EXCEPT !.contract = contract[j]]
CopiedMatch(j) == [sourceMatch[j] EXCEPT !.contract = contract[j]]

-----------------------------------------------------------------------------
(* verifyFromCrossChainViaWorker *)

\* The continuation of the insert, when the request is a cross-chain one.
StartCrossChain(j) == Reads(j, "idle", "getBytecode") /\ UNCHANGED found

\* The code of the contract, its creating transaction and its creation code.
GetBytecode(j) == Reads(j, "getBytecode", "readDeployment") /\ UNCHANGED found

\* Wrong variant: the answer is given without an outcome.
NotDeployedReturns(j) ==
  /\ HandlerEnds(j, "getBytecode", "done")
  /\ UNCHANGED <<jobRows, tables, budgets, deployed>>

NotDeployed(j) ==
  /\ WriteError(j, "getBytecode", "verify_error")
  /\ UNCHANGED <<jobRows, tables, budgets, deployed>>

\* None of these calls is caught: the client gets an error, the job stays open.
ChainFails(j) ==
  /\ failures < MaxFailures /\ failures' = failures + 1
  /\ HandlerEnds(j, "getBytecode", "rejected")
  /\ UNCHANGED <<jobRows, tables, lostReplies, crashes, deployed>>

-----------------------------------------------------------------------------
(* insertNewSimilarContract *)

\* The first deployment of the same code, of any contract or of the linked
\* chains; it may be that of the contract itself.
ReadDeployment(j) ==
  \E linked \in LinkedContracts :
    \/ \E i \in DOMAIN deployed :
         /\ deployed[i] \in linked
         /\ \A k \in DOMAIN deployed : k < i => deployed[k] \notin linked
         /\ Reads(j, "readDeployment", "readRecord")
         /\ source' = [source EXCEPT ![j] = deployed[i]]
         /\ UNCHANGED <<sourceRecord, sourceMatch, hasMatch>>
    \/ /\ Range(deployed) \cap linked = {}
       /\ WriteError(j, "readDeployment", "verify_error")
       /\ UNCHANGED <<jobRows, tables, budgets, deployed>>

\* One of its verified contracts, whichever the table gives first.
ReadSourceRecord(j) ==
  /\ \E row \in RowsOf(records, source[j]) :
       sourceRecord' = [sourceRecord EXCEPT ![j] = row]
  /\ Reads(j, "readRecord", "readMatch")
  /\ UNCHANGED <<source, sourceMatch, hasMatch>>

\* The match of that verified contract: there is none when the match was moved
\* to another verified contract of the deployment, or is not stored yet.  The
\* code before the next await then sends an alert, not awaited, when the chain
\* gave no creation code.
ReadSourceMatch(j) ==
  LET rows == RowOf(matches, source[j], sourceRecord[j].compilation) IN
  /\ crossPc[j] = "readMatch"
  /\ \/ /\ rows # {}
        /\ \E row \in rows : sourceMatch' = [sourceMatch EXCEPT ![j] = row]
        /\ Reads(j, "readMatch", "transaction")
        /\ alerts' \in {alerts, alerts \cup {j}}
        /\ UNCHANGED <<source, sourceRecord, hasMatch, alertFailed>>
     \/ /\ rows = {}
        /\ WriteError(j, "readMatch", "verify_error")
        /\ UNCHANGED <<jobRows, tables, budgets, deployed, alerting>>

\* The deployment and the verified contract are written, the match is looked
\* up; nothing is visible before the commit.
BeginTransaction(j) ==
  /\ crossPc[j] = "transaction" /\ ~Locked(contract[j])
  /\ \/ /\ Reads(j, "transaction", "commit")
        /\ hasMatch' = [hasMatch EXCEPT ![j] =
             RowOf(matches, contract[j], sourceRecord[j].compilation) # {}]
        /\ UNCHANGED <<source, sourceRecord, sourceMatch>>
     \/ /\ Copy(j) \in records      (* no changed row: ConflictError *)
        /\ WriteError(j, "transaction", "internal_error")
        /\ UNCHANGED <<jobRows, tables, budgets, deployed>>

\* Wrong variant: the match is only ever updated.
CopyUpdates(j) ==
  LET old == RowOf(matches, contract[j], sourceRecord[j].compilation) IN
  /\ records' = (records \ RowOf(records, contract[j], sourceRecord[j].compilation))
                  \cup {Copy(j)}
  /\ \/ old # {} /\ matches' = (matches \ old) \cup {CopiedMatch(j)}
     \/ old = {} /\ UNCHANGED matches
  /\ jobRow' = [jobRow EXCEPT ![j] = "success"]
  /\ jobRecord' = [jobRecord EXCEPT ![j] = sourceRecord[j].compilation]
  /\ DeploymentsFollow
  /\ UNCHANGED ephemeral

\* Wrong variant: the match is written, the verified contract is not.
CopyMatchOnly(j) ==
  /\ UNCHANGED <<records, deployed, ephemeral>>
  /\ matches' = matches \cup {CopiedMatch(j)}
  /\ jobRow' = [jobRow EXCEPT ![j] = "success"]
  /\ jobRecord' = [jobRecord EXCEPT ![j] = sourceRecord[j].compilation]

\* updateSourcifyMatch, where the row may have been moved since, or
\* insertSourcifyMatch; the result of the update is not looked at.
CopyStored(j) ==
  LET old == RowOf(matches, contract[j], sourceRecord[j].compilation) IN
  /\ records' = (records \ RowOf(records, contract[j], sourceRecord[j].compilation))
                  \cup {Copy(j)}
  /\ \/ hasMatch[j] /\ old # {} /\ matches' = (matches \ old) \cup {CopiedMatch(j)}
     \/ hasMatch[j] /\ old = {} /\ UNCHANGED matches
     \/ ~hasMatch[j] /\ old = {} /\ matches' = matches \cup {CopiedMatch(j)}
  /\ jobRow' = [jobRow EXCEPT ![j] = "success"]
  /\ jobRecord' = [jobRecord EXCEPT ![j] = sourceRecord[j].compilation]
  /\ DeploymentsFollow
  /\ UNCHANGED ephemeral

Commit(j) ==
  \/ /\ HandlerEnds(j, "commit", "done")
     /\ CopyStored(j)
     /\ UNCHANGED budgets
  \/ /\ crossPc[j] = "commit" /\ ~hasMatch[j]    (* inserted by another since *)
     /\ RowOf(matches, contract[j], sourceRecord[j].compilation) # {}
     /\ WriteError(j, "commit", "internal_error")
     /\ UNCHANGED <<jobRows, tables, budgets, deployed>>

\* The catch of insertNewSimilarContract's caller: setJobError, two statements.
CrossSetError(j) ==
  /\ CrossGoto(j, "setError", "addEphemeral")
  /\ jobRow' = [jobRow EXCEPT ![j] = error[j]]
  /\ jobRecord' = [jobRecord EXCEPT ![j] = None]
  /\ UNCHANGED <<phase, pc, locals, runningTaskIds, ephemeral, tables, budgets,
                 deployed, found>>

CrossInsertEphemeral(j) ==
  /\ HandlerEnds(j, "addEphemeral", "done")
  /\ ephemeral' = ephemeral \cup {j}
  /\ UNCHANGED <<jobRow, jobRecord, tables, budgets, deployed>>

-----------------------------------------------------------------------------
(* Failing statements *)

CrossStatementFails(j) ==
  /\ failures < MaxFailures /\ failures' = failures + 1
  /\ \/ \E step \in {"readDeployment", "readRecord", "readMatch", "transaction", "commit"} :
          WriteError(j, step, "internal_error")
     \/ \E step \in {"setError", "addEphemeral"} : HandlerEnds(j, step, "rejected")
  /\ UNCHANGED <<jobRows, tables, lostReplies, crashes, deployed>>

\* The transaction is committed but reported as failed.
CommitReplyLost(j) ==
  /\ lostReplies < MaxLostReplies /\ lostReplies' = lostReplies + 1
  /\ WriteError(j, "commit", "internal_error")
  /\ CopyStored(j)
  /\ UNCHANGED <<failures, crashes>>

-----------------------------------------------------------------------------
(* The alert about the missing creation code *)

\* The process ends and with it the handlers and what they have not awaited.
HandlersDie ==
  /\ crossPc' = [j \in Jobs |-> "idle"]
  /\ source' = [j \in Jobs |-> None]
  /\ sourceRecord' = [j \in Jobs |-> None]
  /\ sourceMatch' = [j \in Jobs |-> None]
  /\ hasMatch' = [j \in Jobs |-> FALSE]
  /\ alerts' = {}
  /\ UNCHANGED deployed

\* Every configured channel took it.
AlertSent(j) ==
  /\ j \in alerts /\ alerts' = alerts \ {j}
  /\ UNCHANGED <<vars, crossPc, deployed, found, alertFailed>>

\* A channel refuses it, or is configured and not enabled: nothing handles the
\* rejection and it ends the process.
AlertRejects(j) ==
  /\ j \in alerts
  /\ alertFailed' = TRUE
  /\ ProcessDies /\ HandlersDie
  /\ UNCHANGED budgets

-----------------------------------------------------------------------------
(* Composition with the other endpoints *)

CrossChainStep(j) ==
  \/ /\ \/ GetBytecode(j) \/ NotDeployed(j)
        \/ ReadDeployment(j) \/ ReadSourceRecord(j)
        \/ BeginTransaction(j) \/ Commit(j)
        \/ CrossSetError(j) \/ CrossInsertEphemeral(j)
     /\ UNCHANGED alerting
  \/ ReadSourceMatch(j)

CrossTrouble(j) ==
  /\ ChainFails(j) \/ CrossStatementFails(j) \/ CommitReplyLost(j)
  /\ UNCHANGED alerting

\* A step of another request or its task, which waits for a transaction on
\* the same deployment.
Beside(j, Step) ==
  /\ crossPc[j] = "idle"
  /\ pc[j] = "writeRecord" => ~Locked(contract[j])
  /\ Step
  /\ DeploymentsFollow
  /\ UNCHANGED <<crossPc, found, alerting>>

Exits == /\ Exit /\ alerts' = {}
         /\ UNCHANGED <<crossPc, deployed, found, alertFailed>>

CrossNext ==
  \/ \E j \in Jobs :
       \/ \E c \in Contracts : Beside(j, Submit(j, c))
       \/ Beside(j, RequestStep(j))
       \/ Beside(j, WorkerReturns(j))
       \/ Beside(j, TaskStep(j))
       \/ Beside(j, StatementFails(j) \/ RequestFails(j) \/ ReplyLost(j) \/ InsertReplyLost(j))
       \/ BookkeepingFails(j) /\ HandlersDie /\ UNCHANGED alertFailed
       \/ StartCrossChain(j) /\ UNCHANGED alerting
       \/ CrossChainStep(j) \/ CrossTrouble(j)
       \/ AlertSent(j) \/ AlertRejects(j)
  \/ Crash /\ HandlersDie /\ UNCHANGED alertFailed
  \/ (Restart \/ Shutdown \/ DestroyPool) /\ UNCHANGED <<crossPc, deployed, found, alerting>>
  \/ Exits

CrossSpec == CrossInit /\ [][CrossNext]_crossVars

\* As in VerificationJobs; the calls of the chain return or fail.
CrossFairSpec ==
  /\ CrossSpec
  /\ \A j \in Jobs : /\ WF_crossVars(Beside(j, RequestStep(j)))
                     /\ WF_crossVars(Beside(j, TaskStep(j)))
                     /\ WF_crossVars(CrossChainStep(j))
  /\ WF_crossVars(DestroyPool /\ UNCHANGED <<crossPc, deployed, found, alerting>>)
  /\ WF_crossVars(Exits)

\* Requests for one contract that do not overlap.
CrossSerialSpec == CrossInit /\ [][CrossNext /\ OneAtATime']_crossVars

-----------------------------------------------------------------------------
(* Properties *)

\* Type invariant.
CrossTypeOK ==
  /\ TypeOK
  /\ crossPc \in [Jobs -> CrossSteps \cup {"idle"}]
  /\ \A j \in Jobs : crossPc[j] # "idle" => pc[j] = "start"
  /\ deployed \in Seq(Contracts)
  /\ source \in [Jobs -> Contracts \cup {None}]
  /\ sourceRecord \in [Jobs -> Rows \cup {None}]
  /\ sourceMatch \in [Jobs -> Rows \cup {None}]
  /\ hasMatch \in [Jobs -> BOOLEAN]
  /\ alerts \subseteq Jobs
  /\ alertFailed \in BOOLEAN

\* A job row stays open for ever only through a fault, a cross-chain one also
\* through the alert its handler sends and does not await: as long as nothing
\* failed, was lost or killed and every alert reached its channels, an open row
\* has a task or a handler, or is about to get one.  A graceful shutdown in
\* particular leaves none behind.
CrossOrphanOnlyByFault == ~ alertFailed => OrphanOnlyByFault

\* Liveness: a cross-chain request gets its outcome unless the process dies or
\* something fails.
CrossChainEnds ==
  \A j \in Jobs : (crossPc[j] # "idle")
                    ~> (jobRow[j] # "open" \/ phase = "down" \/ failures > 0)
=============================================================================
