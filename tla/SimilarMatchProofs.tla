------------------------- MODULE SimilarMatchProofs -------------------------
(***************************************************************************)
(* The theorems of VerificationJobs again, for the cross-chain requests    *)
(* beside the others: for every set of jobs, contracts, compilations,      *)
(* exports and linked chains and every number of faults.                   *)
(***************************************************************************)
EXTENDS SimilarMatch, VerificationJobsProofs

-----------------------------------------------------------------------------
(* The inductive invariant *)

\* What the await a handler is at says about its memory, its job and the tables.
AtStep(j) ==
  /\ crossPc[j] \in {"getBytecode", "readDeployment", "readRecord", "readMatch",
                     "transaction", "commit"} => jobRow[j] = "open"
  /\ crossPc[j] \in {"readRecord", "readMatch", "transaction", "commit"} =>
       source[j] \in Contracts
  /\ crossPc[j] \in {"readMatch", "transaction", "commit"} => sourceRecord[j] \in Rows
  /\ crossPc[j] \in {"transaction", "commit"} =>
       /\ sourceMatch[j] \in Rows
       /\ sourceMatch[j].compilation = sourceRecord[j].compilation
  /\ crossPc[j] = "commit" /\ hasMatch[j] => RowsOf(matches, contract[j]) # {}
  /\ crossPc[j] = "setError" =>
       /\ error[j] \in ErrorCodes
       /\ jobRow[j] = "open" \/ (jobRow[j] = "success" /\ error[j] = "internal_error")
  /\ crossPc[j] = "addEphemeral" => jobRow[j] \in ErrorCodes
  /\ pc[j] = "start" /\ crossPc[j] = "idle" => jobRow[j] = "open"

HandlerType ==
  /\ crossPc \in [Jobs -> CrossSteps \cup {"idle"}]
  /\ \A j \in Jobs : crossPc[j] # "idle" => pc[j] = "start"
  /\ deployed \in Seq(Contracts)
  /\ source \in [Jobs -> Contracts \cup {None}]
  /\ sourceRecord \in [Jobs -> Rows \cup {None}]
  /\ sourceMatch \in [Jobs -> Rows \cup {None}]
  /\ hasMatch \in [Jobs -> BOOLEAN]

HandlerInv == HandlerType /\ \A j \in Jobs : AtStep(j)

CrossInv == CoreInv /\ HandlerInv

LEMMA CrossInvInit == CrossInit => CrossInv
<1> SUFFICES ASSUME CrossInit PROVE CrossInv
  OBVIOUS
<1>1. CoreInv
  BY InvInit DEF CrossInit, Inv
<1>2. HandlerType
  BY DEF CrossInit, HandlerType
<1>3. ASSUME NEW j \in Jobs PROVE AtStep(j)
  BY DEF CrossInit, Init, AtStep
<1> QED
  BY <1>1, <1>2, <1>3 DEF CrossInv, HandlerInv

-----------------------------------------------------------------------------
(* Steps of the other endpoints and of the process *)

\* The handlers of cross-chain requests do not notice the step.
Unnoticed ==
  /\ UNCHANGED <<crossPc, found>>
  /\ deployed' = deployed \/ DeploymentsFollow
  /\ \A k \in Jobs : crossPc[k] # "idle" => pc'[k] = pc[k]

\* A step of VerificationJobs seen from SimilarMatch.
BaseStep == /\ [Next]_vars
            /\ StartsWell
            /\ Unnoticed \/ (HandlersDie /\ \A k \in Jobs : pc'[k] # "start")

LEMMA BesideStep ==
  ASSUME CrossInv, NEW j \in Jobs,
         \/ \E c \in Contracts : Beside(j, Submit(j, c))
         \/ Beside(j, RequestStep(j))
         \/ Beside(j, WorkerReturns(j))
         \/ Beside(j, TaskStep(j))
         \/ Beside(j, StatementFails(j) \/ RequestFails(j) \/ ReplyLost(j) \/ InsertReplyLost(j))
  PROVE  BaseStep
<1>1. /\ [Next]_vars
      /\ crossPc[j] = "idle" /\ DeploymentsFollow /\ UNCHANGED <<crossPc, found>>
  BY DEF Beside, Next, StatementTrouble
<1>2. \E step : pc' = [pc EXCEPT ![j] = step]
  <2>1. ASSUME NEW c \in Contracts, Submit(j, c) PROVE \E step : pc' = [pc EXCEPT ![j] = step]
    BY <2>1 DEF Submit, Goto
  <2>2. CASE RequestStep(j)
    BY <2>2 DEF RequestStep, CheckIfAlreadyVerified, ListJobs,
       CheckIfJobIsAlreadyRunning, StoreVerificationJob, RunInBackground, Goto
  <2>3. CASE WorkerReturns(j)
    BY <2>3 DEF WorkerReturns, WorkerExports, WorkerFails, Goto, Raise
  <2>4. CASE TaskStep(j)
    BY <2>4 DEF TaskStep, CheckMatch, ReadRecord, WriteRecord, UpdateMatch,
       InsertMatch, CompleteJob, SetJobError, InsertEphemeral, Settle, Goto, Raise
  <2>5. CASE StatementFails(j) \/ RequestFails(j) \/ ReplyLost(j) \/ InsertReplyLost(j)
    BY <2>5 DEF StatementFails, RequestFails, ReplyLost, InsertReplyLost, Goto, Raise
  <2> QED
    BY <2>1, <2>2, <2>3, <2>4, <2>5 DEF Beside
<1>3. \A k \in Jobs : k # j => pc'[k] = pc[k]
  BY <1>2 DEF CrossInv, CoreInv, TypeInv, TypeOK
<1>4. Unnoticed
  BY <1>1, <1>3 DEF Unnoticed
<1>5. StartsWell
  BY <1>1, <1>3 DEF StartsWell, CrossInv, HandlerInv, AtStep
<1> QED
  BY <1>1, <1>4, <1>5 DEF BaseStep

LEMMA DeathStep ==
  ASSUME CrossInv,
         \/ \E j \in Jobs : BookkeepingFails(j) /\ HandlersDie
         \/ Crash /\ HandlersDie
  PROVE  BaseStep
<1>1. [Next]_vars /\ HandlersDie /\ ProcessDies
  BY DEF Next, StatementTrouble, ProcessStep, BookkeepingFails, Crash
<1>2. \A k \in Jobs : pc'[k] # "start" /\ ~ (pc[k] = "start" /\ pc'[k] = "compile")
  BY <1>1 DEF ProcessDies, Active, ActiveSteps, RequestSteps
<1> QED
  BY <1>1, <1>2 DEF BaseStep, StartsWell

LEMMA ServerStep ==
  ASSUME CrossInv, Restart \/ Shutdown \/ DestroyPool \/ Exit,
         UNCHANGED <<crossPc, deployed, found>>
  PROVE  BaseStep
<1>1. [Next]_vars
  BY DEF Next, ProcessStep
<1>2. \A k \in Jobs : pc[k] = "start" => pc'[k] = pc[k]
  BY DEF Restart, Shutdown, DestroyPool, Exit
<1>3. StartsWell
  BY <1>2 DEF StartsWell
<1>4. Unnoticed
  BY <1>2 DEF Unnoticed, CrossInv, HandlerInv, HandlerType
<1> QED
  BY <1>1, <1>3, <1>4 DEF BaseStep

\* An alert that was sent leaves the rest alone.
LEMMA SentStep ==
  ASSUME NEW j \in Jobs, AlertSent(j) PROVE BaseStep
<1>1. UNCHANGED <<vars, crossPc, deployed, found>>
  BY DEF AlertSent
<1> QED
  BY <1>1 DEF BaseStep, Unnoticed, StartsWell, vars

LEMMA DeployedSeq ==
  ASSUME HandlerType, records' \in SUBSET Rows, DeploymentsFollow
  PROVE  deployed' \in Seq(Contracts)
<1>1. CASE \E row \in records' : row.contract \notin Range(deployed)
  <2>1. PICK row \in records' : row.contract \notin Range(deployed)
    BY <1>1
  <2>2. row.contract \in Contracts
    BY <2>1 DEF Rows
  <2>3. row \in RowsOf(records', row.contract)
    BY <2>1 DEF RowsOf
  <2>4. \E c \in Contracts : c \notin Range(deployed) /\ RowsOf(records', c) # {}
    BY <2>1, <2>2, <2>3
  <2>5. (CHOOSE c \in Contracts : c \notin Range(deployed) /\ RowsOf(records', c) # {})
          \in Contracts
    BY <2>4
  <2> QED
    BY <1>1, <2>5 DEF DeploymentsFollow, HandlerType
<1>2. CASE ~ \E row \in records' : row.contract \notin Range(deployed)
  BY <1>2 DEF DeploymentsFollow, HandlerType
<1> QED
  BY <1>1, <1>2

LEMMA BaseStepInv ==
  ASSUME CrossInv, BaseStep PROVE CrossInv'
<1>1. CoreInv'
  BY CoreInvNext DEF CrossInv, BaseStep
<1>2. HandlerType'
  <2>1. CASE Unnoticed
    <3>1. deployed' \in Seq(Contracts)
      BY <1>1, <2>1, DeployedSeq
         DEF Unnoticed, CrossInv, HandlerInv, HandlerType, CoreInv, TypeInv, TypeOK
    <3> QED
      BY <2>1, <3>1 DEF Unnoticed, found, CrossInv, HandlerInv, HandlerType
  <2>2. CASE HandlersDie
    BY <2>2 DEF HandlersDie, CrossInv, HandlerInv, HandlerType
  <2> QED
    BY <2>1, <2>2 DEF BaseStep
<1>3. ASSUME NEW j \in Jobs PROVE AtStep(j)'
  <2>1. CASE HandlersDie /\ \A k \in Jobs : pc'[k] # "start"
    BY <2>1 DEF HandlersDie, AtStep
  <2>2. CASE Unnoticed /\ pc'[j] # "start"
    <3>1. crossPc'[j] = "idle"
      BY <2>2 DEF Unnoticed, CrossInv, HandlerInv, HandlerType
    <3> QED
      BY <2>2, <3>1 DEF AtStep
  <2>3. CASE Unnoticed /\ pc'[j] = "start"
    <3>1. Waits(j)
      BY <2>3, StartStep DEF CrossInv, CoreInv, BaseStep
    <3>2. CASE pc[j] = "insertJob" /\ jobRow'[j] = "open"
      <4>1. crossPc'[j] = "idle"
        BY <2>3, <3>2 DEF Unnoticed, CrossInv, HandlerInv, HandlerType
      <4> QED
        BY <3>2, <4>1 DEF AtStep
    <3>3. CASE pc[j] = "start" /\ jobRow'[j] = jobRow[j] /\ error'[j] = error[j]
      <4>1. RowsOf(matches, contract[j]) # {} => RowsOf(matches', contract[j]) # {}
        BY RowsStay DEF CrossInv, CoreInv, BaseStep
      <4>2. jobRow'[j] # "none" => contract'[j] = contract[j]
        BY JobRowChanges DEF CrossInv, CoreInv, BaseStep
      <4>3. /\ crossPc'[j] = crossPc[j] /\ source'[j] = source[j]
            /\ sourceRecord'[j] = sourceRecord[j] /\ sourceMatch'[j] = sourceMatch[j]
            /\ hasMatch'[j] = hasMatch[j]
        BY <2>3 DEF Unnoticed, found
      <4> QED
        BY <3>3, <4>1, <4>2, <4>3 DEF AtStep, CrossInv, HandlerInv, RowsOf
    <3> QED
      BY <3>1, <3>2, <3>3 DEF Waits
  <2> QED
    BY <2>1, <2>2, <2>3 DEF BaseStep
<1> QED
  BY <1>1, <1>2, <1>3 DEF CrossInv, HandlerInv

-----------------------------------------------------------------------------
(* Steps of the handlers *)

HandlerStep(j) ==
  \/ StartCrossChain(j)
  \/ CrossChainStep(j)
  \/ ChainFails(j) \/ CrossStatementFails(j) \/ CommitReplyLost(j)

\* What a handler may write: nothing, the copy, the error or its details.
Writes(j) ==
  \/ UNCHANGED <<jobRows, tables>>
  \/ crossPc[j] = "commit" /\ CopyStored(j)
  \/ /\ crossPc[j] = "setError"
     /\ jobRow' = [jobRow EXCEPT ![j] = error[j]]
     /\ jobRecord' = [jobRecord EXCEPT ![j] = None]
     /\ UNCHANGED <<ephemeral, tables>>
  \/ /\ crossPc[j] = "addEphemeral"
     /\ ephemeral' = ephemeral \cup {j}
     /\ UNCHANGED <<jobRow, jobRecord, tables>>

\* What the step of a handler leaves alone.
Frame(j) ==
  /\ crossPc[j] # "idle" \/ pc' = pc
  /\ pc[j] = "start"
  /\ pc' = pc \/ \E answer \in {"done", "rejected"} : pc' = [pc EXCEPT ![j] = answer]
  /\ error' = error
       \/ \E e \in ErrorCodes \cup {None} : error' = [error EXCEPT ![j] = e]
  /\ UNCHANGED <<phase, contract, openJobs, result, oldRecord, runningTaskIds>>
  /\ failures' \in 0..MaxFailures /\ lostReplies' \in 0..MaxLostReplies
  /\ crashes' \in 0..MaxCrashes
  /\ deployed' = deployed \/ DeploymentsFollow

LEMMA HandlerFrame ==
  ASSUME CrossInv, NEW j \in Jobs, HandlerStep(j) PROVE Frame(j)
<1> USE BoundsAssumption
    DEF CrossInv, CoreInv, TypeInv, TypeOK, Frame, CrossGoto, HandlerEnds, WriteError, Reads, vars, locals,
        budgets, ErrorCodes
<1>1. CASE StartCrossChain(j) \/ GetBytecode(j)
  BY <1>1 DEF StartCrossChain, GetBytecode
<1>2. CASE NotDeployed(j)
  BY <1>2 DEF NotDeployed
<1>3. CASE ReadDeployment(j)
  BY <1>3 DEF ReadDeployment
<1>4. CASE ReadSourceRecord(j) \/ ReadSourceMatch(j)
  BY <1>4 DEF ReadSourceRecord, ReadSourceMatch
<1>5. CASE BeginTransaction(j)
  BY <1>5 DEF BeginTransaction
<1>6. CASE Commit(j)
  BY <1>6 DEF Commit, CopyStored
<1>7. CASE CrossSetError(j)
  BY <1>7 DEF CrossSetError
<1>8. CASE CrossInsertEphemeral(j)
  BY <1>8 DEF CrossInsertEphemeral
<1>9. CASE ChainFails(j)
  BY <1>9 DEF ChainFails
<1>10. CASE CrossStatementFails(j)
  BY <1>10 DEF CrossStatementFails
<1>11. CASE CommitReplyLost(j)
  BY <1>11 DEF CommitReplyLost, CopyStored
<1> QED
  BY <1>1, <1>2, <1>3, <1>4, <1>5, <1>6, <1>7, <1>8, <1>9, <1>10, <1>11
     DEF HandlerStep, CrossChainStep

LEMMA HandlerWrites ==
  ASSUME NEW j \in Jobs, HandlerStep(j) PROVE Writes(j)
<1> USE DEF Writes, CrossGoto, HandlerEnds, WriteError, Reads, vars, jobRows, tables
<1>1. CASE StartCrossChain(j) \/ GetBytecode(j)
  BY <1>1 DEF StartCrossChain, GetBytecode
<1>2. CASE NotDeployed(j)
  BY <1>2 DEF NotDeployed
<1>3. CASE ReadDeployment(j)
  BY <1>3 DEF ReadDeployment
<1>4. CASE ReadSourceRecord(j) \/ ReadSourceMatch(j)
  BY <1>4 DEF ReadSourceRecord, ReadSourceMatch
<1>5. CASE BeginTransaction(j)
  BY <1>5 DEF BeginTransaction
<1>6. CASE Commit(j)
  BY <1>6 DEF Commit
<1>7. CASE CrossSetError(j)
  BY <1>7 DEF CrossSetError
<1>8. CASE CrossInsertEphemeral(j)
  BY <1>8 DEF CrossInsertEphemeral
<1>9. CASE ChainFails(j)
  BY <1>9 DEF ChainFails
<1>10. CASE CrossStatementFails(j)
  BY <1>10 DEF CrossStatementFails
<1>11. CASE CommitReplyLost(j)
  BY <1>11 DEF CommitReplyLost
<1> QED
  BY <1>1, <1>2, <1>3, <1>4, <1>5, <1>6, <1>7, <1>8, <1>9, <1>10, <1>11
     DEF HandlerStep, CrossChainStep

\* The copy backs itself: its match has its verified contract, and no other
\* contract loses what it has.
LEMMA CopyFacts ==
  ASSUME CrossInv, NEW j \in Jobs, crossPc[j] = "commit", CopyStored(j)
  PROVE  /\ records' \in SUBSET Rows /\ matches' \in SUBSET Rows
         /\ \A c : RowsOf(matches, c) # {} => RowsOf(matches', c) # {}
         /\ \A c, k : RowOf(records, c, k) # {} => RowOf(records', c, k) # {}
         /\ RowsOf(matches', contract[j]) # {}
         /\ RowOf(records', contract[j], sourceRecord[j].compilation) # {}
         /\ \A m \in matches' \ matches :
              m.contract = contract[j] /\ m.compilation = sourceRecord[j].compilation
         /\ sourceRecord[j].compilation \in Compilations /\ contract[j] \in Contracts
<1> DEFINE k0 == sourceRecord[j].compilation
           old == RowOf(matches, contract[j], k0)
<1>1. /\ pc[j] = "start" /\ contract[j] \in Contracts
      /\ sourceRecord[j] \in Rows /\ sourceMatch[j] \in Rows
      /\ sourceMatch[j].compilation = k0
      /\ hasMatch[j] => RowsOf(matches, contract[j]) # {}
      /\ records \in SUBSET Rows /\ matches \in SUBSET Rows
  BY DEF CrossInv, CoreInv, TypeInv, TypeOK, StepInv, HandlerInv, HandlerType, AtStep
<1>2. /\ Copy(j) \in Rows /\ Copy(j).contract = contract[j] /\ Copy(j).compilation = k0
      /\ k0 \in Compilations
  BY <1>1 DEF Copy, Rows
<1>3. /\ CopiedMatch(j) \in Rows /\ CopiedMatch(j).contract = contract[j]
      /\ CopiedMatch(j).compilation = k0
  BY <1>1 DEF CopiedMatch, Rows
<1>4. records' = (records \ RowOf(records, contract[j], k0)) \cup {Copy(j)}
  BY DEF CopyStored
<1>5. matches' = matches \/ matches' = (matches \ old) \cup {CopiedMatch(j)}
  BY DEF CopyStored
<1>6. Copy(j) \in RowOf(records', contract[j], k0)
  BY <1>2, <1>4 DEF RowOf, RowsOf
<1>7. ASSUME NEW c, NEW k, RowOf(records, c, k) # {} PROVE RowOf(records', c, k) # {}
  <2>1. PICK row \in records : row.contract = c /\ row.compilation = k
    BY <1>7 DEF RowOf, RowsOf
  <2>2. CASE row \in RowOf(records, contract[j], k0)
    BY <2>1, <2>2, <1>6 DEF RowOf, RowsOf
  <2>3. CASE row \notin RowOf(records, contract[j], k0)
    BY <2>1, <2>3, <1>4 DEF RowOf, RowsOf
  <2> QED
    BY <2>2, <2>3
<1>8. ASSUME NEW c, RowsOf(matches, c) # {} PROVE RowsOf(matches', c) # {}
  <2>1. CASE matches' = matches
    BY <1>8, <2>1
  <2>2. CASE matches' = (matches \ old) \cup {CopiedMatch(j)}
    <3>1. CopiedMatch(j) \in RowsOf(matches', contract[j])
      BY <2>2, <1>3 DEF RowsOf
    <3>2. PICK row \in matches : row.contract = c
      BY <1>8 DEF RowsOf
    <3>3. CASE row \in old
      BY <3>1, <3>2, <3>3 DEF RowOf, RowsOf
    <3>4. CASE row \notin old
      BY <2>2, <3>2, <3>4 DEF RowsOf
    <3> QED
      BY <3>3, <3>4
  <2> QED
    BY <1>5, <2>1, <2>2
<1>9. RowsOf(matches', contract[j]) # {}
  <2>1. CASE hasMatch[j]
    BY <2>1, <1>1, <1>8
  <2>2. CASE ~ hasMatch[j]
    <3>1. matches' = matches \cup {CopiedMatch(j)}
      BY <2>2 DEF CopyStored
    <3> QED
      BY <3>1, <1>3 DEF RowsOf
  <2> QED
    BY <2>1, <2>2
<1>10. records' \in SUBSET Rows /\ matches' \in SUBSET Rows
  BY <1>1, <1>2, <1>3, <1>4, <1>5
<1>11. \A m \in matches' \ matches : m = CopiedMatch(j)
  BY <1>5
<1> QED
  BY <1>1, <1>2, <1>3, <1>6, <1>7, <1>8, <1>9, <1>10, <1>11

\* The table contents only grow, seen by contract and by verified contract.
LEMMA WritesKeepRows ==
  ASSUME CrossInv, NEW j \in Jobs, Writes(j)
  PROVE  /\ records' \in SUBSET Rows /\ matches' \in SUBSET Rows
         /\ \A c : RowsOf(matches, c) # {} => RowsOf(matches', c) # {}
         /\ \A c, k : RowOf(records, c, k) # {} => RowOf(records', c, k) # {}
<1>1. CASE UNCHANGED tables
  BY <1>1 DEF tables, CrossInv, CoreInv, TypeInv, TypeOK, RowsOf, RowOf
<1>2. CASE crossPc[j] = "commit" /\ CopyStored(j)
  BY <1>2, CopyFacts
<1> QED
  BY <1>1, <1>2 DEF Writes, tables

LEMMA WritesOwnRow ==
  ASSUME CrossInv, NEW j \in Jobs, Writes(j)
  PROVE  /\ \A k \in Jobs \ {j} : jobRow'[k] = jobRow[k] /\ jobRecord'[k] = jobRecord[k]
         /\ jobRow' \in [Jobs -> JobStates]
         /\ jobRecord' \in [Jobs -> Compilations \cup {None}]
         /\ ephemeral' \in SUBSET Jobs
<1> USE DEF CrossInv, CoreInv, TypeInv, TypeOK
<1>1. CASE UNCHANGED <<jobRows, tables>>
  BY <1>1 DEF jobRows
<1>2. CASE crossPc[j] = "commit" /\ CopyStored(j)
  BY <1>2, CopyFacts DEF CopyStored, JobStates
<1>3. CASE /\ crossPc[j] = "setError"
           /\ jobRow' = [jobRow EXCEPT ![j] = error[j]]
           /\ jobRecord' = [jobRecord EXCEPT ![j] = None]
           /\ UNCHANGED <<ephemeral, tables>>
  BY <1>3 DEF JobStates, HandlerInv, AtStep
<1>4. CASE /\ ephemeral' = ephemeral \cup {j}
           /\ UNCHANGED <<jobRow, jobRecord, tables>>
  BY <1>4
<1> QED
  BY <1>1, <1>2, <1>3, <1>4 DEF Writes

\* No job but that of the handler moves, and that one only ends.
LEMMA FramePc ==
  ASSUME CrossInv, NEW j \in Jobs, Frame(j), NEW k \in Jobs
  PROVE  /\ pc'[k] = pc[k] \/ (k = j /\ pc[k] = "start" /\ pc'[k] \in {"done", "rejected"})
         /\ k # j => error'[k] = error[k]
         /\ k = j => pc'[k] \in {"start", "done", "rejected"}
BY DEF CrossInv, CoreInv, TypeInv, TypeOK, Frame

LEMMA HandlerTypeInv ==
  ASSUME CrossInv, NEW j \in Jobs, Frame(j), Writes(j) PROVE TypeInv'
<1>1. TypeOK'
  <2>1. pc' \in [Jobs -> ActiveSteps \cup FinalSteps]
    BY DEF CrossInv, CoreInv, TypeInv, TypeOK, Frame, FinalSteps
  <2>2. error' \in [Jobs -> ErrorCodes \cup {None}]
    BY DEF CrossInv, CoreInv, TypeInv, TypeOK, Frame
  <2> QED
    BY <2>1, <2>2, WritesKeepRows, WritesOwnRow
       DEF CrossInv, CoreInv, TypeInv, TypeOK, Frame
<1>2. ASSUME NEW k \in Jobs, k # j
      PROVE  /\ pc'[k] = pc[k] /\ error'[k] = error[k] /\ jobRow'[k] = jobRow[k]
             /\ contract'[k] = contract[k] /\ result'[k] = result[k]
  BY <1>2, FramePc, WritesOwnRow DEF Frame
<1>3. /\ pc'[j] \in {"start", "done", "rejected"} /\ contract'[j] \in Contracts
  BY FramePc DEF Frame, CrossInv, CoreInv, TypeInv, StepInv
<1>4. ASSUME NEW k \in Jobs
      PROVE  /\ pc'[k] # "new" => contract'[k] \in Contracts
             /\ pc'[k] \in StoreSteps => result'[k] \in Verifications
             /\ pc'[k] = "setError" => error'[k] \in ErrorCodes
             /\ pc'[k] \in NotStored => jobRow'[k] = "none"
             /\ pc'[k] \in InProgress => jobRow'[k] = "open"
             /\ pc'[k] = "setError" =>
                  jobRow'[k] = "open" \/ (jobRow'[k] = "success" /\ error'[k] = "internal_error")
             /\ pc'[k] = "addEphemeral" => jobRow'[k] \in ErrorCodes
             /\ pc'[k] = "settle" => jobRow'[k] \in ErrorCodes \cup {"success"}
  <2>1. CASE k # j
    BY <1>2, <2>1 DEF CrossInv, CoreInv, TypeInv, StepInv
  <2>2. CASE k = j
    BY <1>3, <2>2 DEF StoreSteps, NotStored, InProgress
  <2> QED
    BY <2>1, <2>2
<1> QED
  BY <1>1, <1>4 DEF TypeInv, StepInv

LEMMA HandlerCoreInv ==
  ASSUME CrossInv, NEW j \in Jobs, Frame(j), Writes(j) PROVE CoreInv'
<1>1. TypeInv'
  BY HandlerTypeInv
<1>2. WrittenInv'
  <2> SUFFICES ASSUME NEW k \in Jobs,
                      pc'[k] \in {"updateMatch", "insertMatch", "completeJob"}
               PROVE  /\ RowOf(records', contract'[k], result'[k].compilation) # {}
                      /\ pc'[k] = "completeJob" => RowsOf(matches', contract'[k]) # {}
    BY DEF WrittenInv, RowOf, RowsOf
  <2>1. pc'[k] = pc[k] /\ contract'[k] = contract[k] /\ result'[k] = result[k]
    BY FramePc DEF Frame
  <2> QED
    BY <2>1, WritesKeepRows DEF CrossInv, CoreInv, WrittenInv
<1>3. SuccessIsBacked'
  <2> SUFFICES ASSUME NEW k \in Jobs, jobRow'[k] = "success"
               PROVE  /\ RowsOf(matches', contract[k]) # {}
                      /\ RowOf(records', contract[k], jobRecord'[k]) # {}
    BY DEF SuccessIsBacked, RowOf, RowsOf, Frame
  <2>1. CASE jobRow[k] = "success" /\ jobRecord'[k] = jobRecord[k]
    BY <2>1, WritesKeepRows DEF CrossInv, CoreInv, SuccessIsBacked
  <2>2. CASE k = j /\ crossPc[j] = "commit" /\ CopyStored(j)
    <3>1. jobRecord'[k] = sourceRecord[j].compilation
      BY <2>2 DEF CopyStored, CrossInv, CoreInv, TypeInv, TypeOK
    <3> QED
      BY <2>2, <3>1, CopyFacts
  <2>3. ~ (k = j /\ crossPc[j] = "setError" /\ jobRow' = [jobRow EXCEPT ![j] = error[j]])
    BY DEF CrossInv, CoreInv, TypeInv, TypeOK, HandlerInv, AtStep, ErrorCodes
  <2> QED
    BY <2>1, <2>2, <2>3, WritesOwnRow DEF Writes, jobRows
<1>4. MatchesAreRecorded'
  <2> SUFFICES ASSUME NEW m \in matches'
               PROVE  RowOf(records', m.contract, m.compilation) # {}
    BY DEF MatchesAreRecorded, RowOf, RowsOf
  <2>1. CASE m \in matches
    BY <2>1, WritesKeepRows DEF CrossInv, CoreInv, MatchesAreRecorded
  <2>2. CASE m \notin matches
    <3>1. crossPc[j] = "commit" /\ CopyStored(j)
      BY <2>2 DEF Writes, tables
    <3> QED
      BY <2>2, <3>1, CopyFacts
  <2> QED
    BY <2>1, <2>2
<1>5. DetailsBelongToErrors'
  <2> SUFFICES ASSUME NEW k \in ephemeral' PROVE jobRow'[k] \in ErrorCodes
    BY DEF DetailsBelongToErrors
  <2>1. k \in Jobs
    BY WritesOwnRow
  <2>2. CASE k # j
    <3>1. k \in ephemeral
      BY <2>2 DEF Writes, jobRows, CopyStored
    <3> QED
      BY <2>1, <2>2, <3>1, WritesOwnRow DEF CrossInv, CoreInv, DetailsBelongToErrors
  <2>3. CASE k = j /\ crossPc[j] = "setError" /\ jobRow' = [jobRow EXCEPT ![j] = error[j]]
    BY <2>3 DEF CrossInv, CoreInv, TypeInv, TypeOK, HandlerInv, AtStep
  <2>4. CASE k = j /\ crossPc[j] = "addEphemeral" /\ UNCHANGED jobRow
    BY <2>4 DEF CrossInv, HandlerInv, AtStep
  <2>5. CASE k = j /\ UNCHANGED jobRows
    BY <2>5 DEF jobRows, CrossInv, CoreInv, DetailsBelongToErrors
  <2>6. ~ (k = j /\ crossPc[j] = "commit" /\ UNCHANGED ephemeral)
    <3>1. crossPc[j] = "commit" => jobRow[j] = "open"
      BY DEF CrossInv, HandlerInv, AtStep
    <3>2. j \in ephemeral => jobRow[j] \in ErrorCodes
      BY DEF CrossInv, CoreInv, DetailsBelongToErrors
    <3> QED
      BY <3>1, <3>2 DEF ErrorCodes
  <2> QED
    BY <2>2, <2>3, <2>4, <2>5, <2>6 DEF Writes, CopyStored
<1> QED
  BY <1>1, <1>2, <1>3, <1>4, <1>5 DEF CoreInv

\* A handler does not touch the memory of another.
LEMMA OwnMemory ==
  ASSUME CrossInv, NEW j \in Jobs, HandlerStep(j), NEW k \in Jobs, k # j
  PROVE  /\ crossPc'[k] = crossPc[k] /\ source'[k] = source[k]
         /\ sourceRecord'[k] = sourceRecord[k] /\ sourceMatch'[k] = sourceMatch[k]
         /\ hasMatch'[k] = hasMatch[k]
<1> USE DEF CrossInv, HandlerInv, HandlerType, CrossGoto, HandlerEnds, WriteError,
        Reads, Forget, found
<1>1. CASE StartCrossChain(j)
  BY <1>1 DEF StartCrossChain
<1>2. CASE GetBytecode(j)
  BY <1>2 DEF GetBytecode
<1>3. CASE NotDeployed(j)
  BY <1>3 DEF NotDeployed
<1>4. CASE ReadDeployment(j)
  BY <1>4 DEF ReadDeployment
<1>5. CASE ReadSourceRecord(j)
  BY <1>5 DEF ReadSourceRecord
<1>6. CASE ReadSourceMatch(j)
  BY <1>6 DEF ReadSourceMatch
<1>7. CASE BeginTransaction(j)
  BY <1>7 DEF BeginTransaction
<1>8. CASE Commit(j)
  BY <1>8 DEF Commit
<1>9. CASE CrossSetError(j)
  BY <1>9 DEF CrossSetError
<1>10. CASE CrossInsertEphemeral(j)
  BY <1>10 DEF CrossInsertEphemeral
<1>11. CASE ChainFails(j)
  BY <1>11 DEF ChainFails
<1>12. CASE CrossStatementFails(j)
  BY <1>12 DEF CrossStatementFails
<1>13. CASE CommitReplyLost(j)
  BY <1>13 DEF CommitReplyLost
<1> QED
  BY <1>1, <1>2, <1>3, <1>4, <1>5, <1>6, <1>7, <1>8, <1>9, <1>10, <1>11, <1>12, <1>13
     DEF HandlerStep, CrossChainStep

LEMMA HandlerTypeNext ==
  ASSUME CrossInv, NEW j \in Jobs, HandlerStep(j), CoreInv' PROVE HandlerType'
<1> DEFINE Memory ==
      /\ crossPc' \in [Jobs -> CrossSteps \cup {"idle"}]
      /\ source' \in [Jobs -> Contracts \cup {None}]
      /\ sourceRecord' \in [Jobs -> Rows \cup {None}]
      /\ sourceMatch' \in [Jobs -> Rows \cup {None}]
      /\ hasMatch' \in [Jobs -> BOOLEAN]
<1>1. Memory
  <2> USE DEF CrossInv, HandlerInv, HandlerType, CrossGoto, HandlerEnds,
          WriteError, Reads, Forget, found, CrossSteps
  <2>1. records \in SUBSET Rows /\ matches \in SUBSET Rows
    BY DEF CoreInv, TypeInv, TypeOK
  <2>2. CASE StartCrossChain(j)
    BY <2>1, <2>2 DEF StartCrossChain
  <2>3. CASE GetBytecode(j)
    BY <2>1, <2>3 DEF GetBytecode
  <2>4. CASE NotDeployed(j)
    BY <2>1, <2>4 DEF NotDeployed
  <2>5. CASE ReadDeployment(j)
    <3>1. \A i \in DOMAIN deployed : deployed[i] \in Contracts
      OBVIOUS
    <3>2. CASE Reads(j, "readDeployment", "readRecord")
      BY <2>5, <3>1, <3>2 DEF ReadDeployment
    <3>3. CASE WriteError(j, "readDeployment", "verify_error")
      BY <3>3
    <3> QED
      BY <2>5, <3>2, <3>3 DEF ReadDeployment
  <2>6. CASE ReadSourceRecord(j)
    BY <2>1, <2>6 DEF ReadSourceRecord, RowsOf, RowOf
  <2>7. CASE ReadSourceMatch(j)
    <3>1. ASSUME Reads(j, "readMatch", "transaction"),
                 UNCHANGED <<source, sourceRecord, hasMatch>>,
                 NEW row \in matches, sourceMatch' = [sourceMatch EXCEPT ![j] = row]
          PROVE  Memory
      BY <2>1, <3>1
    <3>2. CASE WriteError(j, "readMatch", "verify_error")
      BY <3>2
    <3>3. RowOf(matches, source[j], sourceRecord[j].compilation) \subseteq matches
      BY DEF RowOf, RowsOf
    <3> HIDE DEF Memory, Reads, WriteError
    <3> QED
      BY <2>7, <3>1, <3>2, <3>3 DEF ReadSourceMatch
  <2>8. CASE BeginTransaction(j)
    BY <2>1, <2>8 DEF BeginTransaction
  <2>9. CASE Commit(j)
    BY <2>1, <2>9 DEF Commit
  <2>10. CASE CrossSetError(j)
    BY <2>1, <2>10 DEF CrossSetError
  <2>11. CASE CrossInsertEphemeral(j)
    BY <2>1, <2>11 DEF CrossInsertEphemeral
  <2>12. CASE ChainFails(j)
    BY <2>1, <2>12 DEF ChainFails
  <2>13. CASE CrossStatementFails(j)
    BY <2>1, <2>13 DEF CrossStatementFails
  <2>14. CASE CommitReplyLost(j)
    BY <2>1, <2>14 DEF CommitReplyLost
  <2> QED
    BY <2>2, <2>3, <2>4, <2>5, <2>6, <2>7, <2>8, <2>9, <2>10, <2>11, <2>12, <2>13, <2>14
       DEF HandlerStep, CrossChainStep
<1>2. deployed' \in Seq(Contracts)
  <2>1. deployed' = deployed \/ DeploymentsFollow
    BY HandlerFrame DEF Frame
  <2>2. records' \in SUBSET Rows
    BY DEF CoreInv, TypeInv, TypeOK
  <2> QED
    BY <2>1, <2>2, DeployedSeq DEF CrossInv, HandlerInv, HandlerType
<1>3. ASSUME NEW k \in Jobs, crossPc'[k] # "idle" PROVE pc'[k] = "start"
  <2>1. CASE k # j
    BY <1>3, <2>1, OwnMemory, HandlerFrame, FramePc DEF CrossInv, HandlerInv, HandlerType
  <2>2. CASE k = j
    <3>1. pc[j] = "start"
      BY HandlerFrame DEF Frame
    <3>2. pc' = pc \/ crossPc' = [crossPc EXCEPT ![j] = "idle"]
      <4> USE DEF CrossGoto, HandlerEnds, WriteError, Reads, vars
      <4> QED
        BY DEF HandlerStep, CrossChainStep, StartCrossChain, GetBytecode, NotDeployed,
           ReadDeployment, ReadSourceRecord, ReadSourceMatch, BeginTransaction, Commit,
           CrossSetError, CrossInsertEphemeral, ChainFails, CrossStatementFails,
           CommitReplyLost
    <3> QED
      BY <1>3, <2>2, <3>1, <3>2 DEF CrossInv, HandlerInv, HandlerType
  <2> QED
    BY <2>1, <2>2
<1> QED
  BY <1>1, <1>2, <1>3 DEF HandlerType

LEMMA OthersAtStep ==
  ASSUME CrossInv, NEW j \in Jobs, HandlerStep(j), NEW k \in Jobs, k # j
  PROVE  AtStep(k)'
<1>1. Frame(j) /\ Writes(j)
  BY HandlerFrame, HandlerWrites
<1>2. /\ pc'[k] = pc[k] /\ error'[k] = error[k] /\ contract'[k] = contract[k]
      /\ jobRow'[k] = jobRow[k]
  BY <1>1, FramePc, WritesOwnRow DEF Frame
<1>3. RowsOf(matches, contract[k]) # {} => RowsOf(matches', contract[k]) # {}
  BY <1>1, WritesKeepRows
<1>4. AtStep(k)
  BY DEF CrossInv, HandlerInv
<1> QED
  BY <1>2, <1>3, <1>4, OwnMemory DEF AtStep, RowsOf

\* Where the step of a handler takes it, by the three ways it can be left.
LEMMA ReadsAtStep ==
  ASSUME CrossInv, NEW j \in Jobs, NEW from, NEW to, Reads(j, from, to)
  PROVE  /\ crossPc[j] = from /\ crossPc'[j] = to /\ pc'[j] = "start"
         /\ jobRow'[j] = jobRow[j] /\ contract' = contract /\ matches' = matches
BY DEF CrossInv, HandlerInv, HandlerType, Reads, CrossGoto, vars, jobRows, locals, tables

LEMMA EndsAtStep ==
  ASSUME CrossInv, NEW j \in Jobs, NEW from, NEW answer \in {"done", "rejected"},
         HandlerEnds(j, from, answer)
  PROVE  AtStep(j)'
<1>1. crossPc'[j] = "idle" /\ pc'[j] = answer
  BY DEF CrossInv, CoreInv, TypeInv, TypeOK, HandlerInv, HandlerType, HandlerEnds, CrossGoto
<1> QED
  BY <1>1 DEF AtStep

LEMMA ErrorAtStep ==
  ASSUME CrossInv, NEW j \in Jobs, NEW from, NEW code \in ErrorCodes,
         WriteError(j, from, code),
         jobRow'[j] = "open" \/ (jobRow'[j] = "success" /\ code = "internal_error")
  PROVE  AtStep(j)'
<1>1. crossPc'[j] = "setError" /\ error'[j] = code
  BY DEF CrossInv, CoreInv, TypeInv, TypeOK, HandlerInv, HandlerType, WriteError, CrossGoto
<1> QED
  BY <1>1 DEF AtStep

LEMMA OwnAtStep ==
  ASSUME CrossInv, NEW j \in Jobs, HandlerStep(j) PROVE AtStep(j)'
<1>0. AtStep(j) /\ HandlerType
  BY DEF CrossInv, HandlerInv
<1> USE DEF ErrorCodes
<1>1. CASE StartCrossChain(j)
  <2>1. Reads(j, "idle", "getBytecode")
    BY <1>1 DEF StartCrossChain
  <2>2. pc[j] = "start"
    BY <2>1 DEF Reads, CrossGoto
  <2> QED
    BY <1>0, <2>1, <2>2, ReadsAtStep DEF AtStep
<1>2. CASE GetBytecode(j)
  <2>1. Reads(j, "getBytecode", "readDeployment")
    BY <1>2 DEF GetBytecode
  <2> QED
    BY <1>0, <2>1, ReadsAtStep DEF AtStep
<1>3. CASE NotDeployed(j)
  <2>1. WriteError(j, "getBytecode", "verify_error") /\ jobRow'[j] = jobRow[j]
    BY <1>3 DEF NotDeployed, jobRows
  <2>2. jobRow[j] = "open"
    BY <1>0, <2>1 DEF WriteError, CrossGoto, AtStep
  <2> QED
    BY <2>1, <2>2, ErrorAtStep
<1>4. CASE ReadDeployment(j)
  <2>1. CASE Reads(j, "readDeployment", "readRecord")
    <3>1. \A i \in DOMAIN deployed : deployed[i] \in Contracts
      BY <1>0 DEF HandlerType
    <3>2. crossPc'[j] = "readRecord" /\ crossPc[j] = "readDeployment" /\ jobRow'[j] = jobRow[j]
      BY <2>1, ReadsAtStep
    <3>3. source'[j] \in Contracts
      BY <1>0, <1>4, <3>1, <3>2 DEF ReadDeployment, WriteError, CrossGoto, HandlerType
    <3> QED
      BY <1>0, <3>2, <3>3 DEF AtStep
  <2>2. CASE WriteError(j, "readDeployment", "verify_error") /\ UNCHANGED jobRows
    <3>1. jobRow[j] = "open" /\ jobRow'[j] = jobRow[j]
      BY <1>0, <2>2 DEF WriteError, CrossGoto, AtStep, jobRows
    <3> QED
      BY <2>2, <3>1, ErrorAtStep
  <2> QED
    BY <1>4, <2>1, <2>2 DEF ReadDeployment
<1>5. CASE ReadSourceRecord(j)
  <2>1. Reads(j, "readRecord", "readMatch") /\ source'[j] = source[j]
    BY <1>5 DEF ReadSourceRecord
  <2>2. sourceRecord'[j] \in Rows
    BY <1>0, <1>5 DEF ReadSourceRecord, HandlerType, RowsOf, CrossInv, CoreInv, TypeInv, TypeOK
  <2>3. crossPc'[j] = "readMatch" /\ crossPc[j] = "readRecord" /\ jobRow'[j] = jobRow[j]
    BY <2>1, ReadsAtStep
  <2> QED
    BY <1>0, <2>1, <2>2, <2>3 DEF AtStep
<1>6. CASE ReadSourceMatch(j)
  <2>1. CASE Reads(j, "readMatch", "transaction")
    <3>1. crossPc'[j] = "transaction" /\ crossPc[j] = "readMatch" /\ jobRow'[j] = jobRow[j]
      BY <2>1, ReadsAtStep
    <3>2. /\ source'[j] = source[j] /\ sourceRecord'[j] = sourceRecord[j]
          /\ sourceMatch'[j] \in RowOf(matches, source[j], sourceRecord[j].compilation)
      BY <1>0, <1>6, <3>1 DEF ReadSourceMatch, WriteError, CrossGoto, HandlerType
    <3>3. sourceMatch'[j] \in Rows /\ sourceMatch'[j].compilation = sourceRecord[j].compilation
      BY <3>2 DEF RowOf, RowsOf, CrossInv, CoreInv, TypeInv, TypeOK
    <3> QED
      BY <1>0, <3>1, <3>2, <3>3 DEF AtStep
  <2>2. CASE WriteError(j, "readMatch", "verify_error") /\ UNCHANGED jobRows
    <3>1. jobRow[j] = "open" /\ jobRow'[j] = jobRow[j]
      BY <1>0, <2>2 DEF WriteError, CrossGoto, AtStep, jobRows
    <3> QED
      BY <2>2, <3>1, ErrorAtStep
  <2> QED
    BY <1>6, <2>1, <2>2 DEF ReadSourceMatch
<1>7. CASE BeginTransaction(j)
  <2>1. CASE Reads(j, "transaction", "commit")
    <3>1. /\ crossPc'[j] = "commit" /\ crossPc[j] = "transaction" /\ jobRow'[j] = jobRow[j]
          /\ contract' = contract /\ matches' = matches
      BY <2>1, ReadsAtStep
    <3>2. /\ source'[j] = source[j] /\ sourceRecord'[j] = sourceRecord[j]
          /\ sourceMatch'[j] = sourceMatch[j]
          /\ hasMatch'[j] => RowOf(matches, contract[j], sourceRecord[j].compilation) # {}
      BY <1>0, <1>7, <3>1 DEF BeginTransaction, WriteError, CrossGoto, HandlerType
    <3>3. hasMatch'[j] => RowsOf(matches', contract'[j]) # {}
      BY <3>1, <3>2 DEF RowOf
    <3> QED
      BY <1>0, <3>1, <3>2, <3>3 DEF AtStep, RowsOf
  <2>2. CASE WriteError(j, "transaction", "internal_error") /\ UNCHANGED jobRows
    <3>1. jobRow[j] = "open" /\ jobRow'[j] = jobRow[j]
      BY <1>0, <2>2 DEF WriteError, CrossGoto, AtStep, jobRows
    <3> QED
      BY <2>2, <3>1, ErrorAtStep
  <2> QED
    BY <1>7, <2>1, <2>2 DEF BeginTransaction
<1>8. CASE Commit(j)
  <2>1. CASE HandlerEnds(j, "commit", "done")
    BY <2>1, EndsAtStep
  <2>2. CASE WriteError(j, "commit", "internal_error") /\ UNCHANGED jobRows
    <3>1. jobRow[j] = "open" /\ jobRow'[j] = jobRow[j]
      BY <1>0, <2>2 DEF WriteError, CrossGoto, AtStep, jobRows
    <3> QED
      BY <2>2, <3>1, ErrorAtStep
  <2> QED
    BY <1>8, <2>1, <2>2 DEF Commit
<1>9. CASE CrossSetError(j)
  <2>1. crossPc[j] = "setError" /\ crossPc'[j] = "addEphemeral" /\ jobRow'[j] = error[j]
    BY <1>0, <1>9 DEF CrossSetError, CrossGoto, HandlerType, CrossInv, CoreInv, TypeInv, TypeOK
  <2> QED
    BY <1>0, <2>1 DEF AtStep
<1>10. CASE CrossInsertEphemeral(j)
  BY <1>10, EndsAtStep DEF CrossInsertEphemeral
<1>11. CASE ChainFails(j)
  BY <1>11, EndsAtStep DEF ChainFails
<1>12. CASE CrossStatementFails(j)
  <2>1. ASSUME NEW step \in {"setError", "addEphemeral"}, HandlerEnds(j, step, "rejected")
        PROVE  AtStep(j)'
    BY <2>1, EndsAtStep
  <2>2. ASSUME NEW step \in {"readDeployment", "readRecord", "readMatch", "transaction", "commit"},
               WriteError(j, step, "internal_error")
        PROVE  AtStep(j)'
    <3>1. jobRow[j] = "open" /\ jobRow'[j] = jobRow[j]
      BY <1>0, <1>12, <2>2 DEF CrossStatementFails, WriteError, CrossGoto, AtStep, jobRows
    <3> QED
      BY <2>2, <3>1, ErrorAtStep
  <2> QED
    BY <1>12, <2>1, <2>2 DEF CrossStatementFails
<1>13. CASE CommitReplyLost(j)
  <2>1. WriteError(j, "commit", "internal_error") /\ jobRow'[j] = "success"
    BY <1>13 DEF CommitReplyLost, CopyStored, CrossInv, CoreInv, TypeInv, TypeOK
  <2> QED
    BY <2>1, ErrorAtStep
<1> QED
  BY <1>1, <1>2, <1>3, <1>4, <1>5, <1>6, <1>7, <1>8, <1>9, <1>10, <1>11, <1>12, <1>13
     DEF HandlerStep, CrossChainStep

LEMMA HandlerStepInv ==
  ASSUME CrossInv, NEW j \in Jobs, HandlerStep(j) PROVE CrossInv'
<1>1. CoreInv'
  BY HandlerFrame, HandlerWrites, HandlerCoreInv
<1>2. HandlerType'
  BY <1>1, HandlerTypeNext
<1>3. \A k \in Jobs : AtStep(k)'
  BY OwnAtStep, OthersAtStep
<1> QED
  BY <1>1, <1>2, <1>3 DEF CrossInv, HandlerInv

LEMMA CrossCases ==
  ASSUME CrossInv, [CrossNext]_crossVars
  PROVE  BaseStep \/ (\E j \in Jobs : HandlerStep(j)) \/ (\E j \in Jobs : AlertRejects(j))
<1>1. CASE UNCHANGED crossVars
  BY <1>1 DEF crossVars, BaseStep, Unnoticed, StartsWell, vars
<1>2. CASE CrossNext
  BY <1>2, BesideStep, DeathStep, ServerStep, SentStep
     DEF CrossNext, CrossTrouble, Exits, HandlerStep
<1> QED
  BY <1>1, <1>2

\* The process ends over an alert: as after a crash, the tables stay and nothing
\* is under way.
LEMMA RejectsInv ==
  ASSUME CrossInv, NEW j \in Jobs, AlertRejects(j) PROVE CrossInv'
<1>1. /\ ProcessDies /\ HandlersDie /\ UNCHANGED <<budgets, contract, jobRows, tables>>
  BY DEF AlertRejects, ProcessDies
<1>2. \A k \in Jobs : /\ pc'[k] \notin ActiveSteps
                      /\ pc'[k] = "new" <=> pc[k] = "new"
                      /\ pc'[k] \in {pc[k], "lost"}
  BY <1>1 DEF ProcessDies, Active, ActiveSteps, RequestSteps, TaskSteps, StoreSteps,
     ErrorSteps
<1>3. TypeOK'
  BY <1>1 DEF ProcessDies, CrossInv, CoreInv, TypeInv, TypeOK, FinalSteps, budgets,
     jobRows, tables
<1>4. StepInv'
  <2>1. ASSUME NEW k \in Jobs
        PROVE  /\ pc'[k] # "new" => contract[k] \in Contracts
               /\ pc'[k] = "new" => jobRow[k] = "none"
    BY <1>1, <1>2, <2>1 DEF ProcessDies, StepInv, CrossInv, CoreInv, TypeInv, TypeOK,
       NotStored
  <2>2. \A k \in Jobs : /\ pc'[k] \notin StoreSteps /\ pc'[k] \notin InProgress
                        /\ pc'[k] \notin {"setError", "addEphemeral", "settle"}
                        /\ pc'[k] \in NotStored => pc'[k] = "new"
    BY <1>2 DEF StoreSteps, NotStored, InProgress, ActiveSteps, RequestSteps, TaskSteps,
       ErrorSteps
  <2>3. contract' = contract /\ jobRow' = jobRow
    BY <1>1 DEF jobRows
  <2>4. \A k \in Jobs : pc'[k] # "setError" /\ pc'[k] # "addEphemeral" /\ pc'[k] # "settle"
    BY <2>2
  <2> QED
    BY <2>1, <2>2, <2>3, <2>4 DEF StepInv
<1>5. WrittenInv'
  BY <1>2 DEF WrittenInv, ActiveSteps, TaskSteps, StoreSteps
<1>6. SuccessIsBacked' /\ MatchesAreRecorded' /\ DetailsBelongToErrors'
  BY <1>1 DEF SuccessIsBacked, MatchesAreRecorded, DetailsBelongToErrors, RowsOf,
     CrossInv, CoreInv, jobRows, tables
<1>7. HandlerType'
  BY <1>1, <1>2 DEF HandlersDie, CrossInv, HandlerInv, HandlerType
<1>8. \A k \in Jobs : AtStep(k)'
  BY <1>1, <1>2 DEF HandlersDie, AtStep, ActiveSteps, RequestSteps
<1> QED
  BY <1>3, <1>4, <1>5, <1>6, <1>7, <1>8 DEF CrossInv, CoreInv, TypeInv, HandlerInv

THEOREM CrossInvariance == CrossSpec => []CrossInv
<1>1. CrossInit => CrossInv
  BY CrossInvInit
<1>2. CrossInv /\ [CrossNext]_crossVars => CrossInv'
  BY CrossCases, BaseStepInv, HandlerStepInv, RejectsInv
<1> QED
  BY <1>1, <1>2, PTL DEF CrossSpec

\* Every variable of the composition stays within its type, and a handler only
\* waits for the database while its request is open.
THEOREM CrossTypeCorrect == CrossSpec => []CrossTypeOK
<1> DEFINE AlertType == alerts \subseteq Jobs /\ alertFailed \in BOOLEAN
<1>1. CrossInv /\ AlertType => CrossTypeOK
  BY DEF CrossInv, CoreInv, TypeInv, HandlerInv, HandlerType, CrossTypeOK
<1>2. CrossInit => AlertType
  BY DEF CrossInit
<1>3. AlertType /\ [CrossNext]_crossVars => AlertType'
  <2> SUFFICES ASSUME AlertType, [CrossNext]_crossVars PROVE AlertType'
    OBVIOUS
  <2>1. CASE UNCHANGED alerting
    BY <2>1 DEF alerting
  <2>2. CASE alerts' = {} /\ alertFailed' \in {TRUE, alertFailed}
    BY <2>2
  <2>3. ASSUME NEW j \in Jobs, alerts' \in {alerts, alerts \cup {j}, alerts \ {j}},
               alertFailed' = alertFailed
        PROVE  AlertType'
    BY <2>3
  <2>4. ASSUME NEW j \in Jobs, ReadSourceMatch(j) PROVE AlertType'
    BY <2>1, <2>3, <2>4 DEF ReadSourceMatch, alerting
  <2>5. CASE UNCHANGED crossVars
    BY <2>1, <2>5 DEF crossVars
  <2>6. CASE CrossNext
    BY <2>1, <2>2, <2>3, <2>4, <2>6 DEF CrossNext, CrossChainStep, CrossTrouble, Beside,
       HandlersDie, AlertSent, AlertRejects, Exits, alerting
  <2> QED
    BY <2>5, <2>6
<1> QED
  BY <1>1, <1>2, <1>3, CrossInvariance, PTL DEF CrossSpec

\* A successful job has its verified contract and its contract a match, the
\* copies of cross-chain requests included: a copy may find that the match it
\* was to update has been moved, and then relies on the match that took its place.
THEOREM CrossSuccessBacked == CrossSpec => []SuccessIsBacked
BY CrossInvariance, PTL DEF CrossInv, CoreInv

\* No match is ever left without the verified contract it points at, whoever
\* writes it: a task in two statements, a cross-chain request in a transaction.
THEOREM CrossMatchesRecorded == CrossSpec => []MatchesAreRecorded
BY CrossInvariance, PTL DEF CrossInv, CoreInv

\* The details of a failure only ever belong to a job that failed, on the
\* cross-chain endpoint too.
THEOREM CrossDetailsOfErrors == CrossSpec => []DetailsBelongToErrors
BY CrossInvariance, PTL DEF CrossInv, CoreInv

-----------------------------------------------------------------------------
(* Open rows and running tasks *)

\* Nothing forgets that an alert could not be sent.
LEMMA AlertFailedStays ==
  ASSUME [CrossNext]_crossVars, alertFailed PROVE alertFailed'
<1>1. CASE UNCHANGED crossVars
  BY <1>1 DEF crossVars, alerting
<1>2. CASE CrossNext
  <2>1. ASSUME NEW j \in Jobs, ReadSourceMatch(j) PROVE alertFailed' = alertFailed
    BY <2>1 DEF ReadSourceMatch, alerting
  <2> QED
    BY <1>2, <2>1 DEF CrossNext, CrossChainStep, CrossTrouble, Beside, AlertSent,
       AlertRejects, Exits, alerting
<1> QED
  BY <1>1, <1>2

LEMMA HandlerOrphan ==
  ASSUME CrossInv, OrphanOnlyByFault, NEW j \in Jobs, HandlerStep(j)
  PROVE  OrphanOnlyByFault'
<1> SUFFICES ASSUME failures' + lostReplies' + crashes' = 0,
                    NEW k \in Jobs, jobRow'[k] = "open"
             PROVE  pc'[k] \in {"start"} \cup TaskSteps
  BY DEF OrphanOnlyByFault
<1>1. Frame(j) /\ Writes(j)
  BY HandlerFrame, HandlerWrites
<1>2. /\ failures \in Nat /\ lostReplies \in Nat /\ crashes \in Nat
      /\ failures' \in Nat /\ lostReplies' \in Nat /\ crashes' \in Nat
  BY <1>1, BoundsAssumption DEF Frame, CrossInv, CoreInv, TypeInv, TypeOK
<1>3. failures' = 0 /\ lostReplies' = 0
  <2>1. \A a, b, c \in Nat : a + b + c = 0 => a = 0 /\ b = 0
    OBVIOUS
  <2> QED
    BY <1>2, <2>1
<1>4. ~ ChainFails(j) /\ ~ CrossStatementFails(j) /\ ~ CommitReplyLost(j)
  BY <1>2, <1>3 DEF ChainFails, CrossStatementFails, CommitReplyLost
<1>5. UNCHANGED budgets
  BY <1>4 DEF HandlerStep, CrossChainStep, StartCrossChain, GetBytecode, NotDeployed,
     ReadDeployment, ReadSourceRecord, ReadSourceMatch, BeginTransaction, Commit,
     CrossSetError, CrossInsertEphemeral, Reads, vars, budgets
<1>6. CASE k # j
  <2>1. jobRow[k] = "open" /\ pc'[k] = pc[k]
    BY <1>1, <1>6, FramePc, WritesOwnRow
  <2> QED
    BY <1>5, <2>1 DEF OrphanOnlyByFault, budgets
<1>7. CASE k = j
  <2>1. pc[j] = "start"
    BY <1>1 DEF Frame
  <2>2. ~ Commit(j) \/ pc'[j] = "start"
    <3>1. CASE HandlerEnds(j, "commit", "done") /\ CopyStored(j)
      BY <1>7, <3>1 DEF CopyStored, CrossInv, CoreInv, TypeInv, TypeOK
    <3>2. CASE WriteError(j, "commit", "internal_error")
      BY <2>1, <3>2 DEF WriteError
    <3> QED
      BY <3>1, <3>2 DEF Commit
  <2>3. ~ CrossInsertEphemeral(j)
    BY <1>7 DEF CrossInsertEphemeral, HandlerEnds, CrossGoto, CrossInv, HandlerInv,
       AtStep, ErrorCodes
  <2>4. pc'[j] = "start"
    BY <1>4, <2>1, <2>2, <2>3
       DEF HandlerStep, CrossChainStep, StartCrossChain, GetBytecode, NotDeployed,
       ReadDeployment, ReadSourceRecord, ReadSourceMatch, BeginTransaction,
       CrossSetError, Reads, WriteError, vars
  <2> QED
    BY <1>7, <2>4
<1> QED
  BY <1>6, <1>7

\* Without faults, and with every alert delivered, every open row has a task or
\* a handler, or is about to get one: a cross-chain request writes the outcome
\* of its job itself, on every path that does not fail and before its alert,
\* which nobody awaits, can end the process.
THEOREM CrossOrphansNeedFaults == CrossSpec => []CrossOrphanOnlyByFault
<1>1. CrossInit => CrossOrphanOnlyByFault
  BY DEF CrossInit, Init, OrphanOnlyByFault, CrossOrphanOnlyByFault
<1>2. CrossInv /\ CrossOrphanOnlyByFault /\ [CrossNext]_crossVars => CrossOrphanOnlyByFault'
  <2> SUFFICES ASSUME CrossInv, CrossOrphanOnlyByFault, [CrossNext]_crossVars,
                      ~ alertFailed'
               PROVE  OrphanOnlyByFault'
    BY DEF CrossOrphanOnlyByFault
  <2>0. ~ alertFailed /\ \A j \in Jobs : ~ AlertRejects(j)
    BY AlertFailedStays DEF AlertRejects
  <2>a. OrphanOnlyByFault
    BY <2>0 DEF CrossOrphanOnlyByFault
  <2>1. CASE BaseStep
    <3>1. CoreInv'
      BY <2>1, CoreInvNext DEF CrossInv, BaseStep
    <3>2. failures' \in Nat /\ lostReplies' \in Nat /\ crashes' \in Nat
      BY <3>1, BoundsAssumption DEF CoreInv, TypeInv, TypeOK
    <3> QED
      BY <2>1, <2>a, <3>2, OrphanOnlyByFaultNext DEF CrossInv, CoreInv, BaseStep
  <2> QED
    BY <2>0, <2>a, <2>1, CrossCases, HandlerOrphan
<1> QED
  BY <1>1, <1>2, CrossInvariance, PTL DEF CrossSpec

\* A request is refused as a duplicate only while a task of its contract runs:
\* a cross-chain request under way never refuses another.
THEOREM CrossRejectionIsJustified == CrossSpec => RejectedOnlyWhileRunning
<1>1. CrossInit => RunningInv
  BY DEF CrossInit, Init, RunningInv
<1>2. CrossInv /\ RunningInv /\ [CrossNext]_crossVars => RunningInv'
  <2> SUFFICES ASSUME CrossInv, RunningInv, [CrossNext]_crossVars PROVE RunningInv'
    OBVIOUS
  <2>1. CASE BaseStep
    BY <2>1, RunningInvNext DEF CrossInv, CoreInv, BaseStep
  <2>2. ASSUME NEW j \in Jobs, HandlerStep(j) PROVE RunningInv'
    <3>1. Frame(j)
      BY <2>2, HandlerFrame
    <3>2. \A k \in Jobs : pc'[k] = pc[k] \/ (pc[k] = "start" /\ pc'[k] \in {"done", "rejected"})
      BY <3>1, FramePc
    <3> QED
      BY <3>1, <3>2 DEF Frame, RunningInv, CrossInv, CoreInv, TypeInv, TypeOK,
         TaskSteps, StoreSteps, ErrorSteps
  <2>3. ASSUME NEW j \in Jobs, AlertRejects(j) PROVE RunningInv'
    BY <2>3 DEF AlertRejects, ProcessDies, RunningInv
  <2> QED
    BY <2>1, <2>2, <2>3, CrossCases
<1>3. CrossInv /\ RunningInv /\ [CrossNext]_crossVars =>
        \A j \in Jobs : pc[j] = "checkRunning" /\ pc'[j] = "rejected" =>
          \E k \in Jobs : pc[k] \in TaskSteps /\ contract[k] = contract[j]
  <2> SUFFICES ASSUME CrossInv, RunningInv, [CrossNext]_crossVars,
                      NEW j \in Jobs, pc[j] = "checkRunning", pc'[j] = "rejected"
               PROVE  \E k \in Jobs : pc[k] \in TaskSteps /\ contract[k] = contract[j]
    OBVIOUS
  <2>1. CASE BaseStep
    BY <2>1, RejectionStep DEF CrossInv, CoreInv, RunningInv, TypeInv, TypeOK, BaseStep
  <2>2. ASSUME NEW i \in Jobs, HandlerStep(i) PROVE FALSE
    BY <2>2, HandlerFrame, FramePc
  <2>3. ASSUME NEW i \in Jobs, AlertRejects(i) PROVE FALSE
    BY <2>3 DEF AlertRejects, ProcessDies, Active, ActiveSteps, RequestSteps, CrossInv,
       CoreInv, TypeInv, TypeOK
  <2> QED
    BY <2>1, <2>2, <2>3, CrossCases
<1> QED
  BY <1>1, <1>2, <1>3, CrossInvariance, PTL DEF CrossSpec, RejectedOnlyWhileRunning

-----------------------------------------------------------------------------
(* The ledger *)

LEMMA CopyVerifies ==
  ASSUME CrossInv, NEW j \in Jobs, crossPc[j] = "commit", CopyStored(j)
  PROVE  Verified' = Verified \cup {contract[j]}
<1>1. \A m \in matches' \ matches : m.contract = contract[j]
  BY CopyFacts
<1>2. \A c : RowsOf(matches, c) # {} => RowsOf(matches', c) # {}
  BY CopyFacts
<1>3. RowsOf(matches', contract[j]) # {}
  BY CopyFacts
<1>4. \A c : c \in Verified <=> RowsOf(matches, c) # {}
  BY DEF Verified, RowsOf
<1>5. \A c : c \in Verified' <=> RowsOf(matches', c) # {}
  BY DEF Verified, RowsOf
<1>6. Verified' \subseteq Verified \cup {contract[j]}
  BY <1>1 DEF Verified
<1> QED
  BY <1>2, <1>3, <1>4, <1>5, <1>6

LEMMA HandlerLedger ==
  ASSUME CrossInv, NEW j \in Jobs, HandlerStep(j)
  PROVE  [Ledger!Next]_(Ledger!vars)
<1>1. Frame(j) /\ Writes(j) /\ AtStep(j) /\ contract' = contract
  BY HandlerFrame, HandlerWrites DEF Frame, CrossInv, HandlerInv
<1>2. CASE UNCHANGED jobRow /\ UNCHANGED tables
  BY <1>1, <1>2 DEF Ledger!vars, tables
<1>3. CASE crossPc[j] = "commit" /\ CopyStored(j)
  <2>1. jobRow[j] = "open" /\ jobRow' = [jobRow EXCEPT ![j] = "success"]
    BY <1>1, <1>3 DEF AtStep, CopyStored
  <2>2. Subject' = Subject /\ Subject[j] = contract[j]
    BY <1>1, <2>1 DEF Subject, CrossInv, CoreInv, TypeInv, TypeOK
  <2>3. Verified' = Verified \cup {Subject[j]}
    BY <1>3, <2>2, CopyVerifies
  <2>4. Ledger!VerifyAndSucceed(j)
    BY <2>1, <2>2, <2>3 DEF Ledger!VerifyAndSucceed, Subject, Verified
  <2> QED
    BY <2>4 DEF Ledger!Next
<1>4. CASE /\ crossPc[j] = "setError" /\ UNCHANGED tables
           /\ jobRow' = [jobRow EXCEPT ![j] = error[j]]
  <2>1. error[j] \in ErrorCodes
    BY <1>1, <1>4 DEF AtStep
  <2>2. Subject' = Subject /\ Verified' = Verified
    BY <1>1, <1>4, <2>1
       DEF Subject, Verified, tables, AtStep, ErrorCodes, CrossInv, CoreInv, TypeInv, TypeOK
  <2>3. CASE jobRow[j] = "open"
    <3>1. Ledger!Fail(j, error[j])
      BY <1>4, <2>2, <2>3 DEF Ledger!Fail, Subject, Verified
    <3>2. error[j] \in Ledger!Errors
      BY <2>1 DEF Ledger!Errors, ErrorCodes
    <3> QED
      BY <3>1, <3>2 DEF Ledger!Next
  <2>4. CASE jobRow[j] = "success" /\ error[j] = "internal_error"
    <3>1. Ledger!Retract(j)
      BY <1>4, <2>2, <2>4 DEF Ledger!Retract, Subject, Verified
    <3> QED
      BY <3>1 DEF Ledger!Next
  <2> QED
    BY <1>1, <1>4, <2>3, <2>4 DEF AtStep
<1> QED
  BY <1>1, <1>2, <1>3, <1>4 DEF Writes, jobRows, tables

\* The tables implement the ledger with cross-chain requests beside the others:
\* their transaction verifies and succeeds at once, and its lost reply is the
\* second way an outcome is retracted.
THEOREM CrossLedgerImplemented == CrossSpec => ImplementsLedger
<1>1. CrossInit => Ledger!Init
  BY DEF CrossInit, Init, Ledger!Init
<1>2. CrossInv /\ [CrossNext]_crossVars => [Ledger!Next]_(Ledger!vars)
  <2>1. ASSUME NEW j \in Jobs, AlertRejects(j) PROVE UNCHANGED (Ledger!vars)
    BY <2>1 DEF AlertRejects, ProcessDies, jobRows, tables, Subject, Verified, Ledger!vars
  <2> QED
    BY <2>1, CrossCases, HandlerLedger, LedgerStep DEF CrossInv, BaseStep
<1> QED
  BY <1>1, <1>2, CrossInvariance, PTL DEF CrossSpec, ImplementsLedger, Ledger!Spec
=============================================================================
