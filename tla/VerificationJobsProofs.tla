---------------------- MODULE VerificationJobsProofs ----------------------
(***************************************************************************)
(* Theorems about VerificationJobs, for every set of jobs, contracts,      *)
(* compilations and exports and every number of faults, and about the      *)
(* comparison of matches they are stored by.                               *)
(***************************************************************************)
EXTENDS VerificationJobs, MCMatchStatus, TLAPS

-----------------------------------------------------------------------------
(* The comparison of matches: a strict order, which never lowers the level   *)
(* the API shows, and whose maximum is what the middleware asks for          *)

LEMMA ScoreValues ==
  \A status : Score(status) \in {0, 1, 2}
BY DEF Score

\* The comparison as an order on the pairs of scores.
LEMMA BetterIsProductOrder ==
  ASSUME NEW new, NEW existing
  PROVE  IsBetterVerification(new, existing) <=>
           /\ Score(new.creation) >= Score(existing.creation)
           /\ Score(new.runtime) >= Score(existing.runtime)
           /\ \/ Score(new.creation) > Score(existing.creation)
              \/ Score(new.runtime) > Score(existing.runtime)
<1> DEFINE nc == Score(new.creation)       nr == Score(new.runtime)
           ec == Score(existing.creation)  er == Score(existing.runtime)
<1>1. {nc, nr, ec, er} \subseteq {0, 1, 2}
  BY ScoreValues
<1> HIDE DEF nc, nr, ec, er
<1>2. (\/ nc - ec > 0 /\ nr - er >= 0
       \/ nr - er > 0 /\ nc - ec >= 0)
        <=> (nc >= ec /\ nr >= er /\ (nc > ec \/ nr > er))
  BY <1>1
<1> QED BY <1>2 DEF IsBetterVerification, StatusDiff, nc, nr, ec, er

LEMMA BetterIsTransitive ==
  ASSUME NEW a, NEW b, NEW c,
         IsBetterVerification(a, b), IsBetterVerification(b, c)
  PROVE  IsBetterVerification(a, c)
<1>1. \A m \in {a, b, c} : Score(m.creation) \in Int /\ Score(m.runtime) \in Int
  BY ScoreValues
<1> QED BY <1>1, BetterIsProductOrder

LEMMA BetterIsAsymmetric ==
  ASSUME NEW a, NEW b, IsBetterVerification(a, b)
  PROVE  ~ IsBetterVerification(b, a)
<1>1. \A m \in {a, b} : Score(m.creation) \in Int /\ Score(m.runtime) \in Int
  BY ScoreValues
<1> QED BY <1>1, BetterIsProductOrder

\* The level the API reports ranks as the better of the two scores.
LEMMA RankIsBestScore ==
  ASSUME NEW match
  PROVE  LevelRank(LevelOf(match)) =
           IF Score(match.creation) >= Score(match.runtime)
           THEN Score(match.creation) ELSE Score(match.runtime)
<1> DEFINE c == match.creation  r == match.runtime
<1>1. CASE "perfect" \in {c, r}
  <2>1. LevelOf(match) = "exact_match"
    BY <1>1 DEF LevelOf, TotalMatchLevel
  <2> QED BY <1>1, <2>1 DEF LevelRank, Score
<1>2. CASE "perfect" \notin {c, r} /\ "partial" \in {c, r}
  <2>1. LevelOf(match) = "match"
    BY <1>2 DEF LevelOf, TotalMatchLevel
  <2> QED BY <1>2, <2>1 DEF LevelRank, Score
<1>3. CASE "perfect" \notin {c, r} /\ "partial" \notin {c, r}
  <2>1. LevelOf(match) = "null"
    BY <1>3 DEF LevelOf, TotalMatchLevel
  <2> QED BY <1>3, <2>1 DEF LevelRank, Score
<1> QED BY <1>1, <1>2, <1>3

LEMMA BetterKeepsLevel ==
  ASSUME NEW new, NEW existing, IsBetterVerification(new, existing)
  PROVE  LevelRank(LevelOf(new)) >= LevelRank(LevelOf(existing))
<1>1. \A m \in {new, existing} :
        Score(m.creation) \in Int /\ Score(m.runtime) \in Int
  BY ScoreValues
<1> QED BY <1>1, BetterIsProductOrder, RankIsBestScore

LEMMA FullIsTopScore ==
  ASSUME NEW match
  PROVE  IsFullyVerified(match)
           <=> Score(match.creation) = 2 /\ Score(match.runtime) = 2
BY DEF IsFullyVerified, ToMatchLevel, Score

-----------------------------------------------------------------------------

ChainInv == /\ first \in MatchPairs /\ current \in MatchPairs
            /\ current # first => IsBetterVerification(current, first)

LEMMA ChainInvariance == ChainSpec => []ChainInv
<1>1. ChainInit => ChainInv
  BY DEF ChainInit, ChainInv
<1>2. ChainInv /\ [ChainNext]_chainVars => ChainInv'
  <2> SUFFICES ASSUME ChainInv, [ChainNext]_chainVars PROVE ChainInv'
    OBVIOUS
  <2>1. ASSUME NEW new \in MatchPairs, Replace(new)
        PROVE  ChainInv'
    <3>1. /\ current' = new /\ first' = first
          /\ IsBetterVerification(new, current)
      BY <2>1 DEF Replace
    <3>2. IsBetterVerification(new, first)
      BY <3>1, BetterIsTransitive DEF ChainInv
    <3> QED BY <3>1, <3>2 DEF ChainInv
  <2>2. CASE UNCHANGED chainVars
    BY <2>2 DEF ChainInv, chainVars
  <2> QED BY <2>1, <2>2 DEF ChainNext
<1> QED BY <1>1, <1>2, PTL DEF ChainSpec

\* However long a chain of accepted replacements is, its last match improves on
\* its first and not the other way round, and its level is not lower.
THEOREM UpgradesNeverCircle == ChainSpec => []ChainImproves
<1>1. ChainInv => ChainImproves
  <2> SUFFICES ASSUME ChainInv PROVE ChainImproves
    OBVIOUS
  <2>1. CASE current = first
    <3>1. Score(first.creation) \in Int /\ Score(first.runtime) \in Int
      BY ScoreValues
    <3> QED BY <2>1, <3>1, RankIsBestScore DEF ChainImproves
  <2>2. CASE current # first
    <3>1. LevelRank(LevelOf(current)) >= LevelRank(LevelOf(first))
      BY <2>2, BetterKeepsLevel DEF ChainInv
    <3> QED BY <2>2, <3>1, BetterIsAsymmetric DEF ChainInv, ChainImproves
  <2> QED BY <2>1, <2>2
<1> QED BY <1>1, ChainInvariance, PTL

\* The middleware turns away exactly the requests no result of which the store
\* would take.
THEOREM GateIsMaximum == ChainSpec => []GateAgreesWithStore
<1>1. ChainInv => GateAgreesWithStore
  <2> SUFFICES ASSUME ChainInv PROVE GateAgreesWithStore
    OBVIOUS
  <2>1. ASSUME IsFullyVerified(current), NEW new \in MatchPairs
        PROVE  ~ IsBetterVerification(new, current)
    BY <2>1, FullIsTopScore, ScoreValues, BetterIsProductOrder
  <2>2. ASSUME ~ IsFullyVerified(current)
        PROVE  \E new \in MatchPairs : IsBetterVerification(new, current)
    <3> DEFINE best == [creation |-> "perfect", runtime |-> "perfect"]
    <3>1. /\ best \in MatchPairs
          /\ Score(best.creation) = 2 /\ Score(best.runtime) = 2
      BY DEF MatchPairs, Statuses, Score
    <3>2. /\ Score(current.creation) \in {0, 1, 2}
          /\ Score(current.runtime) \in {0, 1, 2}
          /\ ~ (Score(current.creation) = 2 /\ Score(current.runtime) = 2)
      BY <2>2, FullIsTopScore, ScoreValues
    <3> HIDE DEF best
    <3>3. IsBetterVerification(best, current)
      BY <3>1, <3>2, BetterIsProductOrder
    <3> QED BY <3>1, <3>3
  <2> QED BY <2>1, <2>2 DEF GateAgreesWithStore
<1> QED BY <1>1, ChainInvariance, PTL

LEMMA StatusesDiffer ==
  /\ "perfect" # "partial" /\ "null" \notin {"perfect", "partial"}
  /\ "extra-file-input-bug" \notin {"perfect", "partial"}
OBVIOUS

\* getMatchStatus and getTotalMatchLevel say the same of every pair.
THEOREM SummaryIsOne == ChainSpec => []SummariesAgree
<1>1. SummariesAgree
  <2>1. CASE "perfect" \in {current.creation, current.runtime}
    BY <2>1 DEF SummariesAgree, ToMatchLevel, MatchStatusOf, LevelOf, TotalMatchLevel
  <2>2. CASE /\ "perfect" \notin {current.creation, current.runtime}
             /\ "partial" \in {current.creation, current.runtime}
    BY <2>2, StatusesDiffer DEF SummariesAgree, ToMatchLevel, MatchStatusOf, LevelOf, TotalMatchLevel
  <2>3. CASE {current.creation, current.runtime} \cap {"partial", "perfect"} = {}
    BY <2>3, StatusesDiffer DEF SummariesAgree, ToMatchLevel, MatchStatusOf, LevelOf, TotalMatchLevel
  <2> QED BY <2>1, <2>2, <2>3
<1> QED BY <1>1, PTL

-----------------------------------------------------------------------------
(* The inductive invariant *)

NotStored  == {"new", "checkVerified", "listJobs", "checkRunning", "insertJob"}
InProgress == {"compile"} \cup StoreSteps

\* What the place a job has reached says about its memory and its row.
StepInv ==
  \A j \in Jobs :
    /\ pc[j] # "new" => contract[j] \in Contracts
    /\ pc[j] \in StoreSteps => result[j] \in Verifications
    /\ pc[j] = "setError" => error[j] \in ErrorCodes
    /\ pc[j] \in NotStored => jobRow[j] = "none"
    /\ pc[j] \in InProgress => jobRow[j] = "open"
    /\ pc[j] = "setError" =>
         jobRow[j] = "open" \/ (jobRow[j] = "success" /\ error[j] = "internal_error")
    /\ pc[j] = "addEphemeral" => jobRow[j] \in ErrorCodes
    /\ pc[j] = "settle" => jobRow[j] \in ErrorCodes \cup {"success"}

TypeInv == TypeOK /\ StepInv

LEMMA ResultRowIsRow ==
  ASSUME TypeInv, NEW j \in Jobs, pc[j] \in StoreSteps
  PROVE  ResultRow(j) \in Rows /\ result[j].compilation \in Compilations
BY VerificationsAssumption
   DEF TypeInv, TypeOK, StepInv, ResultRow, Rows, Exports, StoreSteps

LEMMA TypeInvInit == Init => TypeInv
BY BoundsAssumption DEF Init, TypeInv, TypeOK, StepInv, NotStored, InProgress, StoreSteps, ActiveSteps, RequestSteps, TaskSteps, ErrorSteps, FinalSteps, JobStates, ErrorCodes

\* A task starts for a job whose row is there.
StartsWell == \A j \in Jobs : pc[j] = "start" /\ pc'[j] = "compile" => jobRow[j] = "open"

LEMMA TypeInvNext ==
  ASSUME TypeInv, StartsWell, [Next]_vars PROVE TypeInv'
<1> USE BoundsAssumption DEF TypeInv, TypeOK, StepInv, NotStored, InProgress, StoreSteps, ActiveSteps, RequestSteps, TaskSteps, ErrorSteps, FinalSteps, JobStates, ErrorCodes, Goto, locals, jobRows, tables, budgets
<1>1. ASSUME NEW j \in Jobs, NEW c \in Contracts, Submit(j, c) PROVE TypeInv'
  BY <1>1 DEF Submit
<1>2. ASSUME NEW j \in Jobs, CheckIfAlreadyVerified(j) PROVE TypeInv'
  BY <1>2, ResultRowIsRow DEF CheckIfAlreadyVerified
<1>3. ASSUME NEW j \in Jobs, ListJobs(j) PROVE TypeInv'
  BY <1>3, ResultRowIsRow DEF ListJobs
<1>4. ASSUME NEW j \in Jobs, CheckIfJobIsAlreadyRunning(j) PROVE TypeInv'
  BY <1>4, ResultRowIsRow DEF CheckIfJobIsAlreadyRunning
<1>5. ASSUME NEW j \in Jobs, StoreVerificationJob(j) PROVE TypeInv'
  BY <1>5, ResultRowIsRow DEF StoreVerificationJob
<1>6. ASSUME NEW j \in Jobs, RunInBackground(j) PROVE TypeInv'
  <2>1. jobRow[j] = "open"
    BY <1>6 DEF RunInBackground, StartsWell
  <2> QED
    BY <1>6, <2>1, ResultRowIsRow DEF RunInBackground
<1>7. ASSUME NEW j \in Jobs, WorkerExports(j) PROVE TypeInv'
  BY <1>7, ResultRowIsRow DEF WorkerExports
<1>8. ASSUME NEW j \in Jobs, WorkerFails(j) PROVE TypeInv'
  BY <1>8, ResultRowIsRow DEF WorkerFails, Raise
<1>9. ASSUME NEW j \in Jobs, CheckMatch(j) PROVE TypeInv'
  BY <1>9, ResultRowIsRow DEF CheckMatch, Raise
<1>10. ASSUME NEW j \in Jobs, ReadRecord(j) PROVE TypeInv'
  BY <1>10 DEF ReadRecord, FirstRow, RowsOf, Rows
<1>11. ASSUME NEW j \in Jobs, WriteRecord(j) PROVE TypeInv'
  BY <1>11, ResultRowIsRow DEF WriteRecord, Raise, RecordWritten
<1>12. ASSUME NEW j \in Jobs, UpdateMatch(j) PROVE TypeInv'
  BY <1>12, ResultRowIsRow DEF UpdateMatch, Raise, MatchMoved
<1>13. ASSUME NEW j \in Jobs, InsertMatch(j) PROVE TypeInv'
  BY <1>13, ResultRowIsRow DEF InsertMatch, Raise, MatchInserted
<1>14. ASSUME NEW j \in Jobs, CompleteJob(j) PROVE TypeInv'
  BY <1>14, ResultRowIsRow DEF CompleteJob, JobSucceeded
<1>15. ASSUME NEW j \in Jobs, SetJobError(j) PROVE TypeInv'
  BY <1>15, ResultRowIsRow DEF SetJobError
<1>16. ASSUME NEW j \in Jobs, InsertEphemeral(j) PROVE TypeInv'
  BY <1>16, ResultRowIsRow DEF InsertEphemeral
<1>17. ASSUME NEW j \in Jobs, Settle(j) PROVE TypeInv'
  BY <1>17, ResultRowIsRow DEF Settle
<1>18. ASSUME NEW j \in Jobs, StatementFails(j) PROVE TypeInv'
  BY <1>18, ResultRowIsRow DEF StatementFails, Raise
<1>19. ASSUME NEW j \in Jobs, RequestFails(j) PROVE TypeInv'
  BY <1>19, ResultRowIsRow DEF RequestFails
<1>20. ASSUME NEW j \in Jobs, ReplyLost(j) PROVE TypeInv'
  <2>1. CASE Raise(j, "writeRecord", "internal_error") /\ RecordWritten(j) /\ UNCHANGED jobRows
    BY <1>20, <2>1, ResultRowIsRow DEF ReplyLost, Raise, RecordWritten
  <2>2. CASE Raise(j, "updateMatch", "internal_error") /\ MatchMoved(j) /\ UNCHANGED jobRows
    BY <1>20, <2>2, ResultRowIsRow DEF ReplyLost, Raise, MatchMoved
  <2>3. CASE Raise(j, "insertMatch", "internal_error") /\ MatchInserted(j) /\ UNCHANGED jobRows
    BY <1>20, <2>3, ResultRowIsRow DEF ReplyLost, Raise, MatchInserted
  <2>4. CASE Raise(j, "completeJob", "internal_error") /\ JobSucceeded(j) /\ UNCHANGED tables
    BY <1>20, <2>4, ResultRowIsRow DEF ReplyLost, Raise, JobSucceeded
  <2> QED
    BY <1>20, <2>1, <2>2, <2>3, <2>4 DEF ReplyLost
<1>21. ASSUME NEW j \in Jobs, InsertReplyLost(j) PROVE TypeInv'
  BY <1>21, ResultRowIsRow DEF InsertReplyLost
<1>22. ASSUME NEW j \in Jobs, BookkeepingFails(j) PROVE TypeInv'
  BY <1>22 DEF BookkeepingFails, ProcessDies, Active
<1>23. ASSUME Crash PROVE TypeInv'
  BY <1>23 DEF Crash, ProcessDies, Active
<1>24. ASSUME Restart PROVE TypeInv'
  BY <1>24 DEF Restart
<1>25. ASSUME Shutdown PROVE TypeInv'
  BY <1>25 DEF Shutdown
<1>26. ASSUME DestroyPool PROVE TypeInv'
  BY <1>26 DEF DestroyPool
<1>27. ASSUME Exit PROVE TypeInv'
  BY <1>27 DEF Exit
<1>28. ASSUME UNCHANGED vars PROVE TypeInv'
  BY <1>28 DEF vars
<1> QED
  BY <1>1, <1>2, <1>3, <1>4, <1>5, <1>6, <1>7, <1>8, <1>9, <1>10, <1>11, <1>12, <1>13, <1>14, <1>15, <1>16, <1>17, <1>18, <1>19, <1>20, <1>21, <1>22, <1>23, <1>24, <1>25, <1>26, <1>27, <1>28 DEF Next, RequestStep, WorkerReturns, TaskStep, StatementTrouble, ProcessStep

-----------------------------------------------------------------------------
(* Every step, seen from the tables and from one job *)

\* The tables change only by the three writes of a task that holds a result.
LEMMA TableChanges ==
  ASSUME [Next]_vars
  PROVE  \/ UNCHANGED tables
         \/ \E j \in Jobs : \/ pc[j] = "writeRecord" /\ RecordWritten(j)
                            \/ pc[j] = "updateMatch" /\ MatchMoved(j)
                            \/ pc[j] = "insertMatch" /\ MatchInserted(j)
<1> USE DEF Goto, Raise, tables
<1>1. ASSUME NEW j \in Jobs, NEW c \in Contracts, Submit(j, c) PROVE UNCHANGED tables
  BY <1>1 DEF Submit
<1>2. ASSUME NEW j \in Jobs, RequestStep(j) PROVE UNCHANGED tables
  BY <1>2 DEF RequestStep, CheckIfAlreadyVerified, ListJobs,
     CheckIfJobIsAlreadyRunning, StoreVerificationJob, RunInBackground
<1>3. ASSUME NEW j \in Jobs, WorkerReturns(j) PROVE UNCHANGED tables
  BY <1>3 DEF WorkerReturns, WorkerExports, WorkerFails
<1>4. ASSUME NEW j \in Jobs, TaskStep(j)
      PROVE  \/ UNCHANGED tables
             \/ pc[j] = "writeRecord" /\ RecordWritten(j)
             \/ pc[j] = "updateMatch" /\ MatchMoved(j)
             \/ pc[j] = "insertMatch" /\ MatchInserted(j)
  BY <1>4 DEF TaskStep, CheckMatch, ReadRecord, WriteRecord, UpdateMatch,
     InsertMatch, CompleteJob, SetJobError, InsertEphemeral, Settle
<1>5. ASSUME NEW j \in Jobs, StatementTrouble(j)
      PROVE  \/ UNCHANGED tables
             \/ pc[j] = "writeRecord" /\ RecordWritten(j)
             \/ pc[j] = "updateMatch" /\ MatchMoved(j)
             \/ pc[j] = "insertMatch" /\ MatchInserted(j)
  BY <1>5 DEF StatementTrouble, StatementFails, RequestFails, ReplyLost,
     InsertReplyLost, BookkeepingFails, ProcessDies
<1>6. ASSUME ProcessStep PROVE UNCHANGED tables
  BY <1>6 DEF ProcessStep, Crash, ProcessDies, Restart, Shutdown, DestroyPool, Exit
<1>7. ASSUME UNCHANGED vars PROVE UNCHANGED tables
  BY <1>7 DEF vars
<1> QED
  BY <1>1, <1>2, <1>3, <1>4, <1>5, <1>6, <1>7 DEF Next

\* No step empties the matches of a contract or drops a verified contract.
LEMMA RowsStay ==
  ASSUME TypeInv, [Next]_vars
  PROVE  /\ \A c : RowsOf(matches, c) # {} => RowsOf(matches', c) # {}
         /\ \A c, k : RowOf(records, c, k) # {} => RowOf(records', c, k) # {}
<1> USE DEF RowsOf, RowOf
<1>1. CASE UNCHANGED tables
  BY <1>1 DEF tables
<1>2. ASSUME NEW j \in Jobs, RecordWritten(j)
      PROVE  /\ matches' = matches
             /\ \A c, k : RowOf(records, c, k) # {} => RowOf(records', c, k) # {}
  <2>1. /\ matches' = matches
        /\ ResultRow(j) \in RowOf(records', contract[j], result[j].compilation)
    BY <1>2 DEF RecordWritten, ResultRow
  <2>2. ASSUME NEW c, NEW k, NEW row \in RowOf(records, c, k)
        PROVE  RowOf(records', c, k) # {}
    BY <1>2, <2>1 DEF RecordWritten
  <2> QED
    BY <2>1, <2>2
<1>3. ASSUME NEW j \in Jobs, MatchMoved(j)
      PROVE  /\ records' = records
             /\ \A c : RowsOf(matches, c) # {} => RowsOf(matches', c) # {}
  <2>1. records' = records /\ ResultRow(j) \in RowsOf(matches', contract[j])
    BY <1>3 DEF MatchMoved, ResultRow
  <2>2. ASSUME NEW c, NEW row \in RowsOf(matches, c)
        PROVE  RowsOf(matches', c) # {}
    BY <1>3, <2>1 DEF MatchMoved, MatchToUpdate
  <2> QED
    BY <2>1, <2>2
<1>4. ASSUME NEW j \in Jobs, MatchInserted(j)
      PROVE  /\ records' = records
             /\ \A c : RowsOf(matches, c) # {} => RowsOf(matches', c) # {}
  BY <1>4 DEF MatchInserted
<1> QED
  BY <1>1, <1>2, <1>3, <1>4, TableChanges

\* A job past the write of its record keeps its contract and result, and
\* reaches each step only through the write before it.
Advance(j) ==
  /\ contract'[j] = contract[j] /\ result'[j] = result[j]
  /\ \/ pc[j] = pc'[j]
     \/ pc[j] = "writeRecord" /\ RecordWritten(j) /\ pc'[j] # "completeJob"
     \/ pc[j] = "updateMatch" /\ pc'[j] = "insertMatch"
     \/ /\ pc[j] \in {"updateMatch", "insertMatch"} /\ pc'[j] = "completeJob"
        /\ MatchMoved(j) \/ MatchInserted(j)

LEMMA PastRecord ==
  ASSUME TypeInv, [Next]_vars, NEW j \in Jobs,
         pc'[j] \in {"updateMatch", "insertMatch", "completeJob"}
  PROVE  Advance(j)
<1> USE DEF TypeInv, TypeOK, Goto, Raise, locals, Advance
<1>1. ASSUME NEW i \in Jobs, NEW c \in Contracts, Submit(i, c) PROVE Advance(j)
  BY <1>1 DEF Submit
<1>2. ASSUME NEW i \in Jobs, RequestStep(i) PROVE Advance(j)
  BY <1>2 DEF RequestStep, CheckIfAlreadyVerified, ListJobs,
     CheckIfJobIsAlreadyRunning, StoreVerificationJob, RunInBackground
<1>3. ASSUME NEW i \in Jobs, WorkerReturns(i) PROVE Advance(j)
  BY <1>3 DEF WorkerReturns, WorkerExports, WorkerFails
<1>4. ASSUME NEW i \in Jobs, TaskStep(i) PROVE Advance(j)
  BY <1>4 DEF TaskStep, CheckMatch, ReadRecord, WriteRecord, UpdateMatch,
     InsertMatch, CompleteJob, SetJobError, InsertEphemeral, Settle
<1>5. ASSUME NEW i \in Jobs, StatementTrouble(i) PROVE Advance(j)
  BY <1>5 DEF StatementTrouble, StatementFails, RequestFails, ReplyLost,
     InsertReplyLost, BookkeepingFails, ProcessDies, Active, ActiveSteps,
     RequestSteps, TaskSteps, StoreSteps, ErrorSteps
<1>6. ASSUME ProcessStep PROVE Advance(j)
  BY <1>6 DEF ProcessStep, Crash, ProcessDies, Restart, Shutdown, DestroyPool,
     Exit, Active, ActiveSteps, RequestSteps, TaskSteps, StoreSteps, ErrorSteps
<1>7. ASSUME UNCHANGED vars PROVE Advance(j)
  BY <1>7 DEF vars
<1> QED
  BY <1>1, <1>2, <1>3, <1>4, <1>5, <1>6, <1>7 DEF Next

\* How the row of a job may change, and what is then known of the job.
RowChange(j) ==
  \/ jobRow'[j] = jobRow[j] /\ jobRecord'[j] = jobRecord[j]
  \/ /\ pc[j] = "insertJob" /\ jobRow'[j] = "open"
  \/ /\ pc[j] = "completeJob" /\ jobRow'[j] = "success"
     /\ jobRecord'[j] = result[j].compilation
  \/ /\ pc[j] = "setError" /\ jobRow'[j] = error[j]

LEMMA JobRowChanges ==
  ASSUME TypeInv, [Next]_vars, NEW j \in Jobs
  PROVE  RowChange(j) /\ (jobRow'[j] # "none" => contract'[j] = contract[j])
<1> DEFINE Goal == RowChange(j) /\ (jobRow'[j] # "none" => contract'[j] = contract[j])
<1> USE DEF TypeInv, TypeOK, StepInv, NotStored, Goto, Raise, locals, jobRows, RowChange
<1>1. ASSUME NEW i \in Jobs, NEW c \in Contracts, Submit(i, c) PROVE Goal
  BY <1>1 DEF Submit
<1>2. ASSUME NEW i \in Jobs, RequestStep(i) PROVE Goal
  BY <1>2 DEF RequestStep, CheckIfAlreadyVerified, ListJobs,
     CheckIfJobIsAlreadyRunning, StoreVerificationJob, RunInBackground
<1>3. ASSUME NEW i \in Jobs, WorkerReturns(i) PROVE Goal
  BY <1>3 DEF WorkerReturns, WorkerExports, WorkerFails
<1>4. ASSUME NEW i \in Jobs, TaskStep(i) PROVE Goal
  BY <1>4 DEF TaskStep, CheckMatch, ReadRecord, WriteRecord, UpdateMatch,
     InsertMatch, CompleteJob, JobSucceeded, SetJobError, InsertEphemeral, Settle
<1>5. ASSUME NEW i \in Jobs, StatementTrouble(i) PROVE Goal
  BY <1>5 DEF StatementTrouble, StatementFails, RequestFails, ReplyLost,
     JobSucceeded, InsertReplyLost, BookkeepingFails, ProcessDies
<1>6. ASSUME ProcessStep PROVE Goal
  BY <1>6 DEF ProcessStep, Crash, ProcessDies, Restart, Shutdown, DestroyPool, Exit
<1>7. ASSUME UNCHANGED vars PROVE Goal
  BY <1>7 DEF vars
<1> QED
  BY <1>1, <1>2, <1>3, <1>4, <1>5, <1>6, <1>7 DEF Next

-----------------------------------------------------------------------------
(* The safety invariants *)

\* What a task that has written its record, or its match, can rely on, though
\* other tasks write the same tables in between.
WrittenInv ==
  \A j \in Jobs :
    /\ pc[j] \in {"updateMatch", "insertMatch", "completeJob"} =>
         RowOf(records, contract[j], result[j].compilation) # {}
    /\ pc[j] = "completeJob" => RowsOf(matches, contract[j]) # {}

CoreInv == TypeInv /\ WrittenInv /\ SuccessIsBacked /\ MatchesAreRecorded
             /\ DetailsBelongToErrors

\* The row of a job is written before its task can start.
StartInv == \A j \in Jobs : pc[j] = "start" => jobRow[j] = "open"

Inv == CoreInv /\ StartInv

LEMMA WrittenInvNext ==
  ASSUME TypeInv, WrittenInv, [Next]_vars PROVE WrittenInv'
<1> SUFFICES ASSUME NEW j \in Jobs,
                    pc'[j] \in {"updateMatch", "insertMatch", "completeJob"}
             PROVE  /\ RowOf(records', contract'[j], result'[j].compilation) # {}
                    /\ pc'[j] = "completeJob" => RowsOf(matches', contract'[j]) # {}
  BY DEF WrittenInv, RowOf, RowsOf
<1> DEFINE Goal == /\ RowOf(records', contract[j], result[j].compilation) # {}
                   /\ pc'[j] = "completeJob" => RowsOf(matches', contract[j]) # {}
<1>1. Advance(j)
  BY PastRecord
<1> SUFFICES Goal
  BY <1>1 DEF Advance
<1>2. CASE pc[j] = pc'[j]
  BY <1>2, RowsStay DEF WrittenInv
<1>3. CASE pc[j] = "writeRecord" /\ RecordWritten(j) /\ pc'[j] # "completeJob"
  <2>1. ResultRow(j) \in RowOf(records', contract[j], result[j].compilation)
    BY <1>3 DEF RecordWritten, RowOf, RowsOf, ResultRow
  <2> QED
    BY <1>3, <2>1
<1>4. CASE pc[j] = "updateMatch" /\ pc'[j] = "insertMatch"
  BY <1>4, RowsStay DEF WrittenInv
<1>5. CASE /\ pc[j] \in {"updateMatch", "insertMatch"} /\ pc'[j] = "completeJob"
           /\ MatchMoved(j) \/ MatchInserted(j)
  <2>1. RowOf(records', contract[j], result[j].compilation) # {}
    BY <1>5, RowsStay DEF WrittenInv
  <2>2. ResultRow(j) \in RowsOf(matches', contract[j])
    BY <1>5 DEF MatchMoved, MatchInserted, RowsOf, ResultRow
  <2> QED
    BY <2>1, <2>2
<1> QED
  BY <1>1, <1>2, <1>3, <1>4, <1>5 DEF Advance

LEMMA SuccessIsBackedNext ==
  ASSUME TypeInv, WrittenInv, SuccessIsBacked, [Next]_vars PROVE SuccessIsBacked'
<1> SUFFICES ASSUME NEW j \in Jobs, jobRow'[j] = "success"
             PROVE  /\ RowsOf(matches', contract[j]) # {}
                    /\ RowOf(records', contract[j], jobRecord'[j]) # {}
  BY JobRowChanges DEF SuccessIsBacked, RowOf, RowsOf
<1>1. RowChange(j)
  BY JobRowChanges
<1>2. CASE jobRow'[j] = jobRow[j] /\ jobRecord'[j] = jobRecord[j]
  BY <1>2, RowsStay DEF SuccessIsBacked
<1>3. CASE pc[j] = "completeJob" /\ jobRecord'[j] = result[j].compilation
  BY <1>3, RowsStay DEF WrittenInv
<1>4. ~ (pc[j] = "setError" /\ jobRow'[j] = error[j])
  BY DEF TypeInv, StepInv, ErrorCodes
<1> QED
  BY <1>1, <1>2, <1>3, <1>4 DEF RowChange

LEMMA MatchesAreRecordedNext ==
  ASSUME TypeInv, WrittenInv, MatchesAreRecorded, [Next]_vars
  PROVE  MatchesAreRecorded'
<1> SUFFICES ASSUME NEW m \in matches'
             PROVE  RowOf(records', m.contract, m.compilation) # {}
  BY DEF MatchesAreRecorded, RowOf, RowsOf
<1>1. CASE m \in matches
  BY <1>1, RowsStay DEF MatchesAreRecorded
<1>2. CASE m \notin matches
  <2>1. PICK j \in Jobs : /\ pc[j] \in {"updateMatch", "insertMatch"}
                          /\ m = ResultRow(j)
    BY <1>2, TableChanges DEF tables, RecordWritten, MatchMoved, MatchInserted
  <2> QED
    BY <2>1, RowsStay DEF WrittenInv, ResultRow
<1> QED
  BY <1>1, <1>2

\* The details of an error are written only after the error itself.
LEMMA EphemeralChanges ==
  ASSUME TypeInv, [Next]_vars, NEW j \in Jobs, j \in ephemeral' \ ephemeral
  PROVE  pc[j] = "addEphemeral" /\ jobRow'[j] = jobRow[j]
<1> USE DEF Goto, Raise, jobRows
<1>1. ASSUME NEW i \in Jobs, NEW c \in Contracts, Submit(i, c) PROVE FALSE
  BY <1>1 DEF Submit
<1>2. ASSUME NEW i \in Jobs, RequestStep(i) PROVE FALSE
  BY <1>2 DEF RequestStep, CheckIfAlreadyVerified, ListJobs,
     CheckIfJobIsAlreadyRunning, StoreVerificationJob, RunInBackground
<1>3. ASSUME NEW i \in Jobs, WorkerReturns(i) PROVE FALSE
  BY <1>3 DEF WorkerReturns, WorkerExports, WorkerFails
<1>4. ASSUME NEW i \in Jobs, TaskStep(i)
      PROVE  pc[j] = "addEphemeral" /\ jobRow'[j] = jobRow[j]
  BY <1>4 DEF TaskStep, CheckMatch, ReadRecord, WriteRecord, UpdateMatch,
     InsertMatch, CompleteJob, JobSucceeded, SetJobError, InsertEphemeral, Settle
<1>5. ASSUME NEW i \in Jobs, StatementTrouble(i) PROVE FALSE
  BY <1>5 DEF StatementTrouble, StatementFails, RequestFails, ReplyLost,
     JobSucceeded, InsertReplyLost, BookkeepingFails, ProcessDies
<1>6. ASSUME ProcessStep PROVE FALSE
  BY <1>6 DEF ProcessStep, Crash, ProcessDies, Restart, Shutdown, DestroyPool, Exit
<1>7. ASSUME UNCHANGED vars PROVE FALSE
  BY <1>7 DEF vars
<1> QED
  BY <1>1, <1>2, <1>3, <1>4, <1>5, <1>6, <1>7 DEF Next

LEMMA DetailsBelongToErrorsNext ==
  ASSUME TypeInv, DetailsBelongToErrors, [Next]_vars, TypeInv'
  PROVE  DetailsBelongToErrors'
<1> SUFFICES ASSUME NEW j \in ephemeral' PROVE jobRow'[j] \in ErrorCodes
  BY DEF DetailsBelongToErrors
<1>1. j \in Jobs
  BY DEF TypeInv, TypeOK
<1>2. CASE j \in ephemeral
  <2>1. jobRow[j] \in ErrorCodes
    BY <1>2 DEF DetailsBelongToErrors
  <2>2. pc[j] \notin {"insertJob", "completeJob"}
    BY <1>1, <2>1 DEF TypeInv, StepInv, NotStored, InProgress, StoreSteps, ErrorCodes
  <2> QED
    BY <1>1, <2>1, <2>2, JobRowChanges DEF RowChange, TypeInv, StepInv
<1>3. CASE j \notin ephemeral
  BY <1>1, <1>3, EphemeralChanges DEF TypeInv, StepInv
<1> QED
  BY <1>2, <1>3

LEMMA CoreInvNext ==
  ASSUME CoreInv, StartsWell, [Next]_vars PROVE CoreInv'
<1>1. TypeInv'
  BY TypeInvNext DEF CoreInv
<1> QED
  BY <1>1, WrittenInvNext, SuccessIsBackedNext, MatchesAreRecordedNext,
     DetailsBelongToErrorsNext DEF CoreInv

\* A job that is about to start has just got its row, or waits with all it has.
Waits(i) ==
  \/ pc[i] = "insertJob" /\ jobRow'[i] = "open"
  \/ pc[i] = "start" /\ jobRow'[i] = jobRow[i] /\ error'[i] = error[i]

LEMMA StartStep ==
  ASSUME TypeInv, [Next]_vars, NEW i \in Jobs, pc'[i] = "start"
  PROVE  Waits(i)
<1> USE DEF TypeInv, TypeOK, Goto, Raise, locals, jobRows, Waits
<1>1. ASSUME NEW j \in Jobs, NEW c \in Contracts, Submit(j, c) PROVE Waits(i)
  BY <1>1 DEF Submit
<1>2. ASSUME NEW j \in Jobs, RequestStep(j) PROVE Waits(i)
  BY <1>2 DEF RequestStep, CheckIfAlreadyVerified, ListJobs,
     CheckIfJobIsAlreadyRunning, StoreVerificationJob, RunInBackground
<1>3. ASSUME NEW j \in Jobs, WorkerReturns(j) PROVE Waits(i)
  BY <1>3 DEF WorkerReturns, WorkerExports, WorkerFails
<1>4. ASSUME NEW j \in Jobs, TaskStep(j) PROVE Waits(i)
  BY <1>4 DEF TaskStep, CheckMatch, ReadRecord, WriteRecord, UpdateMatch,
     InsertMatch, CompleteJob, JobSucceeded, SetJobError, InsertEphemeral, Settle
<1>5. ASSUME NEW j \in Jobs, StatementTrouble(j) PROVE Waits(i)
  BY <1>5 DEF StatementTrouble, StatementFails, RequestFails, ReplyLost,
     JobSucceeded, InsertReplyLost, BookkeepingFails, ProcessDies, Active,
     ActiveSteps, RequestSteps, StoreSteps
<1>6. ASSUME ProcessStep PROVE Waits(i)
  BY <1>6 DEF ProcessStep, Crash, ProcessDies, Restart, Shutdown, DestroyPool,
     Exit, Active, ActiveSteps, RequestSteps
<1>7. ASSUME UNCHANGED vars PROVE Waits(i)
  BY <1>7 DEF vars
<1> QED
  BY <1>1, <1>2, <1>3, <1>4, <1>5, <1>6, <1>7 DEF Next

LEMMA InvNext == Inv /\ [Next]_vars => Inv'
<1> SUFFICES ASSUME Inv, [Next]_vars PROVE Inv'
  OBVIOUS
<1>1. StartsWell
  BY DEF Inv, StartInv, StartsWell
<1>2. StartInv'
  BY StartStep DEF Inv, CoreInv, StartInv, Waits
<1> QED
  BY <1>1, <1>2, CoreInvNext DEF Inv

LEMMA InvInit == Init => Inv
<1> SUFFICES ASSUME Init PROVE Inv
  OBVIOUS
<1>1. TypeInv
  BY TypeInvInit
<1>2. WrittenInv /\ SuccessIsBacked /\ MatchesAreRecorded /\ DetailsBelongToErrors
  BY DEF Init, WrittenInv, SuccessIsBacked, MatchesAreRecorded, DetailsBelongToErrors
<1>3. StartInv
  BY DEF Init, StartInv
<1> QED
  BY <1>1, <1>2, <1>3 DEF Inv, CoreInv

THEOREM Invariance == Spec => []Inv
BY InvInit, InvNext, PTL DEF Spec

\* Every variable stays within its type in every behaviour of the program.
THEOREM TypeCorrect == Spec => []TypeOK
BY Invariance, PTL DEF Inv, CoreInv, TypeInv

\* A successful job always has its verified contract and its contract a match:
\* no interleaving of tasks and no fault takes them away.
THEOREM SuccessBacked == Spec => []SuccessIsBacked
BY Invariance, PTL DEF Inv, CoreInv

\* No match is ever left without the verified contract it points at.
THEOREM MatchesRecorded == Spec => []MatchesAreRecorded
BY Invariance, PTL DEF Inv, CoreInv

\* The details of a failure only ever belong to a job that failed.
THEOREM DetailsOfErrors == Spec => []DetailsBelongToErrors
BY Invariance, PTL DEF Inv, CoreInv

-----------------------------------------------------------------------------
(* Open rows and running tasks *)

LEMMA OrphanOnlyByFaultNext ==
  ASSUME TypeInv, OrphanOnlyByFault, [Next]_vars,
         failures' \in Nat, lostReplies' \in Nat, crashes' \in Nat
  PROVE  OrphanOnlyByFault'
<1> SUFFICES ASSUME failures' + lostReplies' + crashes' = 0,
                    NEW j \in Jobs, jobRow'[j] = "open"
             PROVE  pc'[j] \in {"start"} \cup TaskSteps
  BY DEF OrphanOnlyByFault
<1>0. /\ failures \in Nat /\ lostReplies \in Nat /\ crashes \in Nat
      /\ failures' = 0 /\ lostReplies' = 0 /\ crashes' = 0
  <2>1. failures \in Nat /\ lostReplies \in Nat /\ crashes \in Nat
    BY BoundsAssumption DEF TypeInv, TypeOK
  <2>3. \A a, b, c \in Nat : a + b + c = 0 => a = 0 /\ b = 0 /\ c = 0
    OBVIOUS
  <2> QED
    BY <2>1, <2>3
<1> USE DEF TypeInv, TypeOK, StepInv, NotStored, InProgress, StoreSteps,
    TaskSteps, ErrorSteps, ErrorCodes, Goto, Raise, locals, jobRows, budgets,
    OrphanOnlyByFault
<1>1. ASSUME NEW i \in Jobs, NEW c \in Contracts, Submit(i, c)
      PROVE  pc'[j] \in {"start"} \cup TaskSteps
  BY <1>1 DEF Submit
<1>2. ASSUME NEW i \in Jobs, RequestStep(i)
      PROVE  pc'[j] \in {"start"} \cup TaskSteps
  <2>1. CASE CheckIfAlreadyVerified(i)
    BY <2>1 DEF CheckIfAlreadyVerified
  <2>2. CASE ListJobs(i)
    BY <2>2 DEF ListJobs
  <2>3. CASE CheckIfJobIsAlreadyRunning(i)
    BY <2>3 DEF CheckIfJobIsAlreadyRunning
  <2>4. CASE StoreVerificationJob(i)
    BY <2>4 DEF StoreVerificationJob
  <2>5. CASE RunInBackground(i)
    BY <2>5 DEF RunInBackground
  <2> QED
    BY ONLY <1>2, <2>1, <2>2, <2>3, <2>4, <2>5 DEF RequestStep
<1>3. ASSUME NEW i \in Jobs, WorkerReturns(i)
      PROVE  pc'[j] \in {"start"} \cup TaskSteps
  <2>1. CASE WorkerExports(i)
    BY <2>1 DEF WorkerExports
  <2>2. CASE WorkerFails(i)
    BY <2>2 DEF WorkerFails
  <2> QED
    BY ONLY <1>3, <2>1, <2>2 DEF WorkerReturns
<1>4. ASSUME NEW i \in Jobs, TaskStep(i)
      PROVE  pc'[j] \in {"start"} \cup TaskSteps
  <2>1. CASE CheckMatch(i)
    BY <2>1 DEF CheckMatch
  <2>2. CASE ReadRecord(i)
    BY <2>2 DEF ReadRecord
  <2>3. CASE WriteRecord(i)
    BY <2>3 DEF WriteRecord
  <2>4. CASE UpdateMatch(i)
    BY <2>4 DEF UpdateMatch
  <2>5. CASE InsertMatch(i)
    BY <2>5 DEF InsertMatch
  <2>6. CASE CompleteJob(i)
    BY <2>6 DEF CompleteJob, JobSucceeded
  <2>7. CASE SetJobError(i)
    BY <2>7 DEF SetJobError
  <2>8. CASE InsertEphemeral(i)
    BY <2>8 DEF InsertEphemeral
  <2>9. CASE Settle(i)
    BY <2>9 DEF Settle
  <2> QED
    BY ONLY <1>4, <2>1, <2>2, <2>3, <2>4, <2>5, <2>6, <2>7, <2>8, <2>9 DEF TaskStep
<1>5. ASSUME NEW i \in Jobs, StatementTrouble(i) PROVE FALSE
  BY <1>0, <1>5 DEF StatementTrouble, StatementFails,
     RequestFails, ReplyLost, InsertReplyLost, BookkeepingFails
<1>6. ASSUME ProcessStep PROVE pc'[j] \in {"start"} \cup TaskSteps
  <2>1. ~ Crash
    BY <1>0 DEF Crash
  <2>2. CASE Restart
    BY <2>2 DEF Restart
  <2>3. CASE Shutdown
    BY <2>3 DEF Shutdown
  <2>4. CASE DestroyPool
    BY <2>4 DEF DestroyPool
  <2>5. CASE Exit
    BY <2>5 DEF Exit
  <2> QED
    BY ONLY <1>6, <2>1, <2>2, <2>3, <2>4, <2>5 DEF ProcessStep
<1>7. ASSUME UNCHANGED vars PROVE pc'[j] \in {"start"} \cup TaskSteps
  BY <1>7 DEF vars
<1> QED
  BY <1>1, <1>2, <1>3, <1>4, <1>5, <1>6, <1>7 DEF Next

\* Without faults every open row has a task, or is about to get one: nothing
\* but a fault, and no shutdown, can leave a job open for ever.
THEOREM OrphansNeedFaults == Spec => []OrphanOnlyByFault
<1>1. Init => OrphanOnlyByFault
  BY DEF Init, OrphanOnlyByFault
<1>2. Inv /\ OrphanOnlyByFault /\ [Next]_vars => OrphanOnlyByFault'
  <2> SUFFICES ASSUME Inv, OrphanOnlyByFault, [Next]_vars PROVE OrphanOnlyByFault'
    OBVIOUS
  <2>1. failures' \in Nat /\ lostReplies' \in Nat /\ crashes' \in Nat
    BY InvNext, BoundsAssumption DEF Inv, CoreInv, TypeInv, TypeOK
  <2> QED
    BY <2>1, OrphanOnlyByFaultNext DEF Inv, CoreInv
<1> QED
  BY <1>1, <1>2, Invariance, PTL DEF Spec

\* The set isRunning consults names only jobs with a task, and the lists the
\* middleware compares it with only jobs of the same contract.
RunningInv ==
  /\ \A k \in runningTaskIds : pc[k] \in TaskSteps
  /\ \A j \in Jobs : \A k \in openJobs[j] :
       pc[j] # "new" /\ pc[k] # "new" /\ contract[k] = contract[j]

LEMMA RunningInvNext ==
  ASSUME TypeInv, RunningInv, [Next]_vars PROVE RunningInv'
<1> USE DEF TypeInv, TypeOK, RunningInv, StoreSteps, TaskSteps, ErrorSteps,
    Goto, Raise, locals
<1>1. ASSUME NEW i \in Jobs, NEW c \in Contracts, Submit(i, c) PROVE RunningInv'
  BY <1>1 DEF Submit
<1>2. ASSUME NEW i \in Jobs, RequestStep(i) PROVE RunningInv'
  <2>1. CASE ListJobs(i)
    BY <2>1 DEF ListJobs, StepInv, NotStored
  <2>2. CASE CheckIfJobIsAlreadyRunning(i)
    BY <2>2 DEF CheckIfJobIsAlreadyRunning
  <2>3. CASE CheckIfAlreadyVerified(i) \/ StoreVerificationJob(i) \/ RunInBackground(i)
    BY <2>3 DEF CheckIfAlreadyVerified, StoreVerificationJob, RunInBackground
  <2> QED
    BY <1>2, <2>1, <2>2, <2>3 DEF RequestStep
<1>3. ASSUME NEW i \in Jobs, WorkerReturns(i) PROVE RunningInv'
  BY <1>3 DEF WorkerReturns, WorkerExports, WorkerFails
<1>4. ASSUME NEW i \in Jobs, TaskStep(i) PROVE RunningInv'
  BY <1>4 DEF TaskStep, CheckMatch, ReadRecord, WriteRecord, UpdateMatch,
     InsertMatch, CompleteJob, JobSucceeded, SetJobError, InsertEphemeral, Settle
<1>5. ASSUME NEW i \in Jobs, StatementTrouble(i) PROVE RunningInv'
  BY <1>5 DEF StatementTrouble, StatementFails, RequestFails, ReplyLost,
     JobSucceeded, InsertReplyLost, BookkeepingFails, ProcessDies
<1>6. ASSUME ProcessStep PROVE RunningInv'
  BY <1>6 DEF ProcessStep, Crash, ProcessDies, Restart, Shutdown, DestroyPool, Exit
<1>7. ASSUME UNCHANGED vars PROVE RunningInv'
  BY <1>7 DEF vars
<1> QED
  BY <1>1, <1>2, <1>3, <1>4, <1>5, <1>6, <1>7 DEF Next

\* Only the middleware's own comparison turns a request away with 429.
LEMMA RejectionStep ==
  ASSUME TypeInv, [Next]_vars, NEW j \in Jobs,
         pc[j] = "checkRunning", pc'[j] = "rejected"
  PROVE  openJobs[j] \cap runningTaskIds # {}
<1> USE DEF TypeInv, TypeOK, Goto, Raise
<1>1. ASSUME NEW i \in Jobs, NEW c \in Contracts, Submit(i, c) PROVE FALSE
  BY <1>1 DEF Submit
<1>2. ASSUME NEW i \in Jobs, RequestStep(i)
      PROVE  openJobs[j] \cap runningTaskIds # {}
  BY <1>2 DEF RequestStep, CheckIfAlreadyVerified, ListJobs,
     CheckIfJobIsAlreadyRunning, StoreVerificationJob, RunInBackground
<1>3. ASSUME NEW i \in Jobs, WorkerReturns(i) PROVE FALSE
  BY <1>3 DEF WorkerReturns, WorkerExports, WorkerFails
<1>4. ASSUME NEW i \in Jobs, TaskStep(i) PROVE FALSE
  BY <1>4 DEF TaskStep, CheckMatch, ReadRecord, WriteRecord, UpdateMatch,
     InsertMatch, CompleteJob, SetJobError, InsertEphemeral, Settle
<1>5. ASSUME NEW i \in Jobs, StatementTrouble(i) PROVE FALSE
  BY <1>5 DEF StatementTrouble, StatementFails, RequestFails, ReplyLost,
     InsertReplyLost, BookkeepingFails, ProcessDies, StoreSteps
<1>6. ASSUME ProcessStep PROVE FALSE
  BY <1>6 DEF ProcessStep, Crash, ProcessDies, Restart, Shutdown, DestroyPool, Exit
<1>7. ASSUME UNCHANGED vars PROVE FALSE
  BY <1>7 DEF vars
<1> QED
  BY <1>1, <1>2, <1>3, <1>4, <1>5, <1>6, <1>7 DEF Next

\* A request is refused as a duplicate only while a task of its contract runs,
\* so a contract is never blocked by rows a dead process left open.
THEOREM RejectionIsJustified == Spec => RejectedOnlyWhileRunning
<1>1. Init => RunningInv
  BY DEF Init, RunningInv
<1>2. Inv /\ RunningInv /\ [Next]_vars => RunningInv'
  BY RunningInvNext DEF Inv, CoreInv
<1>3. Inv /\ RunningInv /\ [Next]_vars =>
        \A j \in Jobs : pc[j] = "checkRunning" /\ pc'[j] = "rejected" =>
          \E k \in Jobs : pc[k] \in TaskSteps /\ contract[k] = contract[j]
  BY RejectionStep DEF Inv, CoreInv, RunningInv, TypeInv, TypeOK
<1> QED
  BY <1>1, <1>2, <1>3, Invariance, PTL DEF Spec, RejectedOnlyWhileRunning

-----------------------------------------------------------------------------
(* The ledger *)

\* A step writes the row of one job or the tables, never both.
LEMMA OneWrite ==
  ASSUME TypeInv, [Next]_vars
  PROVE  \/ UNCHANGED jobRow
         \/ /\ UNCHANGED tables
            /\ \E j \in Jobs, row \in JobStates : jobRow' = [jobRow EXCEPT ![j] = row]
<1> DEFINE OneRow == \E j \in Jobs, row \in JobStates :
                        jobRow' = [jobRow EXCEPT ![j] = row]
<1> USE DEF Goto, Raise, jobRows, tables
<1>1. ASSUME NEW i \in Jobs, NEW c \in Contracts, Submit(i, c) PROVE UNCHANGED jobRow
  BY <1>1 DEF Submit
<1>2. ASSUME NEW i \in Jobs, RequestStep(i)
      PROVE  UNCHANGED jobRow \/ (UNCHANGED tables /\ OneRow)
  <2>1. CASE StoreVerificationJob(i)
    BY <2>1 DEF StoreVerificationJob, JobStates
  <2>2. ASSUME ~ StoreVerificationJob(i) PROVE UNCHANGED jobRow
    BY <1>2, <2>2 DEF RequestStep, CheckIfAlreadyVerified, ListJobs,
       CheckIfJobIsAlreadyRunning, RunInBackground
  <2> QED
    BY <2>1, <2>2
<1>3. ASSUME NEW i \in Jobs, WorkerReturns(i) PROVE UNCHANGED jobRow
  BY <1>3 DEF WorkerReturns, WorkerExports, WorkerFails
<1>4. ASSUME NEW i \in Jobs, TaskStep(i)
      PROVE  UNCHANGED jobRow \/ (UNCHANGED tables /\ OneRow)
  <2>1. CASE CompleteJob(i)
    BY <2>1 DEF CompleteJob, JobSucceeded, JobStates
  <2>2. CASE SetJobError(i)
    BY <2>2 DEF SetJobError, TypeInv, StepInv, JobStates
  <2>3. ASSUME ~ CompleteJob(i), ~ SetJobError(i) PROVE UNCHANGED jobRow
    BY <1>4, <2>3 DEF TaskStep, CheckMatch, ReadRecord, WriteRecord, UpdateMatch,
       InsertMatch, InsertEphemeral, Settle
  <2> QED
    BY <2>1, <2>2, <2>3
<1>5. ASSUME NEW i \in Jobs, StatementTrouble(i)
      PROVE  UNCHANGED jobRow \/ (UNCHANGED tables /\ OneRow)
  <2>1. CASE ReplyLost(i) /\ JobSucceeded(i) /\ UNCHANGED tables
    BY <2>1 DEF JobSucceeded, JobStates
  <2>2. CASE InsertReplyLost(i)
    BY <2>2 DEF InsertReplyLost, JobStates
  <2>3. ASSUME ~ InsertReplyLost(i),
               ~ (ReplyLost(i) /\ JobSucceeded(i) /\ UNCHANGED tables)
        PROVE  UNCHANGED jobRow
    BY <1>5, <2>3 DEF StatementTrouble, StatementFails, RequestFails, ReplyLost,
       BookkeepingFails, ProcessDies
  <2> QED
    BY <2>1, <2>2, <2>3
<1>6. ASSUME ProcessStep PROVE UNCHANGED jobRow
  BY <1>6 DEF ProcessStep, Crash, ProcessDies, Restart, Shutdown, DestroyPool, Exit
<1>7. ASSUME UNCHANGED vars PROVE UNCHANGED jobRow
  BY <1>7 DEF vars
<1> QED
  BY <1>1, <1>2, <1>3, <1>4, <1>5, <1>6, <1>7 DEF Next

Subject  == [j \in Jobs |-> IF jobRow[j] = "none" THEN None ELSE contract[j]]
Verified == {m.contract : m \in matches}

LEMMA LedgerTableStep ==
  ASSUME CoreInv, [Next]_vars, UNCHANGED jobRow
  PROVE  [Ledger!Next]_(Ledger!vars)
<1>1. Subject' = Subject
  BY JobRowChanges DEF CoreInv, Subject
<1>2. Verified' = Verified \/ \E c \in Contracts : Verified' = Verified \cup {c}
  <2>1. CASE UNCHANGED matches
    BY <2>1 DEF Verified
  <2>2. CASE \E j \in Jobs : pc[j] = "updateMatch" /\ MatchMoved(j)
    <3>1. PICK j \in Jobs : pc[j] = "updateMatch" /\ MatchMoved(j)
      BY <2>2
    <3>2. contract[j] \in Contracts /\ ResultRow(j).contract = contract[j]
      BY <3>1 DEF CoreInv, TypeInv, StepInv, ResultRow
    <3>3. matches' = (matches \ MatchToUpdate(j)) \cup {ResultRow(j)}
      BY <3>1 DEF MatchMoved
    <3>4. \A m \in MatchToUpdate(j) : m.contract = contract[j]
      BY DEF MatchToUpdate, RowOf, RowsOf
    <3>5. Verified' = Verified \cup {contract[j]}
      BY <3>1, <3>2, <3>3, <3>4 DEF Verified, MatchMoved, MatchToUpdate, RowOf, RowsOf
    <3> QED
      BY <3>2, <3>5
  <2>3. CASE \E j \in Jobs : pc[j] = "insertMatch" /\ MatchInserted(j)
    <3>1. PICK j \in Jobs : pc[j] = "insertMatch" /\ MatchInserted(j)
      BY <2>3
    <3>2. contract[j] \in Contracts /\ ResultRow(j).contract = contract[j]
      BY <3>1 DEF CoreInv, TypeInv, StepInv, ResultRow
    <3>3. Verified' = Verified \cup {contract[j]}
      BY <3>1, <3>2 DEF Verified, MatchInserted
    <3> QED
      BY <3>2, <3>3
  <2> QED
    BY <2>1, <2>2, <2>3, TableChanges DEF tables, RecordWritten
<1> QED
  BY <1>1, <1>2 DEF Ledger!Next, Ledger!vars, Ledger!Verify, Subject, Verified

LEMMA LedgerRowStep ==
  ASSUME CoreInv, [Next]_vars, UNCHANGED tables, NEW j \in Jobs, NEW row \in JobStates,
         jobRow' = [jobRow EXCEPT ![j] = row], jobRow'[j] # jobRow[j]
  PROVE  Ledger!Next
<1>1. Verified' = Verified
  BY DEF tables, Verified
<1>2. \A i \in Jobs \ {j} : Subject'[i] = Subject[i]
  BY JobRowChanges DEF CoreInv, TypeInv, TypeOK, Subject
<1>3. jobRow'[j] = row /\ row # "none"
  BY JobRowChanges DEF RowChange, CoreInv, TypeInv, TypeOK, StepInv, ErrorCodes
<1>4. contract'[j] = contract[j]
  BY <1>3, JobRowChanges DEF CoreInv
<1>5. jobRow[j] # "none" => Subject' = Subject
  BY <1>2, <1>3, <1>4 DEF Subject
<1>6. CASE pc[j] = "insertJob" /\ row = "open"
  <2>1. jobRow[j] = "none" /\ contract[j] \in Contracts
    BY <1>6 DEF CoreInv, TypeInv, StepInv, NotStored
  <2>2. PICK c \in Contracts : c = contract[j]
    BY <2>1
  <2>3. Subject' = [Subject EXCEPT ![j] = c]
    BY <1>2, <1>3, <1>4, <2>1, <2>2 DEF Subject
  <2>4. Ledger!Accept(j, c)
    BY <1>1, <1>6, <2>1, <2>3 DEF Ledger!Accept, Subject, Verified
  <2> QED
    BY <2>4 DEF Ledger!Next
<1>7. CASE pc[j] = "completeJob" /\ row = "success"
  <2>1. jobRow[j] = "open"
    BY <1>7 DEF CoreInv, TypeInv, StepInv, InProgress, StoreSteps
  <2>2. Subject[j] \in Verified
    BY <1>7, <2>1 DEF CoreInv, WrittenInv, RowsOf, Subject, Verified
  <2>3. Ledger!Succeed(j)
    BY <1>1, <1>5, <1>7, <2>1, <2>2 DEF Ledger!Succeed, Subject, Verified
  <2> QED
    BY <2>3 DEF Ledger!Next
<1>8. CASE pc[j] = "setError" /\ row = error[j]
  <2>1. error[j] \in Ledger!Errors
    BY <1>8 DEF CoreInv, TypeInv, StepInv, ErrorCodes, Ledger!Errors
  <2>2. CASE jobRow[j] = "open"
    <3>1. Ledger!Fail(j, error[j])
      BY <1>1, <1>5, <1>8, <2>2 DEF Ledger!Fail, Subject, Verified
    <3> QED
      BY <2>1, <3>1 DEF Ledger!Next
  <2>3. CASE jobRow[j] = "success" /\ error[j] = "internal_error"
    <3>1. Ledger!Retract(j)
      BY <1>1, <1>5, <1>8, <2>3 DEF Ledger!Retract, Subject, Verified
    <3> QED
      BY <3>1 DEF Ledger!Next
  <2> QED
    BY <1>8, <2>2, <2>3 DEF CoreInv, TypeInv, StepInv
<1> QED
  BY <1>3, <1>6, <1>7, <1>8, JobRowChanges DEF RowChange, CoreInv

LEMMA LedgerStep ==
  ASSUME CoreInv, [Next]_vars PROVE [Ledger!Next]_(Ledger!vars)
<1>1. CASE UNCHANGED jobRow
  BY <1>1, LedgerTableStep
<1>2. CASE jobRow' # jobRow
  <2>1. PICK j \in Jobs, row \in JobStates :
          UNCHANGED tables /\ jobRow' = [jobRow EXCEPT ![j] = row]
    BY <1>2, OneWrite DEF CoreInv
  <2>2. jobRow'[j] # jobRow[j]
    BY <1>2, <2>1 DEF CoreInv, TypeInv, TypeOK
  <2> QED
    BY <2>1, <2>2, LedgerRowStep
<1> QED
  BY <1>1, <1>2

\* The tables implement the ledger under every interleaving and every fault:
\* success only for a verified contract, a verified contract stays verified, an
\* outcome is final but for a success whose reply was lost.
THEOREM LedgerImplemented == Spec => ImplementsLedger
<1>1. Init => Ledger!Init
  BY DEF Init, Ledger!Init
<1>2. Inv /\ [Next]_vars => [Ledger!Next]_(Ledger!vars)
  BY LedgerStep DEF Inv
<1> QED
  BY <1>1, <1>2, Invariance, PTL DEF Spec, ImplementsLedger, Ledger!Spec

-----------------------------------------------------------------------------
(* Requests for a contract that do not overlap, and no faults *)

Total(m) == Score(m.creation) + Score(m.runtime)

WritingSteps == {"readRecord", "writeRecord", "updateMatch", "insertMatch"}

\* The rows of a contract no task writes: without a match no verified contract,
\* and a match of the lowest quality is alone and so is its verified contract.
Clean(ms, rs) ==
  /\ ms = {} => rs = {}
  /\ \A m \in ms : /\ Total(m) >= 1
                   /\ Total(m) = 1 =>
                        ms = {m} /\ \A r \in rs : r.compilation = m.compilation

Improves(new, ms) == ms = {} \/ \E m \in ms : IsBetterVerification(new, m)

\* The rows of a contract a task writes, whose result is new and which found
\* the verified contract of compilation old.
Reading(ms, rs, new) == Clean(ms, rs) /\ Improves(new, ms)

Writing(ms, rs, new, old) ==
  /\ Clean(ms, rs) /\ Improves(new, ms)
  /\ ms = {} => old = None
  /\ \A m \in ms : Total(m) = 1 => old = m.compilation

Updating(ms, new, old) ==
  /\ ms # {} /\ Improves(new, ms)
  /\ \A m \in ms : Total(m) >= 1 /\ (Total(m) = 1 => ms = {m} /\ old = m.compilation)

Inserting(ms, rs, new) ==
  /\ Improves(new, ms)
  /\ \A m \in ms : Total(m) >= 2
  /\ ms = {} => \A r \in rs : r.compilation = new.compilation

Task(p, ms, rs, new, old) ==
  \/ p = "readRecord" /\ Reading(ms, rs, new)
  \/ p = "writeRecord" /\ Writing(ms, rs, new, old)
  \/ p = "updateMatch" /\ Updating(ms, new, old)
  \/ p = "insertMatch" /\ Inserting(ms, rs, new)

SerialAt(c) ==
  LET ms == RowsOf(matches, c)  rs == RowsOf(records, c)
  IN \/ /\ \A j \in Jobs : contract[j] = c => pc[j] \notin WritingSteps
        /\ Clean(ms, rs)
     \/ \E j \in Jobs : contract[j] = c /\ Task(pc[j], ms, rs, result[j], oldRecord[j])

SerialInv == OneAtATime /\ \A c \in Contracts : SerialAt(c)

LEMMA TotalIsNat ==
  ASSUME NEW m PROVE Total(m) \in 0..4
<1>1. Score(m.creation) \in {0, 1, 2} /\ Score(m.runtime) \in {0, 1, 2}
  BY ScoreValues
<1> QED
  BY <1>1 DEF Total

LEMMA BetterHasMore ==
  ASSUME NEW new, NEW m, IsBetterVerification(new, m)
  PROVE  Total(new) > Total(m)
<1>1. /\ Score(m.creation) \in {0, 1, 2} /\ Score(m.runtime) \in {0, 1, 2}
      /\ Score(new.creation) \in {0, 1, 2} /\ Score(new.runtime) \in {0, 1, 2}
  BY ScoreValues
<1> QED
  BY <1>1, BetterIsProductOrder DEF Total

\* The level a total allows.
LEMMA RankOfTotal ==
  ASSUME NEW m
  PROVE  /\ LevelRank(LevelOf(m)) \in 0..2
         /\ Total(m) >= 1 => LevelRank(LevelOf(m)) >= 1
         /\ Total(m) = 1 => LevelRank(LevelOf(m)) = 1
         /\ Total(m) >= 3 => LevelRank(LevelOf(m)) = 2
<1>1. Score(m.creation) \in {0, 1, 2} /\ Score(m.runtime) \in {0, 1, 2}
  BY ScoreValues
<1> QED
  BY <1>1, RankIsBestScore DEF Total

\* A result that improves on a match that is not of the lowest quality has the
\* highest level.
LEMMA ImprovedTotal ==
  ASSUME NEW ms, NEW new, ms # {}, Improves(new, ms), \A m \in ms : Total(m) >= 1
  PROVE  /\ Total(new) >= 2
         /\ (\A m \in ms : Total(m) # 1) => Total(new) >= 3
<1>1. PICK m \in ms : IsBetterVerification(new, m)
  BY DEF Improves
<1>2. Total(new) \in Int /\ Total(m) \in Int
  BY TotalIsNat
<1> QED
  BY <1>1, <1>2, BetterHasMore

\* The match an update writes, when there is one of the lowest quality.
LEMMA LowestIsReplaced ==
  ASSUME NEW ms, NEW new, NEW old, Updating(ms, new, old),
         NEW m \in ms, Total(m) = 1
  PROVE  /\ {x \in ms : x.compilation = old} = ms
         /\ IsBetterVerification(new, m) /\ ms = {m}
BY DEF Updating, Improves

\* The sets of rows the three writes leave, with row the result's.
LEMMA UpdateLeaves ==
  ASSUME NEW ms, NEW rs, NEW new, NEW old, Updating(ms, new, old),
         NEW row, Total(row) = Total(new)
  PROVE  Clean((ms \ {x \in ms : x.compilation = old}) \cup {row}, rs)
<1> DEFINE up == {x \in ms : x.compilation = old}
           left == (ms \ up) \cup {row}
<1>1. /\ Total(row) >= 2
      /\ (\A m \in ms : Total(m) # 1) => Total(row) >= 3
  BY ImprovedTotal DEF Updating
<1>2. Total(row) \in Int
  BY TotalIsNat
<1>3. ASSUME NEW m \in left PROVE Total(m) >= 1 /\ Total(m) # 1
  <2>1. CASE m = row
    BY <2>1, <1>1, <1>2
  <2>2. CASE m \in ms \ up
    <3>1. Total(m) >= 1
      BY <2>2 DEF Updating
    <3>2. Total(m) # 1
      BY <2>2, LowestIsReplaced
    <3> QED
      BY <3>1, <3>2
  <2> QED
    BY <1>3, <2>1, <2>2
<1>4. left # {}
  OBVIOUS
<1> HIDE DEF left
<1>5. Clean(left, rs)
  BY <1>3, <1>4 DEF Clean
<1> QED
  BY <1>5 DEF left

LEMMA UpdatePassesOn ==
  ASSUME NEW ms, NEW rs, NEW new, NEW old, Updating(ms, new, old),
         NEW row, Total(row) = Total(new),
         {x \in ms : x.compilation = old} \subseteq {row}
  PROVE  Inserting(ms, rs, new)
<1>1. ASSUME NEW m \in ms PROVE Total(m) >= 2
  <2>1. Total(m) >= 1 /\ Total(m) \in Int
    BY TotalIsNat DEF Updating
  <2>2. CASE Total(m) = 1
    <3>1. m = row /\ IsBetterVerification(new, m)
      BY <2>2, LowestIsReplaced
    <3>2. Total(new) > Total(m) /\ Total(new) \in Int
      BY <3>1, BetterHasMore, TotalIsNat
    <3> QED
      BY <2>1, <3>1, <3>2
  <2> QED
    BY <2>1, <2>2
<1> QED
  BY <1>1 DEF Inserting, Updating

LEMMA UpdateRefusedLeaves ==
  ASSUME NEW ms, NEW rs, NEW new, NEW old, Updating(ms, new, old),
         old # new.compilation, {x \in ms : x.compilation = new.compilation} # {}
  PROVE  Clean(ms, rs)
<1>1. ASSUME NEW m \in ms PROVE Total(m) >= 1 /\ Total(m) # 1
  <2>1. Total(m) >= 1
    BY DEF Updating
  <2>2. Total(m) # 1
    BY LowestIsReplaced
  <2> QED
    BY <2>1, <2>2
<1> QED
  BY <1>1 DEF Clean, Updating

LEMMA InsertLeaves ==
  ASSUME NEW ms, NEW rs, NEW new, Inserting(ms, rs, new), Total(new) >= 1,
         NEW row, Total(row) = Total(new), row.compilation = new.compilation
  PROVE  Clean(ms \cup {row}, rs)
<1>1. CASE ms = {}
  BY <1>1 DEF Clean, Inserting
<1>2. CASE ms # {}
  <2>1. \A m \in ms : Total(m) >= 2 /\ Total(m) \in Int
    BY TotalIsNat DEF Inserting
  <2>2. Total(row) >= 2 /\ Total(row) \in Int
    <3>1. \A m \in ms : Total(m) >= 1
      BY <2>1
    <3> QED
      BY <1>2, <3>1, ImprovedTotal, TotalIsNat DEF Inserting
  <2>3. \A m \in ms \cup {row} : Total(m) >= 1 /\ Total(m) # 1
    BY <2>1, <2>2
  <2> QED
    BY <2>3 DEF Clean
<1> QED
  BY <1>1, <1>2

LEMMA InsertRefusedLeaves ==
  ASSUME NEW ms, NEW rs, NEW new, Inserting(ms, rs, new), ms # {}
  PROVE  Clean(ms, rs)
<1>1. \A m \in ms : Total(m) >= 1 /\ Total(m) # 1
  BY TotalIsNat DEF Inserting
<1> QED
  BY <1>1 DEF Clean

LEMMA RecordLeads ==
  ASSUME NEW ms, NEW rs, NEW new, NEW old, Writing(ms, rs, new, old),
         NEW row, row.compilation = new.compilation,
         \A m \in ms : m.compilation # None, NEW keep \in SUBSET rs
  PROVE  IF old = None THEN Inserting(ms, keep \cup {row}, new)
                       ELSE Updating(ms, new, old)
<1>1. CASE old = None
  <2>1. \A m \in ms : Total(m) >= 2
    <3> SUFFICES ASSUME NEW m \in ms PROVE Total(m) >= 2
      OBVIOUS
    <3>1. Total(m) \in Int /\ Total(m) >= 1 /\ Total(m) # 1
      BY <1>1, TotalIsNat DEF Writing, Clean
    <3> QED
      BY <3>1
  <2>2. ms = {} => \A r \in keep \cup {row} : r.compilation = new.compilation
    BY DEF Writing, Clean
  <2> QED
    BY <1>1, <2>1, <2>2 DEF Writing, Inserting
<1>2. CASE old # None
  BY <1>2 DEF Writing, Updating, Clean
<1> QED
  BY <1>1, <1>2

NoFaults == MaxFailures = 0 /\ MaxLostReplies = 0 /\ MaxCrashes = 0

\* The rows of a contract and the tasks that write them stay as they are.
QuietAt(c) ==
  /\ RowsOf(matches', c) = RowsOf(matches, c)
  /\ RowsOf(records', c) = RowsOf(records, c)
  /\ \A j \in Jobs :
       \/ contract'[j] = c /\ pc'[j] \in WritingSteps
       \/ contract[j] = c /\ pc[j] \in WritingSteps
       => /\ contract'[j] = contract[j] /\ pc'[j] = pc[j]
          /\ result'[j] = result[j] /\ oldRecord'[j] = oldRecord[j]

LEMMA QuietKeeps ==
  ASSUME NEW c, SerialAt(c), QuietAt(c) PROVE SerialAt(c)'
<1> DEFINE ms == RowsOf(matches, c)  rs == RowsOf(records, c)
<1>1. CASE /\ \A j \in Jobs : contract[j] = c => pc[j] \notin WritingSteps
           /\ Clean(ms, rs)
  <2>1. \A j \in Jobs : contract'[j] = c => pc'[j] \notin WritingSteps
    BY <1>1 DEF QuietAt
  <2>2. Clean(ms', rs')
    BY <1>1 DEF QuietAt, RowsOf
  <2> QED
    BY <2>1, <2>2 DEF SerialAt
<1>2. CASE \E j \in Jobs : contract[j] = c /\ Task(pc[j], ms, rs, result[j], oldRecord[j])
  <2>1. PICK j \in Jobs : contract[j] = c /\ Task(pc[j], ms, rs, result[j], oldRecord[j])
    BY <1>2
  <2>2. pc[j] \in WritingSteps
    BY <2>1 DEF Task, WritingSteps
  <2>3. /\ contract'[j] = c /\ pc'[j] = pc[j] /\ ms' = ms /\ rs' = rs
        /\ result'[j] = result[j] /\ oldRecord'[j] = oldRecord[j]
    BY <2>1, <2>2 DEF QuietAt, RowsOf
  <2>4. Task(pc'[j], ms', rs', result'[j], oldRecord'[j])
    BY <2>1, <2>3
  <2> QED
    BY <2>3, <2>4 DEF SerialAt
<1> QED
  BY <1>1, <1>2 DEF SerialAt

\* The steps of a task that read or write the tables of the matches.
Stores(j) == \/ CheckMatch(j) \/ ReadRecord(j) \/ WriteRecord(j)
             \/ UpdateMatch(j) \/ InsertMatch(j)

LEMMA StoresElsewhere ==
  ASSUME TypeInv, NEW j \in Jobs, Stores(j), NEW c, contract[j] # c
  PROVE  QuietAt(c)
<1>1. /\ RowsOf(matches', c) = RowsOf(matches, c)
      /\ RowsOf(records', c) = RowsOf(records, c)
  <2>1. CASE UNCHANGED tables
    BY <2>1 DEF tables
  <2>2. CASE RecordWritten(j)
    BY <2>2 DEF RecordWritten, RowOf, RowsOf, ResultRow
  <2>3. CASE MatchMoved(j)
    BY <2>3 DEF MatchMoved, MatchToUpdate, RowOf, RowsOf, ResultRow
  <2>4. CASE MatchInserted(j)
    BY <2>4 DEF MatchInserted, RowsOf, ResultRow
  <2>5. UNCHANGED tables \/ RecordWritten(j) \/ MatchMoved(j) \/ MatchInserted(j)
    BY DEF Stores, CheckMatch, ReadRecord, WriteRecord, UpdateMatch, InsertMatch
  <2> QED
    BY <2>1, <2>2, <2>3, <2>4, <2>5
<1>2. contract' = contract
  BY DEF Stores, CheckMatch, ReadRecord, WriteRecord, UpdateMatch, InsertMatch,
         Raise, locals
<1>3. \A i \in Jobs \ {j} :
        pc'[i] = pc[i] /\ result'[i] = result[i] /\ oldRecord'[i] = oldRecord[i]
  BY DEF Stores, CheckMatch, ReadRecord, WriteRecord, UpdateMatch, InsertMatch,
         Raise, Goto, locals, TypeInv, TypeOK
<1> QED
  BY <1>1, <1>2, <1>3 DEF QuietAt

LEMMA StoresOrQuiet ==
  ASSUME NoFaults, TypeInv, [Next]_vars, NEW c
  PROVE  QuietAt(c) \/ \E j \in Jobs : contract[j] = c /\ Stores(j)
<1> DEFINE Goal == QuietAt(c) \/ \E j \in Jobs : contract[j] = c /\ Stores(j)
           Same == \A i \in Jobs :
                      pc'[i] \in WritingSteps \/ pc[i] \in WritingSteps
                      => /\ contract'[i] = contract[i] /\ pc'[i] = pc[i]
                         /\ result'[i] = result[i] /\ oldRecord'[i] = oldRecord[i]
<1>0. ASSUME UNCHANGED tables, Same PROVE Goal
  BY <1>0 DEF tables, QuietAt
<1> USE DEF TypeInv, TypeOK, Goto, Raise, locals, WritingSteps
<1>1. ASSUME NEW i \in Jobs, NEW d \in Contracts, Submit(i, d) PROVE Goal
  <2>1. UNCHANGED tables /\ Same
    BY <1>1 DEF Submit
  <2> QED
    BY <2>1, <1>0
<1>2. ASSUME NEW i \in Jobs, RequestStep(i) PROVE Goal
  <2>1. UNCHANGED tables /\ Same
    BY <1>2 DEF RequestStep, CheckIfAlreadyVerified, ListJobs,
       CheckIfJobIsAlreadyRunning, StoreVerificationJob, RunInBackground
  <2> QED
    BY <2>1, <1>0
<1>3. ASSUME NEW i \in Jobs, WorkerReturns(i) PROVE Goal
  <2>1. UNCHANGED tables /\ Same
    BY <1>3 DEF WorkerReturns, WorkerExports, WorkerFails
  <2> QED
    BY <2>1, <1>0
<1>4. ASSUME NEW i \in Jobs, TaskStep(i) PROVE Goal
  <2>1. CASE Stores(i)
    BY <2>1, StoresElsewhere
  <2>2. CASE ~ Stores(i)
    <3>1. UNCHANGED tables /\ Same
      BY <1>4, <2>2 DEF TaskStep, Stores, CompleteJob, SetJobError,
         InsertEphemeral, Settle
    <3> QED
      BY <3>1, <1>0
  <2> QED
    BY <2>1, <2>2
<1>5. ASSUME NEW i \in Jobs, StatementTrouble(i) PROVE FALSE
  <2>1. failures = 0 /\ lostReplies = 0
    BY DEF NoFaults
  <2> QED
    BY <1>5, <2>1 DEF NoFaults, StatementTrouble, StatementFails, RequestFails,
       ReplyLost, InsertReplyLost, BookkeepingFails
<1>6. ASSUME ProcessStep PROVE Goal
  <2>1. ~ Crash
    BY DEF NoFaults, Crash
  <2>2. UNCHANGED tables /\ Same
    BY <1>6, <2>1 DEF ProcessStep, Restart, Shutdown, DestroyPool, Exit
  <2> QED
    BY <2>2, <1>0
<1>7. ASSUME UNCHANGED vars PROVE Goal
  <2>1. UNCHANGED tables /\ Same
    BY <1>7 DEF vars
  <2> QED
    BY <2>1, <1>0
<1> QED
  BY <1>1, <1>2, <1>3, <1>4, <1>5, <1>6, <1>7 DEF Next

\* What is known of the rows of a contract by its only task at work.
LEMMA OnlyTask ==
  ASSUME TypeInv, OneAtATime, NEW j \in Jobs, NEW c, contract[j] = c, SerialAt(c),
         pc[j] \in StoreSteps
  PROVE  /\ \A k \in Jobs \ {j} : contract[k] = c => pc[k] \notin WritingSteps
         /\ pc[j] = "checkMatch" => Clean(RowsOf(matches, c), RowsOf(records, c))
         /\ pc[j] \in WritingSteps =>
              Task(pc[j], RowsOf(matches, c), RowsOf(records, c), result[j], oldRecord[j])
<1>1. \A k \in Jobs \ {j} : contract[k] = c => pc[k] \notin WritingSteps
  BY DEF OneAtATime, Active, ActiveSteps, TaskSteps, StoreSteps, WritingSteps
<1>2. \A k \in Jobs : \A ms, rs, new, old :
        Task(pc[k], ms, rs, new, old) => pc[k] \in WritingSteps
  BY DEF Task, WritingSteps
<1>3. "checkMatch" \notin WritingSteps
  BY DEF WritingSteps
<1> QED
  BY <1>1, <1>2, <1>3 DEF SerialAt

\* The task goes on writing, or is done with the tables.
LEMMA GoesOnWriting ==
  ASSUME NEW j \in Jobs, NEW c, contract'[j] = c,
         Task(pc'[j], RowsOf(matches', c), RowsOf(records', c), result'[j], oldRecord'[j])
  PROVE  SerialAt(c)'
BY DEF SerialAt, RowsOf

LEMMA StopsWriting ==
  ASSUME NEW j \in Jobs, NEW c, contract[j] = c, contract' = contract,
         \A k \in Jobs \ {j} : pc'[k] = pc[k],
         \A k \in Jobs \ {j} : contract[k] = c => pc[k] \notin WritingSteps,
         pc'[j] \notin WritingSteps,
         Clean(RowsOf(matches', c), RowsOf(records', c))
  PROVE  SerialAt(c)'
BY DEF SerialAt, RowsOf

LEMMA ResultRowTotal ==
  ASSUME NEW j
  PROVE  /\ ResultRow(j).compilation = result[j].compilation
         /\ Total(ResultRow(j)) = Total(result[j])
BY DEF ResultRow, Total

\* The worker exports only what matched on one side.
LEMMA ExportsMatch ==
  ASSUME TypeInv, NEW j \in Jobs, pc[j] \in StoreSteps
  PROVE  Total(result[j]) >= 1
<1>1. /\ result[j].creation \in StoredStatuses /\ result[j].runtime \in StoredStatuses
      /\ {result[j].creation, result[j].runtime} # {"null"}
  BY VerificationsAssumption DEF TypeInv, StepInv, Exports
<1>2. /\ Score("perfect") = 2 /\ Score("partial") = 1 /\ Score("null") = 0
  BY DEF Score
<1> QED
  BY <1>1, <1>2 DEF Total, StoredStatuses

LEMMA CheckMatchKeeps ==
  ASSUME TypeInv, OneAtATime, NEW j \in Jobs, NEW c, contract[j] = c,
         SerialAt(c), CheckMatch(j)
  PROVE  SerialAt(c)'
<1> DEFINE ms == RowsOf(matches, c)  rs == RowsOf(records, c)
<1>0. pc[j] = "checkMatch" /\ UNCHANGED tables
  BY DEF CheckMatch
<1>1. /\ \A k \in Jobs \ {j} : contract[k] = c => pc[k] \notin WritingSteps
      /\ Clean(ms, rs)
  BY <1>0, OnlyTask DEF StoreSteps
<1>2. contract' = contract /\ \A k \in Jobs \ {j} : pc'[k] = pc[k]
  BY DEF CheckMatch, Raise, Goto, locals, TypeInv, TypeOK
<1>3. CASE Raise(j, "checkMatch", "already_verified")
  <2>1. pc'[j] \notin WritingSteps
    BY <1>3 DEF Raise, Goto, TypeInv, TypeOK, WritingSteps
  <2>2. Clean(RowsOf(matches', c), RowsOf(records', c))
    BY <1>0, <1>1 DEF tables
  <2> QED
    BY <1>1, <1>2, <2>1, <2>2, StopsWriting
<1>4. CASE /\ Goto(j, "checkMatch", "readRecord") /\ UNCHANGED locals
           /\ \E row \in FirstRow(ms) : row = None \/ IsBetterVerification(result[j], row)
  <2>1. pc'[j] = "readRecord" /\ result'[j] = result[j]
    BY <1>4 DEF Goto, locals, TypeInv, TypeOK
  <2>2. None \notin ms
    BY NoneAssumption DEF TypeInv, TypeOK, RowsOf
  <2>3. Improves(result[j], ms)
    BY <1>4, <2>2 DEF FirstRow, Improves
  <2>4. RowsOf(matches', c) = ms /\ RowsOf(records', c) = rs
    BY <1>0 DEF tables
  <2> HIDE DEF ms, rs
  <2>5. Task(pc'[j], ms, rs, result'[j], oldRecord'[j])
    BY <1>1, <2>1, <2>3 DEF Task, Reading
  <2> QED
    BY <1>2, <2>4, <2>5, GoesOnWriting
<1> QED
  BY <1>3, <1>4 DEF CheckMatch

LEMMA ReadRecordKeeps ==
  ASSUME TypeInv, MatchesAreRecorded, OneAtATime, NEW j \in Jobs, NEW c, contract[j] = c,
         SerialAt(c), ReadRecord(j)
  PROVE  SerialAt(c)'
<1> DEFINE ms == RowsOf(matches, c)  rs == RowsOf(records, c)
<1>1. /\ pc[j] = "readRecord" /\ pc'[j] = "writeRecord"
      /\ contract'[j] = c /\ result'[j] = result[j]
      /\ RowsOf(matches', c) = ms /\ RowsOf(records', c) = rs
  BY DEF ReadRecord, Goto, tables, TypeInv, TypeOK
<1>2. PICK row \in FirstRow(rs) :
        oldRecord'[j] = IF row = None THEN None ELSE row.compilation
  BY DEF ReadRecord, TypeInv, TypeOK
<1>3. Task(pc[j], ms, rs, result[j], oldRecord[j])
  BY <1>1, OnlyTask DEF StoreSteps, WritingSteps
<1>4. Clean(ms, rs) /\ Improves(result[j], ms)
  BY <1>1, <1>3 DEF Task, Reading
<1>5. None \notin rs
  BY NoneAssumption DEF TypeInv, TypeOK, RowsOf
<1>6. ms = {} => oldRecord'[j] = None
  BY <1>2, <1>4 DEF FirstRow, Clean
<1>7. ASSUME NEW m \in ms, Total(m) = 1 PROVE oldRecord'[j] = m.compilation
  <2>1. rs # {}
    BY <1>7 DEF MatchesAreRecorded, RowOf, RowsOf
  <2>2. row \in rs /\ row # None
    BY <1>2, <1>5, <2>1 DEF FirstRow
  <2>3. row.compilation = m.compilation
    BY <1>4, <1>7, <2>2 DEF Clean
  <2> QED
    BY <1>2, <2>2, <2>3
<1> HIDE DEF ms, rs
<1>8. Writing(ms, rs, result[j], oldRecord'[j])
  BY <1>4, <1>6, <1>7 DEF Writing
<1>9. Task(pc'[j], ms, rs, result'[j], oldRecord'[j])
  BY <1>1, <1>8 DEF Task
<1> QED
  BY <1>1, <1>9, GoesOnWriting

LEMMA WriteRecordKeeps ==
  ASSUME TypeInv, OneAtATime, NEW j \in Jobs, NEW c, contract[j] = c,
         SerialAt(c), WriteRecord(j)
  PROVE  SerialAt(c)'
<1> DEFINE ms == RowsOf(matches, c)  rs == RowsOf(records, c)
           keep == rs \ {r \in rs : r.compilation = result[j].compilation}
<1>1. pc[j] = "writeRecord"
  BY DEF WriteRecord, Goto, Raise
<1>2. /\ \A k \in Jobs \ {j} : contract[k] = c => pc[k] \notin WritingSteps
      /\ Task(pc[j], ms, rs, result[j], oldRecord[j])
  BY <1>1, OnlyTask DEF StoreSteps, WritingSteps
<1>3. Writing(ms, rs, result[j], oldRecord[j])
  BY <1>1, <1>2 DEF Task
<1>4. contract' = contract /\ \A k \in Jobs \ {j} : pc'[k] = pc[k]
  BY DEF WriteRecord, Raise, Goto, locals, TypeInv, TypeOK
<1>5. CASE Raise(j, "writeRecord", "already_verified") /\ UNCHANGED tables
  <2>1. pc'[j] \notin WritingSteps
    BY <1>5 DEF Raise, Goto, TypeInv, TypeOK, WritingSteps
  <2>2. Clean(RowsOf(matches', c), RowsOf(records', c))
    BY <1>3, <1>5 DEF tables, Writing
  <2> QED
    BY <1>2, <1>4, <2>1, <2>2, StopsWriting
<1>6. CASE /\ Goto(j, "writeRecord",
                   IF oldRecord[j] = None THEN "insertMatch" ELSE "updateMatch")
           /\ RecordWritten(j) /\ UNCHANGED locals
  <2>1. /\ pc'[j] = IF oldRecord[j] = None THEN "insertMatch" ELSE "updateMatch"
        /\ result'[j] = result[j] /\ oldRecord'[j] = oldRecord[j]
    BY <1>6 DEF Goto, locals, TypeInv, TypeOK
  <2>2. /\ RowsOf(matches', c) = ms
        /\ RowsOf(records', c) = keep \cup {ResultRow(j)}
    BY <1>6 DEF RecordWritten, RowOf, RowsOf, ResultRow
  <2>3. \A m \in ms : m.compilation # None
    BY NoneAssumption DEF TypeInv, TypeOK, RowsOf, Rows
  <2>4. ResultRow(j).compilation = result[j].compilation /\ keep \in SUBSET rs
    BY ResultRowTotal
  <2> HIDE DEF ms, rs, keep
  <2>5. IF oldRecord[j] = None
        THEN Inserting(ms, keep \cup {ResultRow(j)}, result[j])
        ELSE Updating(ms, result[j], oldRecord[j])
    BY <1>3, <2>3, <2>4, RecordLeads
  <2>6. Task(pc'[j], ms, keep \cup {ResultRow(j)}, result'[j], oldRecord'[j])
    BY <2>1, <2>5 DEF Task
  <2> QED
    BY <1>4, <2>2, <2>6, GoesOnWriting
<1> QED
  BY <1>5, <1>6 DEF WriteRecord

LEMMA UpdateMatchKeeps ==
  ASSUME TypeInv, OneAtATime, NEW j \in Jobs, NEW c, contract[j] = c,
         SerialAt(c), UpdateMatch(j)
  PROVE  SerialAt(c)'
<1> DEFINE ms == RowsOf(matches, c)  rs == RowsOf(records, c)
           up == {m \in ms : m.compilation = oldRecord[j]}
<1>1. pc[j] = "updateMatch"
  BY DEF UpdateMatch, Goto, Raise
<1>2. /\ \A k \in Jobs \ {j} : contract[k] = c => pc[k] \notin WritingSteps
      /\ Task(pc[j], ms, rs, result[j], oldRecord[j])
  BY <1>1, OnlyTask DEF StoreSteps, WritingSteps
<1>3. Updating(ms, result[j], oldRecord[j])
  BY <1>1, <1>2 DEF Task
<1>4. contract' = contract /\ \A k \in Jobs \ {j} : pc'[k] = pc[k]
  BY DEF UpdateMatch, Raise, Goto, locals, TypeInv, TypeOK
<1>5. MatchToUpdate(j) = up
  BY DEF MatchToUpdate, RowOf
<1>6. /\ ResultRow(j).compilation = result[j].compilation
      /\ Total(ResultRow(j)) = Total(result[j])
  BY ResultRowTotal
<1>7. CASE Goto(j, "updateMatch", "completeJob") /\ MatchMoved(j)
  <2>1. pc'[j] \notin WritingSteps
    BY <1>7 DEF Goto, TypeInv, TypeOK, WritingSteps
  <2>2. RowsOf(matches', c) = (ms \ up) \cup {ResultRow(j)} /\ RowsOf(records', c) = rs
    BY <1>5, <1>7 DEF MatchMoved, RowsOf, ResultRow
  <2> HIDE DEF ms, rs
  <2>3. Clean((ms \ up) \cup {ResultRow(j)}, rs)
    BY <1>3, <1>6, UpdateLeaves
  <2> HIDE DEF up
  <2>4. Clean(RowsOf(matches', c), RowsOf(records', c))
    BY <2>2, <2>3
  <2> QED
    BY <1>2, <1>4, <2>1, <2>4, StopsWriting
<1>8. CASE /\ Goto(j, "updateMatch", "insertMatch")
           /\ MatchToUpdate(j) \subseteq {ResultRow(j)} /\ UNCHANGED <<locals, tables>>
  <2>1. pc'[j] = "insertMatch" /\ result'[j] = result[j]
    BY <1>8 DEF Goto, locals, TypeInv, TypeOK
  <2>2. RowsOf(matches', c) = ms /\ RowsOf(records', c) = rs
    BY <1>8 DEF tables
  <2> HIDE DEF ms, rs
  <2>3. Inserting(ms, rs, result[j])
    BY <1>3, <1>5, <1>6, <1>8, UpdatePassesOn
  <2>4. Task(pc'[j], ms, rs, result'[j], oldRecord'[j])
    BY <2>1, <2>3 DEF Task
  <2> QED
    BY <1>4, <2>2, <2>4, GoesOnWriting
<1>9. CASE /\ Raise(j, "updateMatch", "internal_error")
           /\ UpdateRefused(j) /\ UNCHANGED tables
  <2>1. pc'[j] \notin WritingSteps
    BY <1>9 DEF Raise, Goto, TypeInv, TypeOK, WritingSteps
  <2>2. /\ oldRecord[j] # result[j].compilation
        /\ {m \in ms : m.compilation = result[j].compilation} # {}
    BY <1>9 DEF UpdateRefused, MatchKeyTaken, RowOf
  <2>3. RowsOf(matches', c) = ms /\ RowsOf(records', c) = rs
    BY <1>9 DEF tables
  <2> HIDE DEF ms, rs
  <2>4. Clean(ms, rs)
    BY <1>3, <2>2, UpdateRefusedLeaves
  <2>5. Clean(RowsOf(matches', c), RowsOf(records', c))
    BY <2>3, <2>4
  <2> QED
    BY <1>2, <1>4, <2>1, <2>5, StopsWriting
<1> QED
  BY <1>7, <1>8, <1>9 DEF UpdateMatch

LEMMA InsertMatchKeeps ==
  ASSUME TypeInv, OneAtATime, NEW j \in Jobs, NEW c, contract[j] = c,
         SerialAt(c), InsertMatch(j)
  PROVE  SerialAt(c)'
<1> DEFINE ms == RowsOf(matches, c)  rs == RowsOf(records, c)
<1>1. pc[j] = "insertMatch"
  BY DEF InsertMatch, Goto, Raise
<1>2. /\ \A k \in Jobs \ {j} : contract[k] = c => pc[k] \notin WritingSteps
      /\ Task(pc[j], ms, rs, result[j], oldRecord[j])
  BY <1>1, OnlyTask DEF StoreSteps, WritingSteps
<1>3. Inserting(ms, rs, result[j])
  BY <1>1, <1>2 DEF Task
<1>4. contract' = contract /\ \A k \in Jobs \ {j} : pc'[k] = pc[k]
  BY DEF InsertMatch, Raise, Goto, locals, TypeInv, TypeOK
<1>5. /\ ResultRow(j).compilation = result[j].compilation
      /\ Total(ResultRow(j)) = Total(result[j])
  BY ResultRowTotal
<1>6. pc'[j] \notin WritingSteps
  BY DEF InsertMatch, Raise, Goto, TypeInv, TypeOK, WritingSteps
<1>7. CASE MatchInserted(j)
  <2>1. RowsOf(matches', c) = ms \cup {ResultRow(j)} /\ RowsOf(records', c) = rs
    BY <1>7 DEF MatchInserted, RowsOf, ResultRow
  <2>2. Total(result[j]) >= 1
    BY <1>1, ExportsMatch DEF StoreSteps
  <2> HIDE DEF ms, rs
  <2>3. Clean(ms \cup {ResultRow(j)}, rs)
    BY <1>3, <1>5, <2>2, InsertLeaves
  <2>4. Clean(RowsOf(matches', c), RowsOf(records', c))
    BY <2>1, <2>3
  <2> QED
    BY <1>2, <1>4, <1>6, <2>4, StopsWriting
<1>8. CASE MatchKeyTaken(j) /\ UNCHANGED tables
  <2>1. ms # {}
    BY <1>8 DEF MatchKeyTaken, RowOf
  <2>2. RowsOf(matches', c) = ms /\ RowsOf(records', c) = rs
    BY <1>8 DEF tables
  <2> HIDE DEF ms, rs
  <2>3. Clean(ms, rs)
    BY <1>3, <2>1, InsertRefusedLeaves
  <2>4. Clean(RowsOf(matches', c), RowsOf(records', c))
    BY <2>2, <2>3
  <2> QED
    BY <1>2, <1>4, <1>6, <2>4, StopsWriting
<1> QED
  BY <1>7, <1>8 DEF InsertMatch

LEMMA SerialInvInit == Init => SerialInv
<1> SUFFICES ASSUME Init PROVE SerialInv
  OBVIOUS
<1>1. OneAtATime
  BY DEF Init, OneAtATime, Active, ActiveSteps, RequestSteps, TaskSteps, StoreSteps,
     ErrorSteps
<1>2. ASSUME NEW c \in Contracts PROVE SerialAt(c)
  <2>1. RowsOf(matches, c) = {} /\ RowsOf(records, c) = {}
    BY DEF Init, RowsOf
  <2>2. \A j \in Jobs : pc[j] \notin WritingSteps
    BY DEF Init, WritingSteps
  <2> QED
    BY <2>1, <2>2 DEF SerialAt, Clean
<1> QED
  BY <1>1, <1>2 DEF SerialInv

LEMMA SerialInvNext ==
  NoFaults /\ Inv /\ SerialInv /\ [SerialNext]_vars => SerialInv'
<1> SUFFICES ASSUME NoFaults, Inv, SerialInv, [SerialNext]_vars PROVE SerialInv'
  OBVIOUS
<1>1. [Next]_vars
  BY DEF SerialNext
<1>2. OneAtATime'
  BY DEF SerialInv, SerialNext, OneAtATime, Active, vars, locals
<1>3. TypeInv /\ MatchesAreRecorded /\ OneAtATime
  BY DEF Inv, CoreInv, SerialInv
<1>4. ASSUME NEW c \in Contracts PROVE SerialAt(c)'
  <2>1. SerialAt(c)
    BY DEF SerialInv
  <2>2. ASSUME NEW j \in Jobs, contract[j] = c, Stores(j) PROVE SerialAt(c)'
    BY <1>3, <2>1, <2>2, CheckMatchKeeps, ReadRecordKeeps, WriteRecordKeeps,
       UpdateMatchKeeps, InsertMatchKeeps DEF Stores
  <2> QED
    BY <1>1, <1>3, <2>1, <2>2, StoresOrQuiet, QuietKeeps
<1> QED
  BY <1>2, <1>4 DEF SerialInv

\* The best level of a set of matches.
BestOf(ms) ==
  LET ranks == {LevelRank(LevelOf(m)) : m \in ms}
  IN IF 2 \in ranks THEN 2 ELSE IF 1 \in ranks THEN 1 ELSE 0

LEMMA BestOfIsBest ==
  ASSUME NEW ms
  PROVE  /\ BestOf(ms) \in 0..2
         /\ \A m \in ms : LevelRank(LevelOf(m)) <= BestOf(ms)
         /\ ms # {} => \E m \in ms : LevelRank(LevelOf(m)) = BestOf(ms)
         /\ ms = {} => BestOf(ms) = 0
<1>1. \A m \in ms : LevelRank(LevelOf(m)) \in {0, 1, 2}
  BY RankOfTotal
<1> QED
  BY <1>1 DEF BestOf

\* A set of matches shows at least the best level of another when it has a
\* match as good as any of its matches, or one of the highest level.
LEMMA BestOfGrows ==
  ASSUME NEW ms, NEW after,
         \/ \A m \in ms : \E x \in after : LevelRank(LevelOf(x)) >= LevelRank(LevelOf(m))
         \/ \E x \in after : LevelRank(LevelOf(x)) = 2
  PROVE  BestOf(after) >= BestOf(ms)
<1>1. /\ BestOf(ms) \in 0..2
      /\ ms # {} => \E m \in ms : LevelRank(LevelOf(m)) = BestOf(ms)
      /\ ms = {} => BestOf(ms) = 0
  BY BestOfIsBest
<1>2. /\ BestOf(after) \in 0..2
      /\ \A m \in after : LevelRank(LevelOf(m)) <= BestOf(after)
  BY BestOfIsBest
<1>3. \A m \in ms \cup after : LevelRank(LevelOf(m)) \in Int
  BY RankOfTotal
<1> QED
  BY <1>1, <1>2, <1>3

LEMMA LevelStays ==
  ASSUME NoFaults, Inv, SerialInv, [SerialNext]_vars, NEW c \in Contracts
  PROVE  BestRank(c)' >= BestRank(c)
<1> DEFINE ms == RowsOf(matches, c)  after == RowsOf(matches', c)
<1> SUFFICES BestOf(after) >= BestOf(ms)
  BY DEF BestRank, BestOf, RowsOf
<1>1. TypeInv /\ OneAtATime /\ SerialAt(c) /\ [Next]_vars
  BY DEF Inv, CoreInv, SerialInv, SerialNext
<1>2. CASE ms \subseteq after
  <2>1. \A m \in ms : LevelRank(LevelOf(m)) \in Int
    BY RankOfTotal
  <2> QED
    BY <1>2, <2>1, BestOfGrows
<1>3. CASE ~ (ms \subseteq after)
  <2>1. PICK j \in Jobs : contract[j] = c /\ Stores(j)
    BY <1>1, <1>3, StoresOrQuiet DEF QuietAt, NoFaults
  <2>2. pc[j] = "updateMatch" /\ MatchMoved(j)
    BY <1>3, <2>1 DEF Stores, CheckMatch, ReadRecord, WriteRecord, UpdateMatch,
       InsertMatch, RecordWritten, MatchInserted, tables, RowsOf, Goto, Raise
  <2>3. Updating(ms, result[j], oldRecord[j])
    <3>1. Task(pc[j], ms, RowsOf(records, c), result[j], oldRecord[j])
      BY <1>1, <2>1, <2>2, OnlyTask DEF StoreSteps, WritingSteps
    <3> QED
      BY <2>2, <3>1 DEF Task
  <2>4. ResultRow(j) \in after
    BY <2>1, <2>2 DEF MatchMoved, RowsOf, ResultRow
  <2>5. Total(ResultRow(j)) = Total(result[j])
    BY ResultRowTotal
  <2>6. /\ Total(result[j]) >= 2 /\ Total(result[j]) \in Int
        /\ (\A m \in ms : Total(m) # 1) => Total(result[j]) >= 3
    BY <2>3, ImprovedTotal, TotalIsNat DEF Updating
  <2> HIDE DEF ms, after
  <2>7. CASE \A m \in ms : Total(m) # 1
    <3>1. LevelRank(LevelOf(ResultRow(j))) = 2
      BY <2>5, <2>6, <2>7, RankOfTotal
    <3> QED
      BY <2>4, <3>1, BestOfGrows
  <2>8. ASSUME NEW m \in ms, Total(m) = 1 PROVE BestOf(after) >= BestOf(ms)
    <3>1. ms = {m} /\ LevelRank(LevelOf(m)) = 1
      BY <2>3, <2>8, LowestIsReplaced, RankOfTotal
    <3>2. LevelRank(LevelOf(ResultRow(j))) >= 1
      BY <2>5, <2>6, RankOfTotal
    <3>3. \A x \in ms : LevelRank(LevelOf(ResultRow(j))) >= LevelRank(LevelOf(x))
      BY <3>1, <3>2
    <3> QED
      BY <2>4, <3>3, BestOfGrows
  <2> QED
    BY <2>7, <2>8
<1> QED
  BY <1>2, <1>3

\* Requests for a contract that never overlap never lower the level shown for
\* it, however many there are and whatever they find, as long as no statement
\* fails: also when a replaced contract keeps two matches, because a match of
\* the lowest quality is never one of two.
THEOREM LevelNeverDrops ==
  ASSUME NoFaults PROVE SerialSpec => BestLevelNeverDrops
<1>1. Init => Inv /\ SerialInv
  BY InvInit, SerialInvInit
<1>2. Inv /\ SerialInv /\ [SerialNext]_vars => Inv' /\ SerialInv'
  BY InvNext, SerialInvNext DEF SerialNext
<1>3. Inv /\ SerialInv /\ [SerialNext]_vars =>
        \A c \in Contracts : BestRank(c)' >= BestRank(c)
  BY LevelStays
<1> QED
  BY <1>1, <1>2, <1>3, PTL DEF SerialSpec, BestLevelNeverDrops
=============================================================================
