--------------------- MODULE BytecodeVerificationProofs ---------------------
(***************************************************************************)
(* What holds of one task inside a worker for any number of contracts, any *)
(* compiler output and any number of failed calls.                         *)
(***************************************************************************)
EXTENDS BytecodeVerification, FiniteSetTheorems, TLAPS

(***************************************************************************)
(* The invariant.  The transaction is forgotten only while there is no     *)
(* creation code, and a creation status is set only when there is; before  *)
(* the transaction is known there is no creation code.                     *)
(***************************************************************************)
CreationInv ==
  /\ pc = "start" => ~creationCode
  /\ creationCode => creatorTxHash
  /\ creationMatch # "null" => creationCode
  /\ result.creation # "null" => result.txHash

\* However verify ends by an error, it keeps the invariant: the error export
\* carries no status, and the second Verification starts with no creation code.
LEMMA ThrowKeepsCreationInv ==
  ASSUME CreationInv, NEW code, Throw(code)
  PROVE  CreationInv'
<1>1. CASE Continues(code)
  BY <1>1 DEF Throw, CreationInv, chain, matches
<1>2. CASE ~Continues(code) /\ input.mode = "metadata" /\ attempt = 1
           /\ code = "extra_file_input_bug"
  <2>1. WithAllSources
    BY <1>2 DEF Throw
  <2> QED
    BY <2>1 DEF WithAllSources, CreationInv
<1>3. CASE ~Continues(code) /\ ~(input.mode = "metadata" /\ attempt = 1
           /\ code = "extra_file_input_bug")
  <2>1. ErrorExport(code)
    BY <1>3 DEF Throw
  <2> QED
    BY <2>1 DEF ErrorExport, NoResult, CreationInv, chain, matches
<1> QED
  BY <1>1, <1>2, <1>3

LEMMA CreationInvInit == Init => CreationInv
BY DEF Init, CreationInv, NoResult

\* Most steps leave the creation code, its transaction, its status and the
\* result alone.
Quiet ==
  /\ UNCHANGED <<creationCode, creatorTxHash, creationMatch, result>>
  /\ pc' # "start"

LEMMA QuietKeepsCreationInv == CreationInv /\ Quiet => CreationInv'
BY DEF CreationInv, Quiet

LEMMA CreationInvStep == CreationInv /\ [Next]_vars => CreationInv'
<1> SUFFICES ASSUME CreationInv, [Next]_vars
             PROVE  CreationInv'
  OBVIOUS
<1>1. CASE GetCreatorTx
  BY <1>1 DEF GetCreatorTx, CreationInv, Goto, matches
<1>2. CASE CompileAndList
  <2>1. Quiet \/ Throw("compiler_error")
    BY <1>2 DEF Quiet, CompileAndList, Goto, chain, matches, Fault
  <2> QED
    BY <2>1, QuietKeepsCreationInv, ThrowKeepsCreationInv
<1>3. CASE TryCandidate
  BY <1>3, QuietKeepsCreationInv DEF Quiet, TryCandidate, Goto, chain, matches
<1>4. CASE VerifyMatchAgain
  BY <1>4, QuietKeepsCreationInv DEF Quiet, VerifyMatchAgain, Goto, chain, matches
<1>5. CASE NothingMatched
  <2>1. /\ UNCHANGED <<creationCode, creatorTxHash, creationMatch>>
        /\ pc' = "done" /\ result'.creation = "null"
    BY <1>5 DEF NothingMatched, ErrorExport, NoResult, chain, matches
  <2> QED
    BY <2>1 DEF CreationInv
<1>6. CASE FetchRuntime
  <2>1. Quiet \/ Throw("cannot_fetch_bytecode")
    BY <1>6 DEF Quiet, FetchRuntime, Goto, chain, matches, Fault
  <2> QED
    BY <2>1, QuietKeepsCreationInv, ThrowKeepsCreationInv
<1>7. CASE RefetchRuntime
  <2>1. Quiet \/ Throw("internal_error")
    BY <1>7 DEF Quiet, RefetchRuntime, Goto, chain, matches, Fault
  <2> QED
    BY <2>1, QuietKeepsCreationInv, ThrowKeepsCreationInv
<1>8. CASE NotDeployed
  <2>1. Quiet \/ Throw("contract_not_deployed")
    BY <1>8 DEF Quiet, NotDeployed, Goto, chain, matches
  <2> QED
    BY <2>1, QuietKeepsCreationInv, ThrowKeepsCreationInv
<1>9. CASE Compile
  <2>1. Quiet \/ Throw("compiler_error")
    BY <1>9 DEF Quiet, Compile, Goto, chain, matches, Fault
  <2> QED
    BY <2>1, QuietKeepsCreationInv, ThrowKeepsCreationInv
<1>10. CASE ContractNotFound
  <2>1. Quiet \/ Throw("contract_not_found_in_compiler_output")
    BY <1>10 DEF Quiet, ContractNotFound, Goto, chain, matches
  <2> QED
    BY <2>1, QuietKeepsCreationInv, ThrowKeepsCreationInv
<1>11. CASE FindPerfectMetadata
  <2>1. UNCHANGED <<creationCode, creatorTxHash, creationMatch>> /\ pc' # "start"
    BY <1>11 DEF FindPerfectMetadata, Goto, chain, matches
  <2>2. UNCHANGED result \/ result'.creation = "null"
    BY <1>11 DEF FindPerfectMetadata, NoResult
  <2> QED
    BY <2>1, <2>2 DEF CreationInv
<1>12. CASE KeepMetadata
  BY <1>12, QuietKeepsCreationInv DEF Quiet, KeepMetadata, Goto, chain, matches
<1>13. CASE CheckLength
  <2>1. Quiet \/ Throw("compiled_bytecode_is_zero") \/ Throw("extra_file_input_bug") \/ Throw("bytecode_length_mismatch")
    BY <1>13 DEF Quiet, CheckLength, Goto, chain, matches, Proceed
  <2> QED
    BY <2>1, QuietKeepsCreationInv, ThrowKeepsCreationInv
<1>14. CASE GeneratePositions
  BY <1>14, QuietKeepsCreationInv DEF Quiet, GeneratePositions, Goto, chain, matches
<1>15. CASE PositionsFail
  BY <1>15, QuietKeepsCreationInv DEF Quiet, PositionsFail, Goto, chain, matches
<1>16. CASE MatchRuntime
  BY <1>16, QuietKeepsCreationInv DEF Quiet, MatchRuntime, Goto, chain, matches
<1>17. CASE HandleBugs
  <2>1. Quiet \/ Throw("extra_file_input_bug")
    BY <1>17 DEF Quiet, HandleBugs, Goto, chain, matches, Proceed
  <2> QED
    BY <2>1, QuietKeepsCreationInv, ThrowKeepsCreationInv
<1>18. CASE FetchCreation
  <2>1. ~creationCode /\ creationMatch = "null"
    BY <1>18 DEF FetchCreation, CreationInv
  <2>2. UNCHANGED <<creationMatch, result>> /\ pc' = "creation"
    BY <1>18 DEF FetchCreation, matches
  <2>3. creationCode' => creatorTxHash'
    BY <1>18, <2>1 DEF FetchCreation
  <2> QED
    BY <2>1, <2>2, <2>3 DEF CreationInv
<1>19. CASE CreationAsBefore
  BY <1>19, QuietKeepsCreationInv DEF Quiet, CreationAsBefore, Goto, chain, matches, Proceed
<1>20. CASE MatchCreation
  <2>1. UNCHANGED <<creationCode, creatorTxHash, result>> /\ pc' = "conclude"
    BY <1>20 DEF MatchCreation, Goto, chain
  <2>2. creationCode \/ creationMatch' = creationMatch
    BY <1>20 DEF MatchCreation
  <2> QED
    BY <2>1, <2>2 DEF CreationInv
<1>21. CASE Export
  <2>1. UNCHANGED <<creationCode, creatorTxHash, creationMatch>> /\ pc' = "done"
    BY <1>21 DEF Export, Goto, chain, matches
  <2>2. result'.creation = creationMatch /\ result'.txHash = creatorTxHash
    BY <1>21 DEF Export
  <2> QED
    BY <2>1, <2>2 DEF CreationInv
<1>22. CASE NoteMatch
  <2>1. Quiet \/ Throw("invalid_compilation_target")
    BY <1>22 DEF Quiet, NoteMatch, Goto, chain, matches
  <2> QED
    BY <2>1, QuietKeepsCreationInv, ThrowKeepsCreationInv
<1>23. CASE NoMatch
  <2>1. Quiet \/ Throw("no_match")
    BY <1>23 DEF Quiet, NoMatch, Goto, chain, matches
  <2> QED
    BY <2>1, QuietKeepsCreationInv, ThrowKeepsCreationInv
<1>24. CASE UNCHANGED vars
  BY <1>24 DEF vars, CreationInv, chain, matches
<1> QED
  BY <1>1, <1>2, <1>3, <1>4, <1>5, <1>6, <1>7, <1>8, <1>9, <1>10, <1>11,
     <1>12, <1>13, <1>14, <1>15, <1>16, <1>17, <1>18, <1>19, <1>20, <1>21,
     <1>22, <1>23, <1>24 DEF Next

\* A creation match is exported with its transaction: over any candidates and
\* after any failures, the creation code never outlives the transaction it was
\* read from (Verification.verify, lines 302 to 335).
THEOREM TransactionKept == Spec => []CreationMatchHasTransaction
<1>1. CreationInv => CreationMatchHasTransaction
  BY DEF CreationInv, CreationMatchHasTransaction
<1> QED
  BY CreationInvInit, CreationInvStep, <1>1, PTL DEF Spec

-----------------------------------------------------------------------------
(* Types *)

\* The ways verify ends by an error.
LEMMA ThrowCases ==
  ASSUME NEW code, Throw(code)
  PROVE  \/ /\ Continues(code) /\ pc' = "next"
            /\ UNCHANGED <<request, profile, search, target, force, compilation,
                           chain, matches, result>>
         \/ input.mode = "metadata" /\ attempt = 1 /\ WithAllSources
         \/ ErrorExport(code)
BY DEF Throw

Comparing == {"bugs", "getCreation", "creation", "conclude"}
Examining == {"fetch", "refetch", "compile", "perfect", "length", "positions",
              "runtime"} \cup Comparing

\* While a contract is examined there is one.
TypeInv ==
  /\ TypeOK
  /\ input.mode # "search" \/ pc \in Examining => target \in Targets

Codes == {"compiler_error", "cannot_fetch_bytecode", "internal_error",
          "contract_not_deployed", "contract_not_found_in_compiler_output",
          "compiled_bytecode_is_zero", "extra_file_input_bug",
          "bytecode_length_mismatch", "no_match", "invalid_compilation_target"}

LEMMA ThrowKeepsTypes ==
  ASSUME TypeInv, NEW code \in Codes, Throw(code), pc # "done", faults' \in 0..MaxFaults
  PROVE  TypeInv'
<1> USE DEF TypeInv, TypeOK, Status, Examining, Comparing
<1>1. CASE Continues(code) /\ pc' = "next"
           /\ UNCHANGED <<request, profile, search, target, force, compilation,
                          chain, matches, result>>
  BY <1>1 DEF request, search, compilation, chain, matches
<1>2. CASE input.mode = "metadata" /\ WithAllSources
  <2>1. profile' \in [Targets -> Profile]
    BY <1>2, ProfilesAssumption DEF WithAllSources
  <2>2. /\ input' \in Inputs /\ pc' = "fetch" /\ attempt' \in 1..2
        /\ todo' \subseteq DOMAIN Candidates /\ matched' \in Targets \cup {None}
        /\ target' \in Targets
    BY <1>2 DEF WithAllSources, search
  <2>5. final' \in BOOLEAN /\ force' \in BOOLEAN
    BY <1>2 DEF WithAllSources, search
  <2>3. /\ output' = "none" /\ contracts' \subseteq Targets
        /\ runtimeAuxdata' = None /\ creationAuxdata' = None
        /\ runtimeCode' = "unknown"
        /\ creationCode' = FALSE /\ creatorTxHash' \in BOOLEAN
        /\ runtimeMatch' = "null" /\ creationMatch' = "null"
    BY <1>2 DEF WithAllSources
  <2>4. result' = NoResult
    BY <1>2 DEF WithAllSources
  <2> QED
    BY <2>1, <2>2, <2>3, <2>4, <2>5
<1>3. CASE ErrorExport(code)
  <2>1. result'.code = code /\ NoResult.code = "none"
    BY <1>3 DEF ErrorExport, NoResult
  <2>2. result' # NoResult
    BY <2>1 DEF Codes
  <2> QED
    BY <1>3, <2>2 DEF ErrorExport, request, search, compilation, chain, matches
<1> QED
  BY <1>1, <1>2, <1>3, ThrowCases

LEMMA FaultKeepsTypes ==
  ASSUME TypeInv, NEW code \in Codes, Fault(code), pc # "done" PROVE TypeInv'
<1>1. faults' \in 0..MaxFaults
  BY FaultsAssumption DEF Fault, TypeInv, TypeOK
<1> QED
  BY <1>1, ThrowKeepsTypes DEF Fault

LEMMA TypeInvInit == Init => TypeInv
<1> SUFFICES ASSUME Init PROVE TypeInv
  OBVIOUS
<1>1. profile \in [Targets -> Profile]
  BY ProfilesAssumption DEF Init
<1>2. (pc = "done") = (result # NoResult)
  BY DEF Init
<1>3. faults \in 0..MaxFaults
  BY FaultsAssumption DEF Init
<1>4. /\ final \in BOOLEAN /\ force \in BOOLEAN
      /\ creationCode \in BOOLEAN /\ creatorTxHash \in BOOLEAN
  BY DEF Init
<1>5. TypeOK
  BY <1>1, <1>2, <1>3, <1>4 DEF Init, TypeOK, Status
<1>6. input.mode # "search" \/ pc \in Examining => target \in Targets
  BY DEF Init, Examining, Comparing
<1> QED
  BY <1>5, <1>6 DEF TypeInv

LEMMA TypeInvStep == TypeInv /\ [Next]_vars => TypeInv'
<1> SUFFICES ASSUME TypeInv, [Next]_vars PROVE TypeInv'
  OBVIOUS
<1> USE DEF Codes, Goto
<1>1. CASE GetCreatorTx
  BY <1>1 DEF GetCreatorTx, TypeInv, TypeOK, Examining, Comparing, request, search, compilation, chain, matches, Proceed, RuntimePositions
<1>2. CASE CompileAndList
  <2>1. ASSUME ~ (Fault("compiler_error")) PROVE TypeInv'
    BY <1>2, <2>1 DEF CompileAndList, TypeInv, TypeOK, Examining, Comparing, request, search, compilation, chain, matches
  <2>2. pc # "done"
    BY <1>2 DEF CompileAndList
  <2> QED
    BY <2>1, <2>2, FaultKeepsTypes
<1>3. CASE TryCandidate
  <2>1. target' \in Targets /\ todo' \subseteq DOMAIN Candidates
    BY <1>3 DEF TryCandidate, TypeInv, TypeOK, Targets
  <2> QED
    BY <1>3, <2>1 DEF TryCandidate, TypeInv, TypeOK, Examining, Comparing, request, search, compilation, chain, matches
<1>4. CASE VerifyMatchAgain
  BY <1>4 DEF VerifyMatchAgain, TypeInv, TypeOK, Examining, Comparing, request, search, compilation, chain, matches, Proceed, RuntimePositions
<1>5. CASE NothingMatched
  <2>1. result'.code = "no_match" /\ NoResult.code = "none"
    BY <1>5 DEF NothingMatched, ErrorExport, NoResult
  <2>2. result' # NoResult
    BY <2>1
  <2> QED
    BY <1>5, <2>2 DEF NothingMatched, ErrorExport, TypeInv, TypeOK, Examining, Comparing, request, search, compilation, chain, matches
<1>6. CASE FetchRuntime
  <2>1. ASSUME ~ (Fault("cannot_fetch_bytecode")) PROVE TypeInv'
    BY <1>6, <2>1 DEF FetchRuntime, TypeInv, TypeOK, Examining, Comparing, request, search, compilation, chain, matches
  <2>2. pc # "done"
    BY <1>6 DEF FetchRuntime
  <2> QED
    BY <2>1, <2>2, FaultKeepsTypes
<1>7. CASE RefetchRuntime
  <2>1. ASSUME ~ (Fault("internal_error")) PROVE TypeInv'
    BY <1>7, <2>1 DEF RefetchRuntime, TypeInv, TypeOK, Examining, Comparing, request, search, compilation, chain, matches
  <2>2. pc # "done"
    BY <1>7 DEF RefetchRuntime
  <2> QED
    BY <2>1, <2>2, FaultKeepsTypes
<1>8. CASE NotDeployed
  <2>1. ASSUME ~ (Throw("contract_not_deployed")) PROVE TypeInv'
    BY <1>8, <2>1 DEF NotDeployed, TypeInv, TypeOK, Examining, Comparing, request, search, compilation, chain, matches
  <2>2. pc # "done" /\ faults' = faults
    BY <1>8 DEF NotDeployed, Proceed
  <2> QED
    BY <2>1, <2>2, ThrowKeepsTypes DEF TypeInv, TypeOK
<1>9. CASE Compile
  <2>1. ASSUME ~ (Fault("compiler_error")) PROVE TypeInv'
    BY <1>9, <2>1 DEF Compile, TypeInv, TypeOK, Examining, Comparing, request, search, compilation, chain, matches
  <2>2. pc # "done"
    BY <1>9 DEF Compile
  <2> QED
    BY <2>1, <2>2, FaultKeepsTypes
<1>10. CASE ContractNotFound
  <2>1. ASSUME ~ (Throw("contract_not_found_in_compiler_output")) PROVE TypeInv'
    BY <1>10, <2>1 DEF ContractNotFound, TypeInv, TypeOK, Examining, Comparing, request, search, compilation, chain, matches
  <2>2. pc # "done" /\ faults' = faults
    BY <1>10 DEF ContractNotFound, Proceed
  <2> QED
    BY <2>1, <2>2, ThrowKeepsTypes DEF TypeInv, TypeOK
<1>11. CASE FindPerfectMetadata
  <2>1. profile' \in [Targets -> Profile]
    <3>1. ASSUME NEW p \in Profile PROVE WithPerfectMetadata(p) \in Profile
      BY DEF WithPerfectMetadata, Profile, Status
    <3> QED
      BY <1>11, <3>1 DEF FindPerfectMetadata, TypeInv, TypeOK, Examining
  <2>2. contracts' \subseteq Targets
    BY <1>11 DEF FindPerfectMetadata, MetadataVaries, TypeInv, TypeOK, Examining
  <2>4. faults' \in 0..MaxFaults
    BY <1>11, FaultsAssumption DEF FindPerfectMetadata, TypeInv, TypeOK, Examining
  <2>5. (pc' = "done") = (result' # NoResult)
    <3>1. result = NoResult
      BY <1>11 DEF FindPerfectMetadata, TypeInv, TypeOK
    <3>2. NoResult.code = "none" /\ [NoResult EXCEPT !.code = "no_compiler_output",
                                                    !.target = target].code # "none"
      BY DEF NoResult
    <3> QED
      BY <1>11, <3>1, <3>2 DEF FindPerfectMetadata
  <2> QED
    BY <1>11, <2>1, <2>2, <2>4, <2>5 DEF FindPerfectMetadata, TypeInv, TypeOK, Examining, Comparing, request, search, compilation, chain, matches
<1>12. CASE KeepMetadata
  BY <1>12 DEF KeepMetadata, TypeInv, TypeOK, Examining, Comparing, request, search, compilation, chain, matches, Proceed, RuntimePositions
<1>13. CASE CheckLength
  <2>1. ASSUME ~ (Throw("compiled_bytecode_is_zero") \/ Throw("extra_file_input_bug") \/ Throw("bytecode_length_mismatch")) PROVE TypeInv'
    BY <1>13, <2>1 DEF CheckLength, TypeInv, TypeOK, Examining, Comparing, request, search, compilation, chain, matches, Proceed
  <2>2. pc # "done" /\ faults' = faults
    BY <1>13 DEF CheckLength, Proceed
  <2> QED
    BY <2>1, <2>2, ThrowKeepsTypes DEF TypeInv, TypeOK
<1>14. CASE GeneratePositions
  BY <1>14 DEF GeneratePositions, TypeInv, TypeOK, Examining, Comparing, request, search, compilation, chain, matches, Proceed, RuntimePositions
<1>15. CASE PositionsFail
  <2>1. faults' \in 0..MaxFaults
    BY <1>15, FaultsAssumption DEF PositionsFail, TypeInv, TypeOK
  <2> QED
    BY <1>15, <2>1 DEF PositionsFail, TypeInv, TypeOK, Examining, Comparing, request, search, compilation, chain, matches
<1>16. CASE MatchRuntime
  <2>1. profile[target].runtime \in Status
    BY <1>16 DEF MatchRuntime, TypeInv, TypeOK, Profile, Examining, Comparing
  <2> QED
    BY <1>16, <2>1 DEF MatchRuntime, Outcomes, Status, TypeInv, TypeOK, Examining, Comparing, request, search, compilation, chain, matches
<1>17. CASE HandleBugs
  <2>1. ASSUME ~ (Throw("extra_file_input_bug")) PROVE TypeInv'
    BY <1>17, <2>1 DEF HandleBugs, TypeInv, TypeOK, Examining, Comparing, request, search, compilation, chain, matches, Proceed
  <2>2. pc # "done" /\ faults' = faults
    BY <1>17 DEF HandleBugs, Proceed
  <2> QED
    BY <2>1, <2>2, ThrowKeepsTypes DEF TypeInv, TypeOK
<1>18. CASE FetchCreation
  <2>1. faults' = faults \/ (faults < MaxFaults /\ faults' = faults + 1)
    BY <1>18, Zenon DEF FetchCreation
  <2>2. faults' \in 0..MaxFaults
    BY <2>1, FaultsAssumption DEF TypeInv, TypeOK
  <2> QED
    BY <1>18, <2>2 DEF FetchCreation, TypeInv, TypeOK, Examining, Comparing, request, search, compilation, chain, matches
<1>19. CASE CreationAsBefore
  BY <1>19 DEF CreationAsBefore, TypeInv, TypeOK, Examining, Comparing, request, search, compilation, chain, matches, Proceed, RuntimePositions
<1>20. CASE MatchCreation
  <2>1. profile[target].creation \in Status
    BY <1>20 DEF MatchCreation, TypeInv, TypeOK, Profile, Examining, Comparing
  <2> QED
    BY <1>20, <2>1 DEF MatchCreation, Outcomes, Status, TypeInv, TypeOK, Examining, Comparing, request, search, compilation, chain, matches
<1>21. CASE Export
  <2>1. result'.code = "match" /\ NoResult.code = "none"
    BY <1>21 DEF Export, NoResult
  <2>2. result' # NoResult
    BY <2>1
  <2> QED
    BY <1>21, <2>2 DEF Export, TypeInv, TypeOK, Examining, Comparing, request, search, compilation, chain, matches
<1>22. CASE NoteMatch
  <2>1. ASSUME ~ (Throw("invalid_compilation_target")) PROVE TypeInv'
    BY <1>22, <2>1 DEF NoteMatch, TypeInv, TypeOK, Examining, Comparing, request, search, compilation, chain, matches
  <2>2. pc # "done" /\ faults' = faults
    BY <1>22 DEF NoteMatch
  <2> QED
    BY <2>1, <2>2, ThrowKeepsTypes DEF TypeInv, TypeOK
<1>23. CASE NoMatch
  <2>1. ASSUME ~ (Throw("no_match")) PROVE TypeInv'
    BY <1>23, <2>1 DEF NoMatch, TypeInv, TypeOK, Examining, Comparing, request, search, compilation, chain, matches
  <2>2. pc # "done" /\ faults' = faults
    BY <1>23 DEF NoMatch, Proceed
  <2> QED
    BY <2>1, <2>2, ThrowKeepsTypes DEF TypeInv, TypeOK
<1>24. CASE UNCHANGED vars
  BY <1>24 DEF vars, TypeInv, TypeOK, Examining, Comparing, request, search, compilation, chain, matches
<1> QED
  BY <1>1, <1>2, <1>3, <1>4, <1>5, <1>6, <1>7, <1>8, <1>9, <1>10, <1>11, <1>12,
     <1>13, <1>14, <1>15, <1>16, <1>17, <1>18, <1>19, <1>20, <1>21, <1>22, <1>23, <1>24 DEF Next

\* Every variable of a worker's verification stays within its type, and a
\* result is there exactly when the worker has returned one.
THEOREM VerificationTypeCorrect == Spec => []TypeOK
BY TypeInvInit, TypeInvStep, PTL DEF Spec, TypeInv

-----------------------------------------------------------------------------
(* The search *)

\* Its metadata is what it will be compared with.
Settled(t) == ~(input.language = "Solidity" /\ profile[t].metadata = "varied")

SettledSteps == {"length", "positions", "runtime"} \cup Comparing

\* Where the search is.  The match is no candidate that is still to come, and
\* neither is the contract under examination.
SearchInv ==
  /\ input.mode # "search" => matched = None
  /\ pc \in {"start", "list"} => matched = None /\ ~final
  /\ pc \in {"list", "next"} => input.mode = "search" /\ ~final
  /\ final => input.mode = "search" /\ matched # None /\ target = matched
  /\ matched # None => Settled(matched)
  /\ matched # None /\ ~final => \A i \in todo : Candidates[i] # matched
  /\ pc \in Examining /\ input.mode = "search" /\ ~final =>
       target # matched /\ \A i \in todo : Candidates[i] # target
  /\ pc \in SettledSteps => Settled(target)

\* The search stands still while a contract is examined.
SearchKept ==
  /\ UNCHANGED <<input, profile, search, target>>
  /\ pc \in Examining /\ pc' \in Examining \cup {"done"}
  /\ pc' \in SettledSteps => pc \in SettledSteps \/ Settled(target)

LEMMA SearchKeptKeeps == SearchInv /\ SearchKept => SearchInv'
BY DEF SearchInv, SearchKept, Settled, search, Examining, Comparing

LEMMA ThrowKeepsSearch ==
  ASSUME SearchInv, NEW code, Throw(code) PROVE SearchInv'
<1> USE DEF SearchInv, Settled, Examining, Comparing, SettledSteps
<1>1. CASE Continues(code) /\ pc' = "next"
           /\ UNCHANGED <<request, profile, search, target, force, compilation,
                          chain, matches, result>>
  BY <1>1 DEF request, search, Continues
<1>2. CASE input.mode = "metadata" /\ WithAllSources
  BY <1>2 DEF WithAllSources, search
<1>3. CASE ErrorExport(code)
  BY <1>3 DEF ErrorExport, request, search
<1> QED
  BY <1>1, <1>2, <1>3, ThrowCases

LEMMA SearchInvInit == Init => SearchInv
BY DEF Init, SearchInv, Examining, Comparing, SettledSteps

LEMMA SearchInvStep ==
  ASSUME TypeInv, SearchInv, [Next]_vars PROVE SearchInv'
<1> USE DEF Goto, Proceed
<1>1. CASE GetCreatorTx
  BY <1>1 DEF GetCreatorTx, SearchInv, request, search, Examining, Comparing, SettledSteps, Settled
<1>2. CASE CompileAndList
  <2>1. CASE Fault("compiler_error")
    BY <2>1, ThrowKeepsSearch DEF Fault
  <2>2. CASE ~ Fault("compiler_error")
    BY <1>2, <2>2 DEF CompileAndList, SearchInv, request, Examining, Comparing, SettledSteps, Settled
  <2> QED
    BY <2>1, <2>2
<1>3. CASE TryCandidate
  <2>1. PICK i \in todo : target' = Candidates[i] /\ todo' = todo \ {i}
    BY <1>3 DEF TryCandidate
  <2>2. \A k \in todo' : Candidates[k] # target'
    BY <2>1, CandidatesAssumption DEF TypeInv, TypeOK
  <2>3. UNCHANGED <<input, profile, matched, final>> /\ pc' = "fetch" /\ pc = "next"
    BY <1>3 DEF TryCandidate, request
  <2>4. input.mode = "search" /\ ~ final
    BY <2>3 DEF SearchInv
  <2>5. matched # None => target' # matched /\ \A k \in todo' : Candidates[k] # matched
    BY <2>1, <2>4 DEF SearchInv
  <2>6. input'.mode = "search" /\ ~ final' /\ matched' = matched
    BY <2>3, <2>4
  <2>7. matched # None => Settled(matched)'
    BY <2>3 DEF SearchInv, Settled
  <2>8. pc' \notin {"start", "list", "next"} \cup SettledSteps
    BY <2>3 DEF SettledSteps, Comparing
  <2>9. matched' # None => target' # matched' /\ \A k \in todo' : Candidates[k] # matched'
    BY <2>5, <2>6
  <2>10. target' # matched'
    BY <2>9, <2>2, <2>1, NothingIsNoTarget DEF TypeInv, TypeOK, Targets
  <2> QED
    BY <2>2, <2>6, <2>7, <2>8, <2>9, <2>10 DEF SearchInv
<1>4. CASE VerifyMatchAgain
  BY <1>4 DEF VerifyMatchAgain, SearchInv, request, Examining, Comparing, SettledSteps, Settled
<1>5. CASE NothingMatched
  BY <1>5 DEF NothingMatched, ErrorExport, SearchInv, request, search, Examining, Comparing, SettledSteps, Settled
<1>6. CASE FetchRuntime
  <2>1. SearchKept \/ Throw("cannot_fetch_bytecode")
    BY <1>6 DEF FetchRuntime, SearchKept, Examining, Comparing, SettledSteps, Goto, Proceed, request, Fault
  <2> QED
    BY <2>1, SearchKeptKeeps, ThrowKeepsSearch
<1>7. CASE RefetchRuntime
  <2>1. SearchKept \/ Throw("internal_error")
    BY <1>7 DEF RefetchRuntime, SearchKept, Examining, Comparing, SettledSteps, Goto, Proceed, request, Fault
  <2> QED
    BY <2>1, SearchKeptKeeps, ThrowKeepsSearch
<1>8. CASE NotDeployed
  BY <1>8, ThrowKeepsSearch DEF NotDeployed
<1>9. CASE Compile
  <2>1. SearchKept \/ Throw("compiler_error")
    BY <1>9 DEF Compile, SearchKept, Examining, Comparing, SettledSteps, Goto, Proceed, request, Fault
  <2> QED
    BY <2>1, SearchKeptKeeps, ThrowKeepsSearch
<1>10. CASE ContractNotFound
  BY <1>10, ThrowKeepsSearch DEF ContractNotFound
<1>11. CASE FindPerfectMetadata
  <2>1. /\ UNCHANGED <<input, todo, matched, final, target>> /\ pc = "perfect"
        /\ target \in Targets /\ ~ Settled(target) /\ pc' \in {"length", "done"}
        /\ profile' = [profile EXCEPT ![target] = WithPerfectMetadata(profile[target])]
    BY <1>11 DEF FindPerfectMetadata, MetadataVaries, Settled, TypeInv, Examining, request, search
  <2>2. profile[target] \in Profile /\ profile \in [Targets -> Profile]
    BY <2>1 DEF TypeInv, TypeOK
  <2>3. profile'[target].metadata = "same"
    BY <2>1, <2>2 DEF WithPerfectMetadata, Profile
  <2>4. matched # None => matched # target /\ matched \in Targets
    BY <2>1 DEF SearchInv, TypeInv, TypeOK
  <2>5. matched # None => profile'[matched] = profile[matched]
    BY <2>1, <2>2, <2>4
  <2> QED
    BY <2>1, <2>3, <2>5 DEF SearchInv, Settled, Examining, Comparing, SettledSteps
<1>12. CASE KeepMetadata
  BY <1>12, SearchKeptKeeps DEF KeepMetadata, SearchKept, Examining, Comparing, SettledSteps, Goto, Proceed, request, Fault, MetadataVaries, Settled
<1>13. CASE CheckLength
  <2>1. SearchKept \/ Throw("compiled_bytecode_is_zero") \/ Throw("extra_file_input_bug") \/ Throw("bytecode_length_mismatch")
    BY <1>13 DEF CheckLength, SearchKept, Examining, Comparing, SettledSteps, Goto, Proceed, request, Fault
  <2> QED
    BY <2>1, SearchKeptKeeps, ThrowKeepsSearch
<1>14. CASE GeneratePositions
  BY <1>14, SearchKeptKeeps DEF GeneratePositions, SearchKept, Examining, Comparing, SettledSteps, Goto, Proceed, request, Fault
<1>15. CASE PositionsFail
  BY <1>15, SearchKeptKeeps DEF PositionsFail, SearchKept, Examining, Comparing, SettledSteps, Goto, Proceed, request, Fault
<1>16. CASE MatchRuntime
  BY <1>16, SearchKeptKeeps DEF MatchRuntime, SearchKept, Examining, Comparing, SettledSteps, Goto, Proceed, request, Fault
<1>17. CASE HandleBugs
  <2>1. SearchKept \/ Throw("extra_file_input_bug")
    BY <1>17 DEF HandleBugs, SearchKept, Examining, Comparing, SettledSteps, Goto, Proceed, request, Fault
  <2> QED
    BY <2>1, SearchKeptKeeps, ThrowKeepsSearch
<1>18. CASE FetchCreation
  BY <1>18, SearchKeptKeeps DEF FetchCreation, SearchKept, Examining, Comparing, SettledSteps, Goto, Proceed, request, Fault
<1>19. CASE CreationAsBefore
  BY <1>19, SearchKeptKeeps DEF CreationAsBefore, SearchKept, Examining, Comparing, SettledSteps, Goto, Proceed, request, Fault
<1>20. CASE MatchCreation
  BY <1>20, SearchKeptKeeps DEF MatchCreation, SearchKept, Examining, Comparing, SettledSteps, Goto, Proceed, request, Fault
<1>21. CASE Export
  BY <1>21, SearchKeptKeeps DEF Export, SearchKept, Examining, Comparing, SettledSteps, Goto, Proceed, request, Fault
<1>22. CASE NoteMatch
  <2>1. CASE Throw("invalid_compilation_target")
    BY <2>1, ThrowKeepsSearch
  <2>2. CASE ~ Throw("invalid_compilation_target")
    BY <1>22, <2>2 DEF NoteMatch, SearchInv, request, Examining, Comparing, SettledSteps, Settled
  <2> QED
    BY <2>1, <2>2
<1>23. CASE NoMatch
  BY <1>23, ThrowKeepsSearch DEF NoMatch
<1>24. CASE UNCHANGED vars
  BY <1>24 DEF vars, request, search, SearchInv, Settled
<1> QED
  BY <1>1, <1>2, <1>3, <1>4, <1>5, <1>6, <1>7, <1>8, <1>9, <1>10, <1>11, <1>12,
     <1>13, <1>14, <1>15, <1>16, <1>17, <1>18, <1>19, <1>20, <1>21, <1>22, <1>23, <1>24 DEF Next

-----------------------------------------------------------------------------
(* The statuses one contract leaves for the next *)

LeftRuntime  == runtimeMatch = "null"
                  \/ (matched # None /\ runtimeMatch = profile[matched].runtime)
LeftCreation == creationMatch = "null"
                  \/ (matched # None /\ creationMatch = profile[matched].creation)
OwnRuntime   == runtimeMatch \in {"null", profile[target].runtime}
OwnCreation  == creationMatch \in {"null", profile[target].creation}

\* A status that is not of the contract under examination is of the match, and
\* survives a comparison only when there are no positions to compare with.
CarryInv ==
  /\ pc \notin Comparing \cup {"done"} => LeftRuntime
  /\ pc \notin {"conclude", "done"} => LeftCreation
  /\ pc \in Comparing => OwnRuntime \/ (runtimeAuxdata = None /\ LeftRuntime)
  /\ pc = "conclude" => OwnCreation \/ (creationAuxdata = None /\ LeftCreation)

LEMMA ThrowKeepsCarry ==
  ASSUME SearchInv, NEW code, Throw(code), Continues(code) => LeftRuntime /\ LeftCreation
  PROVE  CarryInv'
<1> USE DEF CarryInv, LeftRuntime, LeftCreation, Comparing
<1>1. CASE Continues(code) /\ pc' = "next"
           /\ UNCHANGED <<request, profile, search, target, force, compilation,
                          chain, matches, result>>
  BY <1>1 DEF search, matches
<1>2. CASE input.mode = "metadata" /\ WithAllSources
  BY <1>2 DEF WithAllSources
<1>3. CASE ErrorExport(code)
  BY <1>3 DEF ErrorExport
<1> QED
  BY <1>1, <1>2, <1>3, ThrowCases

LEMMA CarryInvInit == Init => CarryInv
BY DEF Init, CarryInv, LeftRuntime, LeftCreation, Comparing

\* Most steps compare nothing.
CarryKept ==
  /\ UNCHANGED <<profile, matched, matches>>
  /\ pc \notin Comparing \cup {"done"} /\ pc' \notin Comparing

LEMMA CarryKeptKeeps == CarryInv /\ CarryKept => CarryInv'
BY DEF CarryInv, CarryKept, LeftRuntime, LeftCreation, matches, Comparing

LEMMA CarryInvStep ==
  ASSUME TypeInv, CreationInv, SearchInv, CarryInv, [Next]_vars PROVE CarryInv'
<1> USE DEF Goto, Proceed
<1>1. CASE GetCreatorTx
  BY <1>1, CarryKeptKeeps DEF GetCreatorTx, CarryKept, Comparing, search, Fault
<1>2. CASE CompileAndList
  <2>1. CarryKept \/ Throw("compiler_error")
    BY <1>2 DEF CompileAndList, CarryKept, Comparing, search, Fault
  <2>2. LeftRuntime /\ LeftCreation
    BY <1>2 DEF CompileAndList, CarryInv, Comparing
  <2> QED
    BY <2>1, <2>2, CarryKeptKeeps, ThrowKeepsCarry
<1>3. CASE TryCandidate
  BY <1>3, CarryKeptKeeps DEF TryCandidate, CarryKept, Comparing, search, Fault
<1>4. CASE VerifyMatchAgain
  BY <1>4, CarryKeptKeeps DEF VerifyMatchAgain, CarryKept, Comparing, search, Fault
<1>5. CASE NothingMatched
  BY <1>5 DEF NothingMatched, ErrorExport, CarryInv, Comparing
<1>6. CASE FetchRuntime
  <2>1. CarryKept \/ Throw("cannot_fetch_bytecode")
    BY <1>6 DEF FetchRuntime, CarryKept, Comparing, search, Fault
  <2>2. LeftRuntime /\ LeftCreation
    BY <1>6 DEF FetchRuntime, CarryInv, Comparing
  <2> QED
    BY <2>1, <2>2, CarryKeptKeeps, ThrowKeepsCarry
<1>7. CASE RefetchRuntime
  <2>1. CarryKept \/ Throw("internal_error")
    BY <1>7 DEF RefetchRuntime, CarryKept, Comparing, search, Fault
  <2>2. LeftRuntime /\ LeftCreation
    BY <1>7 DEF RefetchRuntime, CarryInv, Comparing
  <2> QED
    BY <2>1, <2>2, CarryKeptKeeps, ThrowKeepsCarry
<1>8. CASE NotDeployed
  <2>1. CarryKept \/ Throw("contract_not_deployed")
    BY <1>8 DEF NotDeployed, CarryKept, Comparing, search, Fault
  <2>2. LeftRuntime /\ LeftCreation
    BY <1>8 DEF NotDeployed, CarryInv, Comparing
  <2> QED
    BY <2>1, <2>2, CarryKeptKeeps, ThrowKeepsCarry
<1>9. CASE Compile
  <2>1. CarryKept \/ Throw("compiler_error")
    BY <1>9 DEF Compile, CarryKept, Comparing, search, Fault
  <2>2. LeftRuntime /\ LeftCreation
    BY <1>9 DEF Compile, CarryInv, Comparing
  <2> QED
    BY <2>1, <2>2, CarryKeptKeeps, ThrowKeepsCarry
<1>10. CASE ContractNotFound
  <2>1. CarryKept \/ Throw("contract_not_found_in_compiler_output")
    BY <1>10 DEF ContractNotFound, CarryKept, Comparing, search, Fault
  <2>2. LeftRuntime /\ LeftCreation
    BY <1>10 DEF ContractNotFound, CarryInv, Comparing
  <2> QED
    BY <2>1, <2>2, CarryKeptKeeps, ThrowKeepsCarry
<1>11. CASE FindPerfectMetadata
  <2>1. /\ UNCHANGED <<matched, matches>> /\ pc = "perfect"
        /\ target \in Targets /\ ~ Settled(target) /\ pc' \in {"length", "done"}
        /\ profile' = [profile EXCEPT ![target] = WithPerfectMetadata(profile[target])]
    BY <1>11 DEF FindPerfectMetadata, MetadataVaries, Settled, TypeInv, Examining, search
  <2>2. matched # None => matched # target /\ matched \in Targets
    BY <2>1 DEF SearchInv, TypeInv, TypeOK
  <2>3. matched # None => profile'[matched] = profile[matched]
    BY <2>1, <2>2 DEF TypeInv, TypeOK
  <2> QED
    BY <2>1, <2>3 DEF CarryInv, LeftRuntime, LeftCreation, Comparing, matches
<1>12. CASE KeepMetadata
  BY <1>12, CarryKeptKeeps DEF KeepMetadata, CarryKept, Comparing, search, Fault
<1>13. CASE CheckLength
  <2>1. CarryKept \/ Throw("compiled_bytecode_is_zero") \/ Throw("extra_file_input_bug") \/ Throw("bytecode_length_mismatch")
    BY <1>13 DEF CheckLength, CarryKept, Comparing, search, Fault
  <2>2. LeftRuntime /\ LeftCreation
    BY <1>13 DEF CheckLength, CarryInv, Comparing
  <2> QED
    BY <2>1, <2>2, CarryKeptKeeps, ThrowKeepsCarry
<1>14. CASE GeneratePositions
  BY <1>14, CarryKeptKeeps DEF GeneratePositions, CarryKept, Comparing, search, Fault
<1>15. CASE PositionsFail
  BY <1>15, CarryKeptKeeps DEF PositionsFail, CarryKept, Comparing, search, Fault
<1>16. CASE MatchRuntime
  <2>1. /\ UNCHANGED <<profile, matched, target, runtimeAuxdata, creationMatch>>
        /\ pc = "runtime" /\ pc' = "bugs"
    BY <1>16 DEF MatchRuntime, search, compilation
  <2>2. OwnRuntime' \/ (runtimeAuxdata = None /\ runtimeMatch' = runtimeMatch)
    BY <1>16, <2>1 DEF MatchRuntime, Outcomes, OwnRuntime
  <2> QED
    BY <2>1, <2>2 DEF CarryInv, LeftRuntime, LeftCreation, Comparing
<1>17. CASE HandleBugs
  <2>1. /\ LeftCreation
        /\ OwnRuntime \/ (runtimeAuxdata = None /\ LeftRuntime)
    BY <1>17 DEF HandleBugs, CarryInv, Comparing
  <2>2. CASE Throw("extra_file_input_bug")
    BY <2>2, ThrowKeepsCarry DEF Continues
  <2>3. CASE RetryWithEmscripten /\ pc' = "fetch" /\ UNCHANGED <<profile, search, matches>>
    <3>1. runtimeMatch = "null"
      BY <2>3 DEF RetryWithEmscripten, Unmatched
    <3>2. /\ runtimeMatch' = runtimeMatch /\ creationMatch' = creationMatch
          /\ matched' = matched /\ profile' = profile /\ pc' = "fetch"
      BY <2>3 DEF search, matches
    <3>3. LeftRuntime' /\ LeftCreation'
      BY <2>1, <3>1, <3>2 DEF LeftRuntime, LeftCreation
    <3> QED
      BY <3>2, <3>3 DEF CarryInv, Comparing
  <2>4. CASE Proceed("getCreation")
    <3>1. /\ runtimeMatch' = runtimeMatch /\ creationMatch' = creationMatch
          /\ matched' = matched /\ profile' = profile /\ pc' = "getCreation"
          /\ target' = target /\ runtimeAuxdata' = runtimeAuxdata
      BY <2>4 DEF search, matches, compilation
    <3>2. LeftCreation'
      BY <2>1, <3>1 DEF LeftCreation
    <3>3. OwnRuntime' \/ (runtimeAuxdata' = None /\ LeftRuntime')
      BY <2>1, <3>1 DEF LeftRuntime, OwnRuntime
    <3> QED
      BY <3>1, <3>2, <3>3 DEF CarryInv, Comparing
  <2> QED
    BY <1>17, <2>2, <2>3, <2>4 DEF HandleBugs
<1>18. CASE FetchCreation
  BY <1>18 DEF FetchCreation, CarryInv, LeftRuntime, LeftCreation, OwnRuntime, OwnCreation, Comparing, search, matches, compilation
<1>19. CASE CreationAsBefore
  BY <1>19 DEF CreationAsBefore, CarryInv, LeftRuntime, LeftCreation, OwnRuntime, OwnCreation, Comparing, search, matches, compilation
<1>20. CASE MatchCreation
  <2>1. /\ UNCHANGED <<profile, matched, target, runtimeAuxdata, creationAuxdata, runtimeMatch>>
        /\ pc = "creation" /\ pc' = "conclude"
    BY <1>20 DEF MatchCreation, search, compilation
  <2>2. CASE creationCode /\ creationAuxdata # None
    <3>1. creationMatch' \in Outcomes(profile[target].creation, creationAuxdata)
      BY <1>20, <2>2 DEF MatchCreation
    <3>2. OwnCreation'
      BY <3>1, <2>1 DEF Outcomes, OwnCreation
    <3> QED
      BY <2>1, <3>2 DEF CarryInv, LeftRuntime, OwnRuntime, Comparing
  <2>3. CASE ~ (creationCode /\ creationAuxdata # None)
    <3>1. creationMatch' = creationMatch
      BY <1>20, <2>3 DEF MatchCreation
    <3>2. creationAuxdata # None => creationMatch = "null"
      BY <2>3 DEF CreationInv
    <3> QED
      BY <2>1, <3>1, <3>2 DEF CarryInv, LeftRuntime, LeftCreation, OwnRuntime, OwnCreation, Comparing
  <2> QED
    BY <2>2, <2>3
<1>21. CASE Export
  BY <1>21 DEF Export, CarryInv, Comparing
<1>22. CASE NoteMatch
  <2>1. CASE Throw("invalid_compilation_target")
    BY <2>1, ThrowKeepsCarry DEF Continues
  <2>2. CASE ~ Throw("invalid_compilation_target")
    <3>1. /\ matched = None /\ matched' = target /\ pc = "conclude" /\ pc' = "next"
          /\ UNCHANGED <<profile, target, matches>>
      BY <1>22, <2>2 DEF NoteMatch
    <3>2. OwnRuntime /\ OwnCreation
      BY <3>1 DEF CarryInv, LeftRuntime, LeftCreation, OwnRuntime, OwnCreation, Comparing
    <3>3. matched' # None
      BY <3>1, NothingIsNoTarget DEF TypeInv, Examining, Comparing
    <3> QED
      BY <3>1, <3>2, <3>3
         DEF CarryInv, LeftRuntime, LeftCreation, OwnRuntime, OwnCreation, Comparing, matches
  <2> QED
    BY <2>1, <2>2
<1>23. CASE NoMatch
  <2>1. LeftRuntime /\ LeftCreation
    BY <1>23 DEF NoMatch, Verified, LeftRuntime, LeftCreation
  <2> QED
    BY <1>23, <2>1, ThrowKeepsCarry DEF NoMatch
<1>24. CASE UNCHANGED vars
  BY <1>24 DEF vars, request, CarryInv, LeftRuntime, LeftCreation, OwnRuntime, OwnCreation, Comparing, search, matches, compilation
<1> QED
  BY <1>1, <1>2, <1>3, <1>4, <1>5, <1>6, <1>7, <1>8, <1>9, <1>10, <1>11, <1>12,
     <1>13, <1>14, <1>15, <1>16, <1>17, <1>18, <1>19, <1>20, <1>21, <1>22, <1>23, <1>24 DEF Next

-----------------------------------------------------------------------------
(* The checks before a match *)

PassedSteps == {"positions", "runtime"} \cup Comparing
Concluding  == {"getCreation", "creation", "conclude"}

Passed ==
  /\ LengthFits(target)
  /\ ~(input.language = "Solidity" /\ ExtraFileInputBug /\ profile[target].size = "differs")

\* What is compared has passed the checks, and so has the match: examined by
\* objects of its own it would be accepted.
CheckInv ==
  /\ pc \in PassedSteps => Passed
  /\ pc \in Concluding => ~(Unmatched /\ ExtraFileInputBug)
  /\ matched # None => Accepts(matched)
  /\ runtimeAuxdata # None => LengthFits(runtimeAuxdata)

\* Most steps check nothing.
CheckKept ==
  /\ UNCHANGED <<input, profile, matched>>
  /\ creationCode => creationCode'
  /\ runtimeAuxdata' \in {runtimeAuxdata, None}
  /\ pc' \in PassedSteps => pc \in PassedSteps /\ target' = target
  /\ pc' \in Concluding => pc \in Concluding /\ target' = target /\ runtimeMatch' = runtimeMatch

LEMMA CheckKeptKeeps == CheckInv /\ CheckKept => CheckInv'
<1> SUFFICES ASSUME CheckInv, CheckKept PROVE CheckInv'
  OBVIOUS
<1>1. (pc \in PassedSteps => Passed)'
  BY DEF CheckInv, CheckKept, Passed, LengthFits, ExtraFileInputBug, PassedSteps, Comparing
<1>2. (pc \in Concluding => ~(Unmatched /\ ExtraFileInputBug))'
  BY DEF CheckInv, CheckKept, Unmatched, IsSolidity, ExtraFileInputBug, Concluding
<1>3. (matched # None => Accepts(matched))'
  <2> SUFFICES ASSUME matched # None, UNCHANGED <<input, profile, matched>>
               PROVE  Accepts(matched)'
    BY DEF CheckKept
  <2>1. Accepts(matched) /\ (creationCode => creationCode')
    BY DEF CheckInv, CheckKept
  <2>2. LengthFits(matched)' /\ ~ HitsExtraFileBug(matched)'
    BY <2>1 DEF Accepts, LengthFits, HitsExtraFileBug, IsSolidity
  <2>3. profile'[matched'].runtime # "null"
          \/ (creationCode' /\ profile'[matched'].creation # "null")
    BY <2>1 DEF Accepts
  <2> QED
    BY <2>2, <2>3 DEF Accepts
<1>4. (runtimeAuxdata # None => LengthFits(runtimeAuxdata))'
  BY DEF CheckInv, CheckKept, LengthFits
<1> QED
  BY <1>1, <1>2, <1>3, <1>4 DEF CheckInv

LEMMA ThrowKeepsCheck ==
  ASSUME SearchInv, CheckInv, NEW code, Throw(code) PROVE CheckInv'
<1>1. CASE Continues(code) /\ pc' = "next"
           /\ UNCHANGED <<request, profile, search, target, force, compilation,
                          chain, matches, result>>
  <2>1. CheckKept
    BY <1>1 DEF CheckKept, request, search, compilation, chain, PassedSteps, Concluding,
       Comparing
  <2> QED
    BY <2>1, CheckKeptKeeps
<1>2. CASE input.mode = "metadata" /\ WithAllSources
  <2>1. matched' = None /\ runtimeAuxdata' = None /\ pc' = "fetch"
    BY <1>2 DEF WithAllSources, search, SearchInv
  <2> QED
    BY <2>1 DEF CheckInv, PassedSteps, Concluding, Comparing
<1>3. CASE ErrorExport(code)
  <2>1. CheckKept
    BY <1>3 DEF ErrorExport, CheckKept, request, search, compilation, chain, PassedSteps,
       Concluding, Comparing
  <2> QED
    BY <2>1, CheckKeptKeeps
<1> QED
  BY <1>1, <1>2, <1>3, ThrowCases

LEMMA CheckInvInit == Init => CheckInv
BY DEF Init, CheckInv, PassedSteps, Concluding, Comparing

\* The contract that has just matched would be accepted by objects of its own,
\* unless it was compared without positions after another match.
LEMMA TargetIsAccepted ==
  ASSUME TypeInv, CreationInv, CarryInv, CheckInv, pc = "conclude", Verified,
         matched = None \/ None \notin {runtimeAuxdata, creationAuxdata}
  PROVE  Accepts(target)
<1>1. OwnRuntime /\ OwnCreation
  BY DEF CarryInv, LeftRuntime, LeftCreation, OwnRuntime, OwnCreation, Comparing
<1>2. Passed /\ ~(Unmatched /\ ExtraFileInputBug)
  BY DEF CheckInv, PassedSteps, Comparing, Concluding
<1>3. profile[target].runtime # "null" \/ (creationCode /\ profile[target].creation # "null")
  <2>1. CASE runtimeMatch # "null"
    BY <2>1, <1>1 DEF OwnRuntime
  <2>2. CASE creationMatch # "null"
    BY <2>2, <1>1 DEF OwnCreation, CreationInv
  <2> QED
    BY <2>1, <2>2 DEF Verified
<1>4. ~ HitsExtraFileBug(target)
  <2>1. ASSUME IsSolidity, input.optimizer, profile[target].metadata = "same",
               profile[target].runtime = "null"
        PROVE  FALSE
    <3>1. runtimeMatch = "null"
      BY <2>1, <1>1 DEF OwnRuntime
    <3> QED
      BY <2>1, <3>1, <1>2 DEF Unmatched, ExtraFileInputBug
  <2>2. ~(input.language = "Solidity" /\ ExtraFileInputBug /\ profile[target].size = "differs")
    BY <1>2 DEF Passed
  <2> QED
    BY <2>1, <2>2 DEF HitsExtraFileBug, ExtraFileInputBug
<1>5. LengthFits(target)
  BY <1>2 DEF Passed
<1> QED
  BY <1>3, <1>4, <1>5 DEF Accepts

LEMMA CheckInvStep ==
  ASSUME TypeInv, CreationInv, SearchInv, CarryInv, CheckInv, [Next]_vars PROVE CheckInv'
<1> USE DEF Goto, Proceed
<1>1. CASE GetCreatorTx
  BY <1>1, CheckKeptKeeps DEF GetCreatorTx, CheckKept, PassedSteps, Concluding, Comparing, request, search, compilation, chain, matches, Fault
<1>2. CASE CompileAndList
  <2>1. CheckKept \/ Throw("compiler_error")
    BY <1>2 DEF CompileAndList, CheckKept, PassedSteps, Concluding, Comparing, request, search, compilation, chain, matches, Fault
  <2> QED
    BY <2>1, CheckKeptKeeps, ThrowKeepsCheck
<1>3. CASE TryCandidate
  BY <1>3, CheckKeptKeeps DEF TryCandidate, CheckKept, PassedSteps, Concluding, Comparing, request, search, compilation, chain, matches, Fault
<1>4. CASE VerifyMatchAgain
  BY <1>4, CheckKeptKeeps DEF VerifyMatchAgain, CheckKept, PassedSteps, Concluding, Comparing, request, search, compilation, chain, matches, Fault
<1>5. CASE NothingMatched
  BY <1>5, CheckKeptKeeps DEF NothingMatched, CheckKept, PassedSteps, Concluding, Comparing, request, search, compilation, chain, matches, Fault, ErrorExport
<1>6. CASE FetchRuntime
  <2>1. CheckKept \/ Throw("cannot_fetch_bytecode")
    BY <1>6 DEF FetchRuntime, CheckKept, PassedSteps, Concluding, Comparing, request, search, compilation, chain, matches, Fault
  <2> QED
    BY <2>1, CheckKeptKeeps, ThrowKeepsCheck
<1>7. CASE RefetchRuntime
  <2>1. CheckKept \/ Throw("internal_error")
    BY <1>7 DEF RefetchRuntime, CheckKept, PassedSteps, Concluding, Comparing, request, search, compilation, chain, matches, Fault
  <2> QED
    BY <2>1, CheckKeptKeeps, ThrowKeepsCheck
<1>8. CASE NotDeployed
  BY <1>8, ThrowKeepsCheck DEF NotDeployed
<1>9. CASE Compile
  <2>1. CheckKept \/ Throw("compiler_error")
    BY <1>9 DEF Compile, CheckKept, PassedSteps, Concluding, Comparing, request, search, compilation, chain, matches, Fault
  <2> QED
    BY <2>1, CheckKeptKeeps, ThrowKeepsCheck
<1>10. CASE ContractNotFound
  BY <1>10, ThrowKeepsCheck DEF ContractNotFound
<1>11. CASE FindPerfectMetadata
  <2>1. /\ UNCHANGED <<input, matched, creationCode>> /\ pc = "perfect"
        /\ target \in Targets /\ ~ Settled(target) /\ pc' \in {"length", "done"}
        /\ profile' = [profile EXCEPT ![target] = WithPerfectMetadata(profile[target])]
        /\ runtimeAuxdata' = None
    BY <1>11 DEF FindPerfectMetadata, MetadataVaries, Settled, TypeInv, Examining, request, search, chain
  <2>2. matched # None => matched # target /\ matched \in Targets
    BY <2>1 DEF SearchInv, TypeInv, TypeOK
  <2>3. matched # None => profile'[matched] = profile[matched]
    BY <2>1, <2>2 DEF TypeInv, TypeOK
  <2>4. (matched # None => Accepts(matched))'
    <3> SUFFICES ASSUME matched # None PROVE Accepts(matched)'
      BY <2>1
    <3>1. Accepts(matched)
      BY DEF CheckInv
    <3>2. LengthFits(matched)' /\ ~ HitsExtraFileBug(matched)'
      BY <2>1, <2>3, <3>1 DEF Accepts, LengthFits, HitsExtraFileBug, IsSolidity
    <3>3. profile'[matched'].runtime # "null"
            \/ (creationCode' /\ profile'[matched'].creation # "null")
      BY <2>1, <2>3, <3>1 DEF Accepts
    <3> QED
      BY <3>2, <3>3 DEF Accepts
  <2> QED
    BY <2>1, <2>4 DEF CheckInv, PassedSteps, Concluding, Comparing
<1>12. CASE KeepMetadata
  BY <1>12, CheckKeptKeeps DEF KeepMetadata, CheckKept, PassedSteps, Concluding, Comparing, request, search, compilation, chain, matches, Fault
<1>13. CASE CheckLength
  <2>1. CASE Throw("compiled_bytecode_is_zero") \/ Throw("extra_file_input_bug")
             \/ Throw("bytecode_length_mismatch")
    BY <2>1, ThrowKeepsCheck
  <2>2. CASE /\ profile[target].size # "zero" /\ SizeAccepted
             /\ ~(profile[target].size = "differs"
                  /\ input.language = "Solidity" /\ ExtraFileInputBug)
             /\ Proceed("positions")
    <3>1. UNCHANGED <<input, profile, matched, target, creationCode, runtimeAuxdata>>
          /\ pc = "length" /\ pc' = "positions"
      BY <1>13, <2>2 DEF CheckLength, request, search, compilation, chain
    <3>3. profile[target].size \in {"same", "differs", "zero"}
      BY <3>1 DEF TypeInv, TypeOK, Examining, Profile
    <3>4. Passed
      BY <2>2, <3>3 DEF Passed, LengthFits, SizeAccepted
    <3>5. Passed'
      BY <3>1, <3>4 DEF Passed, LengthFits, ExtraFileInputBug
    <3>2. (matched # None => Accepts(matched))'
      <4> SUFFICES ASSUME matched # None PROVE Accepts(matched)'
        BY <3>1
      <4>1. Accepts(matched)
        BY DEF CheckInv
      <4> QED
        BY <3>1, <4>1 DEF Accepts, LengthFits, HitsExtraFileBug, IsSolidity
    <3>6. (runtimeAuxdata # None => LengthFits(runtimeAuxdata))'
      BY <3>1 DEF CheckInv, LengthFits
    <3> QED
      BY <3>1, <3>2, <3>5, <3>6 DEF CheckInv, Concluding
  <2> QED
    BY <1>13, <2>1, <2>2, Zenon DEF CheckLength
<1>14. CASE GeneratePositions
  <2>1. UNCHANGED <<input, profile, matched, target, creationCode>>
        /\ pc = "positions" /\ pc' = "runtime"
    BY <1>14 DEF GeneratePositions, request, search, chain
  <2>2. runtimeAuxdata' \in {target, runtimeAuxdata}
    BY <1>14 DEF GeneratePositions, RuntimePositions
  <2>3. (runtimeAuxdata # None => LengthFits(runtimeAuxdata))'
    BY <2>1, <2>2 DEF CheckInv, Passed, PassedSteps, LengthFits
  <2>4. Passed'
    BY <2>1 DEF CheckInv, Passed, PassedSteps, LengthFits, ExtraFileInputBug
  <2>5. (matched # None => Accepts(matched))'
    <3> SUFFICES ASSUME matched # None PROVE Accepts(matched)'
      BY <2>1
    <3>1. Accepts(matched)
      BY DEF CheckInv
    <3> QED
      BY <2>1, <3>1 DEF Accepts, LengthFits, HitsExtraFileBug, IsSolidity
  <2> QED
    BY <2>1, <2>3, <2>4, <2>5 DEF CheckInv, Concluding
<1>15. CASE PositionsFail
  <2>1. UNCHANGED <<input, profile, matched, target, creationCode>>
        /\ pc = "positions" /\ pc' = "runtime"
    BY <1>15 DEF PositionsFail, request, search, chain
  <2>2. runtimeAuxdata' \in {target, runtimeAuxdata}
    BY <1>15 DEF PositionsFail
  <2>3. (runtimeAuxdata # None => LengthFits(runtimeAuxdata))'
    BY <2>1, <2>2 DEF CheckInv, Passed, PassedSteps, LengthFits
  <2>4. Passed'
    BY <2>1 DEF CheckInv, Passed, PassedSteps, LengthFits, ExtraFileInputBug
  <2>5. (matched # None => Accepts(matched))'
    <3> SUFFICES ASSUME matched # None PROVE Accepts(matched)'
      BY <2>1
    <3>1. Accepts(matched)
      BY DEF CheckInv
    <3> QED
      BY <2>1, <3>1 DEF Accepts, LengthFits, HitsExtraFileBug, IsSolidity
  <2> QED
    BY <2>1, <2>3, <2>4, <2>5 DEF CheckInv, Concluding
<1>16. CASE MatchRuntime
  BY <1>16, CheckKeptKeeps DEF MatchRuntime, CheckKept, PassedSteps, Concluding, Comparing, request, search, compilation, chain, matches, Fault
<1>17. CASE HandleBugs
  <2>1. CASE Throw("extra_file_input_bug")
    BY <2>1, ThrowKeepsCheck
  <2>2. CASE pc' = "fetch" /\ UNCHANGED <<request, profile, search, target, compilation, chain,
                                         matches, result>>
    BY <2>2, CheckKeptKeeps DEF CheckKept, PassedSteps, Concluding, Comparing, request, search, compilation, chain, matches, Fault
  <2>3. CASE ~(Unmatched /\ ExtraFileInputBug) /\ Proceed("getCreation")
    <3>1. UNCHANGED <<input, profile, matched, target, creationCode, runtimeAuxdata, runtimeMatch>>
          /\ pc = "bugs" /\ pc' = "getCreation"
      BY <1>17, <2>3 DEF HandleBugs, request, search, compilation, chain, matches
    <3>3. Passed'
      BY <3>1 DEF CheckInv, Passed, PassedSteps, Comparing, LengthFits, ExtraFileInputBug
    <3>4. ~(Unmatched /\ ExtraFileInputBug)'
      BY <2>3, <3>1 DEF Unmatched, IsSolidity, ExtraFileInputBug
    <3>2. (matched # None => Accepts(matched))'
      <4> SUFFICES ASSUME matched # None PROVE Accepts(matched)'
        BY <3>1
      <4>1. Accepts(matched)
        BY DEF CheckInv
      <4> QED
        BY <3>1, <4>1 DEF Accepts, LengthFits, HitsExtraFileBug, IsSolidity
    <3>5. (runtimeAuxdata # None => LengthFits(runtimeAuxdata))'
      BY <3>1 DEF CheckInv, LengthFits
    <3> QED
      BY <3>2, <3>3, <3>4, <3>5 DEF CheckInv
  <2> QED
    BY <1>17, <2>1, <2>2, <2>3 DEF HandleBugs
<1>18. CASE FetchCreation
  <2>1. creationCode => creationCode'
    BY <1>18 DEF FetchCreation
  <2> QED
    BY <1>18, <2>1, CheckKeptKeeps DEF FetchCreation, CheckKept, PassedSteps, Concluding, Comparing, request, search, compilation, chain, matches, Fault
<1>19. CASE CreationAsBefore
  BY <1>19, CheckKeptKeeps DEF CreationAsBefore, CheckKept, PassedSteps, Concluding, Comparing, request, search, compilation, chain, matches, Fault
<1>20. CASE MatchCreation
  BY <1>20, CheckKeptKeeps DEF MatchCreation, CheckKept, PassedSteps, Concluding, Comparing, request, search, compilation, chain, matches, Fault
<1>21. CASE Export
  BY <1>21, CheckKeptKeeps DEF Export, CheckKept, PassedSteps, Concluding, Comparing, request, search, compilation, chain, matches, Fault
<1>22. CASE NoteMatch
  <2>1. CASE Throw("invalid_compilation_target")
    BY <2>1, ThrowKeepsCheck
  <2>2. CASE ~ Throw("invalid_compilation_target")
    <3>1. /\ matched = None /\ matched' = target /\ pc = "conclude" /\ pc' = "next" /\ Verified
          /\ UNCHANGED <<input, profile, target, creationCode, runtimeAuxdata>>
      BY <1>22, <2>2 DEF NoteMatch, request, compilation, chain
    <3>2. Accepts(target)
      BY <3>1, TargetIsAccepted
    <3>3. Accepts(matched)'
      BY <3>1, <3>2 DEF Accepts, LengthFits, HitsExtraFileBug, IsSolidity
    <3>4. (runtimeAuxdata # None => LengthFits(runtimeAuxdata))'
      BY <3>1 DEF CheckInv, LengthFits
    <3> QED
      BY <3>1, <3>3, <3>4 DEF CheckInv, PassedSteps, Concluding, Comparing
  <2> QED
    BY <2>1, <2>2
<1>23. CASE NoMatch
  BY <1>23, ThrowKeepsCheck DEF NoMatch
<1>24. CASE UNCHANGED vars
  BY <1>24, CheckKeptKeeps DEF vars, CheckKept, PassedSteps, Concluding, Comparing, request, search, compilation, chain, matches, Fault
<1> QED
  BY <1>1, <1>2, <1>3, <1>4, <1>5, <1>6, <1>7, <1>8, <1>9, <1>10, <1>11, <1>12,
     <1>13, <1>14, <1>15, <1>16, <1>17, <1>18, <1>19, <1>20, <1>21, <1>22, <1>23, <1>24 DEF Next

-----------------------------------------------------------------------------
(* Without a failed call *)

Matching == {"runtime"} \cup Comparing

\* As long as no call has failed there are positions to compare with, its own
\* but for those kept of another contract, and no status is lost.
FaultFreeInv ==
  faults = 0 =>
    /\ pc \in Matching =>
         /\ creationAuxdata = target /\ runtimeAuxdata # None
         /\ runtimeAuxdata = target
              \/ (IsSolidity /\ profile[target].auxdatas = "many")
    /\ pc \in Comparing =>
         runtimeMatch = profile[target].runtime \/ MayMissAuxdata(target)
    /\ pc = "conclude" =>
         creationMatch = IF creationCode THEN profile[target].creation ELSE "null"

LEMMA FaultFreeInvInit == Init => FaultFreeInv
BY DEF Init, FaultFreeInv, Matching, Comparing

LEMMA ThrowLeaves ==
  ASSUME NEW code, Throw(code) PROVE pc' \in {"next", "fetch", "done"}
BY ThrowCases DEF WithAllSources, ErrorExport

LEMMA LeavingKeepsFaultFree == pc' \notin Matching => FaultFreeInv'
BY DEF FaultFreeInv, Matching, Comparing

LEMMA FaultFreeInvStep ==
  ASSUME TypeInv, CreationInv, CheckInv, FaultFreeInv, [Next]_vars PROVE FaultFreeInv'
<1> USE DEF Goto, Proceed
<1>1. CASE GetCreatorTx
  BY <1>1, LeavingKeepsFaultFree DEF GetCreatorTx, Matching, Comparing
<1>2. CASE CompileAndList
  <2>1. pc' \notin Matching \/ Throw("compiler_error")
    BY <1>2 DEF CompileAndList, Matching, Comparing, Fault
  <2> QED
    BY <2>1, ThrowLeaves, LeavingKeepsFaultFree DEF Matching, Comparing
<1>3. CASE TryCandidate
  BY <1>3, LeavingKeepsFaultFree DEF TryCandidate, Matching, Comparing
<1>4. CASE VerifyMatchAgain
  BY <1>4, LeavingKeepsFaultFree DEF VerifyMatchAgain, Matching, Comparing
<1>5. CASE NothingMatched
  BY <1>5, LeavingKeepsFaultFree DEF NothingMatched, Matching, Comparing, ErrorExport
<1>6. CASE FetchRuntime
  <2>1. pc' \notin Matching \/ Throw("cannot_fetch_bytecode")
    BY <1>6 DEF FetchRuntime, Matching, Comparing, Fault
  <2> QED
    BY <2>1, ThrowLeaves, LeavingKeepsFaultFree DEF Matching, Comparing
<1>7. CASE RefetchRuntime
  <2>1. pc' \notin Matching \/ Throw("internal_error")
    BY <1>7 DEF RefetchRuntime, Matching, Comparing, Fault
  <2> QED
    BY <2>1, ThrowLeaves, LeavingKeepsFaultFree DEF Matching, Comparing
<1>8. CASE NotDeployed
  <2>1. pc' \notin Matching \/ Throw("contract_not_deployed")
    BY <1>8 DEF NotDeployed, Matching, Comparing, Fault
  <2> QED
    BY <2>1, ThrowLeaves, LeavingKeepsFaultFree DEF Matching, Comparing
<1>9. CASE Compile
  <2>1. pc' \notin Matching \/ Throw("compiler_error")
    BY <1>9 DEF Compile, Matching, Comparing, Fault
  <2> QED
    BY <2>1, ThrowLeaves, LeavingKeepsFaultFree DEF Matching, Comparing
<1>10. CASE ContractNotFound
  <2>1. pc' \notin Matching \/ Throw("contract_not_found_in_compiler_output")
    BY <1>10 DEF ContractNotFound, Matching, Comparing, Fault
  <2> QED
    BY <2>1, ThrowLeaves, LeavingKeepsFaultFree DEF Matching, Comparing
<1>11. CASE FindPerfectMetadata
  BY <1>11, LeavingKeepsFaultFree DEF FindPerfectMetadata, Matching, Comparing
<1>12. CASE KeepMetadata
  BY <1>12, LeavingKeepsFaultFree DEF KeepMetadata, Matching, Comparing
<1>13. CASE CheckLength
  <2>1. pc' \notin Matching \/ Throw("compiled_bytecode_is_zero") \/ Throw("extra_file_input_bug") \/ Throw("bytecode_length_mismatch")
    BY <1>13 DEF CheckLength, Matching, Comparing, Fault
  <2> QED
    BY <2>1, ThrowLeaves, LeavingKeepsFaultFree DEF Matching, Comparing
<1>14. CASE GeneratePositions
  <2>1. /\ pc = "positions" /\ pc' = "runtime" /\ UNCHANGED <<input, profile, target, faults>>
        /\ runtimeAuxdata' = RuntimePositions /\ creationAuxdata' = target
    BY <1>14 DEF GeneratePositions, request, search
  <2>2. target # None
    BY <2>1, NothingIsNoTarget DEF TypeInv, Examining
  <2>3. /\ RuntimePositions # None
        /\ RuntimePositions = target \/ (IsSolidity /\ profile[target].auxdatas = "many")
    BY <2>2 DEF RuntimePositions
  <2>4. IsSolidity' = IsSolidity
    BY <2>1 DEF IsSolidity
  <2> QED
    BY <2>1, <2>3, <2>4 DEF FaultFreeInv, Comparing
<1>15. CASE PositionsFail
  <2>1. faults' # 0
    BY <1>15 DEF PositionsFail, TypeInv, TypeOK
  <2> QED
    BY <2>1 DEF FaultFreeInv
<1>16. CASE MatchRuntime
  <2> SUFFICES ASSUME faults' = 0 PROVE FaultFreeInv'
    BY DEF FaultFreeInv
  <2>1. /\ pc = "runtime" /\ pc' = "bugs"
        /\ UNCHANGED <<input, profile, target, faults, runtimeAuxdata, creationAuxdata>>
    BY <1>16 DEF MatchRuntime, request, search, compilation
  <2>2. /\ creationAuxdata = target /\ runtimeAuxdata # None
        /\ runtimeAuxdata = target \/ (IsSolidity /\ profile[target].auxdatas = "many")
    BY <2>1 DEF FaultFreeInv, Matching
  <2>3. runtimeMatch' \in Outcomes(profile[target].runtime, runtimeAuxdata)
    BY <1>16, <2>2 DEF MatchRuntime
  <2>4. CASE profile[target].runtime # "partial" \/ runtimeAuxdata = target
    <3>1. runtimeMatch' = profile[target].runtime
      BY <2>3, <2>4 DEF Outcomes
    <3> QED
      BY <2>1, <2>2, <3>1 DEF FaultFreeInv, Comparing, IsSolidity
  <2>5. CASE profile[target].runtime = "partial" /\ runtimeAuxdata # target
    <3>1. runtimeAuxdata \in Targets /\ LengthFits(runtimeAuxdata)
      BY <2>2 DEF CheckInv, TypeInv, TypeOK
    <3>2. MayMissAuxdata(target)
      BY <2>2, <2>5, <3>1 DEF MayMissAuxdata
    <3>3. MayMissAuxdata(target)'
      BY <2>1, <3>2 DEF MayMissAuxdata, LengthFits, IsSolidity
    <3> QED
      BY <2>1, <2>2, <3>3 DEF FaultFreeInv, Comparing, IsSolidity
  <2> QED
    BY <2>4, <2>5
<1>17. CASE HandleBugs
  <2>1. CASE Throw("extra_file_input_bug")
    BY <2>1, ThrowLeaves, LeavingKeepsFaultFree DEF Matching, Comparing
  <2>2. CASE pc' = "fetch"
    BY <2>2, LeavingKeepsFaultFree DEF Matching, Comparing
  <2> SUFFICES ASSUME faults' = 0 PROVE FaultFreeInv'
    BY DEF FaultFreeInv
  <2>3. CASE Proceed("getCreation")
    <3>1. /\ pc = "bugs" /\ pc' = "getCreation"
          /\ UNCHANGED <<input, profile, target, faults, runtimeAuxdata, creationAuxdata,
                         runtimeMatch>>
      BY <1>17, <2>3 DEF HandleBugs, request, search, compilation, matches
    <3>2. /\ creationAuxdata = target /\ runtimeAuxdata # None
          /\ runtimeAuxdata = target \/ (IsSolidity /\ profile[target].auxdatas = "many")
          /\ runtimeMatch = profile[target].runtime \/ MayMissAuxdata(target)
      BY <3>1 DEF FaultFreeInv, Matching, Comparing
    <3>3. /\ creationAuxdata' = target' /\ runtimeAuxdata' # None
          /\ runtimeAuxdata' = target'
               \/ (IsSolidity' /\ profile'[target'].auxdatas = "many")
      BY <3>1, <3>2 DEF IsSolidity
    <3>4. (runtimeMatch = profile[target].runtime \/ MayMissAuxdata(target))'
      BY <3>1, <3>2 DEF MayMissAuxdata, LengthFits, IsSolidity
    <3> QED
      BY <3>1, <3>3, <3>4 DEF FaultFreeInv
  <2> QED
    BY <1>17, <2>1, <2>2, <2>3 DEF HandleBugs
<1>18. CASE FetchCreation
  <2> SUFFICES ASSUME faults' = 0 PROVE FaultFreeInv'
    BY DEF FaultFreeInv
  <2>1. faults' = faults
    <3>1. faults' = faults \/ faults' = faults + 1
      BY <1>18 DEF FetchCreation
    <3> QED
      BY <3>1 DEF TypeInv, TypeOK
  <2>2. FaultFreeInv'
    <3>1. /\ pc = "getCreation" /\ pc' = "creation"
          /\ UNCHANGED <<input, profile, target, faults, runtimeAuxdata, creationAuxdata,
                         runtimeMatch>>
      BY <1>18, <2>1 DEF FetchCreation, request, search, compilation, matches
    <3>2. /\ creationAuxdata = target /\ runtimeAuxdata # None
          /\ runtimeAuxdata = target \/ (IsSolidity /\ profile[target].auxdatas = "many")
          /\ runtimeMatch = profile[target].runtime \/ MayMissAuxdata(target)
      BY <3>1 DEF FaultFreeInv, Matching, Comparing
    <3>3. /\ creationAuxdata' = target' /\ runtimeAuxdata' # None
          /\ runtimeAuxdata' = target'
               \/ (IsSolidity' /\ profile'[target'].auxdatas = "many")
      BY <3>1, <3>2 DEF IsSolidity
    <3>4. (runtimeMatch = profile[target].runtime \/ MayMissAuxdata(target))'
      BY <3>1, <3>2 DEF MayMissAuxdata, LengthFits, IsSolidity
    <3> QED
      BY <3>1, <3>3, <3>4 DEF FaultFreeInv
  <2> QED
    BY <2>2
<1>19. CASE CreationAsBefore
  <2> SUFFICES ASSUME faults' = 0 PROVE FaultFreeInv'
    BY DEF FaultFreeInv
  <2>1. faults' = faults
    <3>1. faults' = faults \/ faults' = faults + 1
      BY <1>19 DEF CreationAsBefore
    <3> QED
      BY <3>1 DEF TypeInv, TypeOK
  <2>2. FaultFreeInv'
    <3>1. /\ pc = "getCreation" /\ pc' = "creation"
          /\ UNCHANGED <<input, profile, target, faults, runtimeAuxdata, creationAuxdata,
                         runtimeMatch>>
      BY <1>19, <2>1 DEF CreationAsBefore, request, search, compilation, matches
    <3>2. /\ creationAuxdata = target /\ runtimeAuxdata # None
          /\ runtimeAuxdata = target \/ (IsSolidity /\ profile[target].auxdatas = "many")
          /\ runtimeMatch = profile[target].runtime \/ MayMissAuxdata(target)
      BY <3>1 DEF FaultFreeInv, Matching, Comparing
    <3>3. /\ creationAuxdata' = target' /\ runtimeAuxdata' # None
          /\ runtimeAuxdata' = target'
               \/ (IsSolidity' /\ profile'[target'].auxdatas = "many")
      BY <3>1, <3>2 DEF IsSolidity
    <3>4. (runtimeMatch = profile[target].runtime \/ MayMissAuxdata(target))'
      BY <3>1, <3>2 DEF MayMissAuxdata, LengthFits, IsSolidity
    <3> QED
      BY <3>1, <3>3, <3>4 DEF FaultFreeInv
  <2> QED
    BY <2>2
<1>20. CASE MatchCreation
  <2> SUFFICES ASSUME faults' = 0 PROVE FaultFreeInv'
    BY DEF FaultFreeInv
  <2>1. FaultFreeInv'
    <3>1. /\ pc = "creation" /\ pc' = "conclude"
          /\ UNCHANGED <<input, profile, target, faults, runtimeAuxdata, creationAuxdata,
                         runtimeMatch>>
      BY <1>20 DEF MatchCreation, request, search, compilation, matches
    <3>2. /\ creationAuxdata = target /\ runtimeAuxdata # None
          /\ runtimeAuxdata = target \/ (IsSolidity /\ profile[target].auxdatas = "many")
          /\ runtimeMatch = profile[target].runtime \/ MayMissAuxdata(target)
      BY <3>1 DEF FaultFreeInv, Matching, Comparing
    <3>3. /\ creationAuxdata' = target' /\ runtimeAuxdata' # None
          /\ runtimeAuxdata' = target'
               \/ (IsSolidity' /\ profile'[target'].auxdatas = "many")
      BY <3>1, <3>2 DEF IsSolidity
    <3>4. (runtimeMatch = profile[target].runtime \/ MayMissAuxdata(target))'
      BY <3>1, <3>2 DEF MayMissAuxdata, LengthFits, IsSolidity
    <3>5. creationAuxdata # None /\ creationCode' = creationCode
      BY <1>20, <3>1, <3>2, NothingIsNoTarget DEF TypeInv, Examining, Comparing, MatchCreation, chain
    <3>6. CASE creationCode
      <4>1. creationMatch' \in Outcomes(profile[target].creation, creationAuxdata)
        BY <1>20, <3>5, <3>6 DEF MatchCreation
      <4>2. creationMatch' = profile[target].creation
        BY <4>1, <3>2 DEF Outcomes
      <4>3. (creationMatch = IF creationCode THEN profile[target].creation ELSE "null")'
        BY <3>1, <3>5, <3>6, <4>2
      <4> QED
        BY <3>1, <3>3, <3>4, <4>3 DEF FaultFreeInv
    <3>7. CASE ~ creationCode
      <4>1. creationMatch' = creationMatch
        BY <1>20, <3>7 DEF MatchCreation
      <4>2. creationMatch = "null"
        BY <3>7 DEF CreationInv
      <4>3. (creationMatch = IF creationCode THEN profile[target].creation ELSE "null")'
        BY <3>5, <3>7, <4>1, <4>2
      <4> QED
        BY <3>1, <3>3, <3>4, <4>3 DEF FaultFreeInv
    <3> QED
      BY <3>6, <3>7
  <2> QED
    BY <2>1
<1>21. CASE Export
  BY <1>21, LeavingKeepsFaultFree DEF Export, Matching, Comparing
<1>22. CASE NoteMatch
  <2>1. pc' \notin Matching \/ Throw("invalid_compilation_target")
    BY <1>22 DEF NoteMatch, Matching, Comparing, Fault
  <2> QED
    BY <2>1, ThrowLeaves, LeavingKeepsFaultFree DEF Matching, Comparing
<1>23. CASE NoMatch
  <2>1. pc' \notin Matching \/ Throw("no_match")
    BY <1>23 DEF NoMatch, Matching, Comparing, Fault
  <2> QED
    BY <2>1, ThrowLeaves, LeavingKeepsFaultFree DEF Matching, Comparing
<1>24. CASE UNCHANGED vars
  <2>1. UNCHANGED <<input, profile, target, faults, pc>>
        /\ UNCHANGED <<runtimeAuxdata, creationAuxdata, runtimeMatch, creationMatch, creationCode>>
    BY <1>24 DEF vars, request, search, compilation, chain, matches
  <2>2. MayMissAuxdata(target)' = MayMissAuxdata(target) /\ IsSolidity' = IsSolidity
    BY <2>1 DEF MayMissAuxdata, LengthFits, IsSolidity
  <2> QED
    BY <2>1, <2>2 DEF FaultFreeInv
<1> QED
  BY <1>1, <1>2, <1>3, <1>4, <1>5, <1>6, <1>7, <1>8, <1>9, <1>10, <1>11, <1>12,
     <1>13, <1>14, <1>15, <1>16, <1>17, <1>18, <1>19, <1>20, <1>21, <1>22, <1>23, <1>24 DEF Next

-----------------------------------------------------------------------------
(* The result *)

\* What the answer says of the contracts, once it is there.
AnswerOK == ExportIsOfTarget /\ AmbiguityIsReal

NoVerdict == result.code \notin {"match", "invalid_compilation_target"}

LEMMA NoVerdictIsOK == NoVerdict' => AnswerOK'
BY DEF NoVerdict, AnswerOK, ExportIsOfTarget, AmbiguityIsReal

LEMMA AnswerInit == Init => AnswerOK
<1> SUFFICES ASSUME Init PROVE AnswerOK
  OBVIOUS
<1>1. NoVerdict
  BY DEF Init, NoVerdict, NoResult
<1> QED
  BY <1>1 DEF NoVerdict, AnswerOK, ExportIsOfTarget, AmbiguityIsReal

LEMMA ThrowHasNoVerdict ==
  ASSUME result = NoResult, NEW code, Throw(code),
         code \notin {"match", "invalid_compilation_target"}
  PROVE  NoVerdict'
<1>1. NoResult.code = "none"
  BY DEF NoResult
<1>2. CASE result' = result
  BY <1>1, <1>2 DEF NoVerdict
<1>3. CASE ErrorExport(code)
  <2>1. result'.code = code
    BY <1>3 DEF ErrorExport, NoResult
  <2> QED
    BY <2>1 DEF NoVerdict
<1> QED
  BY <1>2, <1>3, ThrowCases DEF WithAllSources

\* While a worker runs, a step that leaves the result alone gives no answer.
LEMMA SilentStep ==
  ASSUME result = NoResult, result' = result PROVE AnswerOK'
<1>1. NoVerdict'
  BY DEF NoVerdict, NoResult
<1> QED
  BY <1>1, NoVerdictIsOK

LEMMA ExportIsRight ==
  ASSUME TypeInv, CreationInv, SearchInv, CarryInv, CheckInv, FaultFreeInv, Export
  PROVE  AnswerOK'
<1>1. /\ pc = "conclude" /\ Verified /\ (input.mode # "search" \/ final)
      /\ result' = [code |-> "match", target |-> target, runtime |-> runtimeMatch,
                    creation |-> creationMatch, txHash |-> creatorTxHash]
      /\ UNCHANGED <<input, profile, faults, creationCode>>
  BY DEF Export, Goto, request, chain
<1>2. matched # None => target = matched
  BY <1>1 DEF SearchInv
<1>3. OwnRuntime /\ OwnCreation
  BY <1>1, <1>2
     DEF CarryInv, LeftRuntime, LeftCreation, OwnRuntime, OwnCreation, Comparing
<1>4. runtimeMatch # "null" \/ creationMatch # "null"
  BY <1>1 DEF Verified
<1>5. faults = 0 => /\ runtimeMatch = profile[target].runtime \/ MayMissAuxdata(target)
                    /\ creationMatch = IF creationCode THEN profile[target].creation
                                       ELSE "null"
  BY <1>1 DEF FaultFreeInv, Comparing
<1>6. /\ result'.target = target /\ result'.runtime = runtimeMatch
      /\ result'.creation = creationMatch /\ result'.code = "match"
  BY <1>1
<1>7. MayMissAuxdata(target) => MayMissAuxdata(result.target)'
  BY <1>1, <1>6 DEF MayMissAuxdata, LengthFits, IsSolidity
<1>8. /\ result'.runtime \in {profile'[result'.target].runtime, "null"}
      /\ result'.creation \in {profile'[result'.target].creation, "null"}
      /\ result'.runtime # "null" \/ result'.creation # "null"
  BY <1>1, <1>3, <1>4, <1>6 DEF OwnRuntime, OwnCreation
<1>9. faults' = 0 =>
        /\ result'.runtime = profile'[result'.target].runtime
             \/ MayMissAuxdata(result.target)'
        /\ result'.creation = IF creationCode' THEN profile'[result'.target].creation
                              ELSE "null"
  BY <1>1, <1>5, <1>6, <1>7
<1>10. ExportIsOfTarget'
  BY <1>8, <1>9 DEF ExportIsOfTarget
<1>11. AmbiguityIsReal'
  BY <1>6 DEF AmbiguityIsReal
<1> QED
  BY <1>10, <1>11 DEF AnswerOK

LEMMA AmbiguityIsRight ==
  ASSUME TypeInv, CreationInv, SearchInv, CarryInv, CheckInv, NoteMatch
  PROVE  AnswerOK'
<1>1. CASE matched = None
  <2>1. result' = result /\ result = NoResult
    BY <1>1 DEF NoteMatch, TypeInv, TypeOK
  <2> QED
    BY <2>1, SilentStep
<1>2. CASE matched # None
  <2>1. /\ pc = "conclude" /\ Verified /\ input.mode = "search" /\ ~ final
        /\ Throw("invalid_compilation_target")
    BY <1>2 DEF NoteMatch
  <2>2. ErrorExport("invalid_compilation_target")
    BY <2>1 DEF Throw, Continues
  <2>3. /\ UNCHANGED <<input, profile, runtimeAuxdata, creationAuxdata, creationCode>>
        /\ result'.code = "invalid_compilation_target"
    BY <2>2 DEF ErrorExport, NoResult, request, compilation, chain
  <2>4. matched \in Targets /\ target \in Targets /\ target # matched
    BY <1>2, <2>1 DEF TypeInv, TypeOK, SearchInv, Examining, Comparing
  <2>5. Accepts(matched)
    BY <1>2 DEF CheckInv
  <2>6. ASSUME None \notin {runtimeAuxdata', creationAuxdata'}
        PROVE  \E t, u \in Targets : t # u /\ Accepts(t)' /\ Accepts(u)'
    <3>1. Accepts(target)
      BY <2>1, <2>3, <2>6, TargetIsAccepted
    <3>2. \A t \in Targets : Accepts(t) => Accepts(t)'
      BY <2>3 DEF Accepts, LengthFits, HitsExtraFileBug, IsSolidity
    <3> QED
      BY <2>4, <2>5, <3>1, <3>2
  <2>7. AmbiguityIsReal'
    BY <2>6 DEF AmbiguityIsReal
  <2>8. ExportIsOfTarget'
    BY <2>3 DEF ExportIsOfTarget
  <2> QED
    BY <2>7, <2>8 DEF AnswerOK
<1> QED
  BY <1>1, <1>2

WorkerInv ==
  TypeInv /\ CreationInv /\ SearchInv /\ CarryInv /\ CheckInv /\ FaultFreeInv /\ AnswerOK

LEMMA AnswerStep ==
  ASSUME WorkerInv, [Next]_vars PROVE AnswerOK'
<1> USE DEF WorkerInv, Goto, Proceed
<1>0. result = NoResult \/ pc = "done"
  BY DEF TypeInv, TypeOK
<1>1. CASE GetCreatorTx
  <2>1. result = NoResult
    BY <1>1, <1>0 DEF GetCreatorTx
  <2> QED
    BY <1>1, <2>1, SilentStep DEF GetCreatorTx
<1>2. CASE CompileAndList
  <2>1. result = NoResult
    BY <1>2, <1>0 DEF CompileAndList
  <2>2. result' = result \/ Throw("compiler_error")
    BY <1>2 DEF CompileAndList, Fault
  <2> QED
    BY <2>1, <2>2, SilentStep, ThrowHasNoVerdict, NoVerdictIsOK
<1>3. CASE TryCandidate
  <2>1. result = NoResult
    BY <1>3, <1>0 DEF TryCandidate
  <2> QED
    BY <1>3, <2>1, SilentStep DEF TryCandidate
<1>4. CASE VerifyMatchAgain
  <2>1. result = NoResult
    BY <1>4, <1>0 DEF VerifyMatchAgain
  <2> QED
    BY <1>4, <2>1, SilentStep DEF VerifyMatchAgain
<1>5. CASE NothingMatched
  <2>1. result'.code = "no_match"
    BY <1>5 DEF NothingMatched, ErrorExport, NoResult
  <2> QED
    BY <2>1, NoVerdictIsOK DEF NoVerdict
<1>6. CASE FetchRuntime
  <2>1. result = NoResult
    BY <1>6, <1>0 DEF FetchRuntime
  <2>2. result' = result \/ Throw("cannot_fetch_bytecode")
    BY <1>6 DEF FetchRuntime, Fault
  <2> QED
    BY <2>1, <2>2, SilentStep, ThrowHasNoVerdict, NoVerdictIsOK
<1>7. CASE RefetchRuntime
  <2>1. result = NoResult
    BY <1>7, <1>0 DEF RefetchRuntime
  <2>2. result' = result \/ Throw("internal_error")
    BY <1>7 DEF RefetchRuntime, Fault
  <2> QED
    BY <2>1, <2>2, SilentStep, ThrowHasNoVerdict, NoVerdictIsOK
<1>8. CASE NotDeployed
  <2>1. result = NoResult
    BY <1>8, <1>0 DEF NotDeployed
  <2>2. result' = result \/ Throw("contract_not_deployed")
    BY <1>8 DEF NotDeployed, Fault
  <2> QED
    BY <2>1, <2>2, SilentStep, ThrowHasNoVerdict, NoVerdictIsOK
<1>9. CASE Compile
  <2>1. result = NoResult
    BY <1>9, <1>0 DEF Compile
  <2>2. result' = result \/ Throw("compiler_error")
    BY <1>9 DEF Compile, Fault
  <2> QED
    BY <2>1, <2>2, SilentStep, ThrowHasNoVerdict, NoVerdictIsOK
<1>10. CASE ContractNotFound
  <2>1. result = NoResult
    BY <1>10, <1>0 DEF ContractNotFound
  <2>2. result' = result \/ Throw("contract_not_found_in_compiler_output")
    BY <1>10 DEF ContractNotFound, Fault
  <2> QED
    BY <2>1, <2>2, SilentStep, ThrowHasNoVerdict, NoVerdictIsOK
<1>11. CASE FindPerfectMetadata
  <2>1. result = NoResult
    BY <1>11, <1>0 DEF FindPerfectMetadata
  <2>2. result' = result \/ result'.code = "no_compiler_output"
    BY <1>11 DEF FindPerfectMetadata, NoResult
  <2> QED
    BY <2>1, <2>2, SilentStep, NoVerdictIsOK DEF NoVerdict
<1>12. CASE KeepMetadata
  <2>1. result = NoResult
    BY <1>12, <1>0 DEF KeepMetadata
  <2> QED
    BY <1>12, <2>1, SilentStep DEF KeepMetadata
<1>13. CASE CheckLength
  <2>1. result = NoResult
    BY <1>13, <1>0 DEF CheckLength
  <2>2. result' = result \/ Throw("compiled_bytecode_is_zero") \/ Throw("extra_file_input_bug") \/ Throw("bytecode_length_mismatch")
    BY <1>13 DEF CheckLength, Fault
  <2> QED
    BY <2>1, <2>2, SilentStep, ThrowHasNoVerdict, NoVerdictIsOK
<1>14. CASE GeneratePositions
  <2>1. result = NoResult
    BY <1>14, <1>0 DEF GeneratePositions
  <2> QED
    BY <1>14, <2>1, SilentStep DEF GeneratePositions
<1>15. CASE PositionsFail
  <2>1. result = NoResult
    BY <1>15, <1>0 DEF PositionsFail
  <2> QED
    BY <1>15, <2>1, SilentStep DEF PositionsFail
<1>16. CASE MatchRuntime
  <2>1. result = NoResult
    BY <1>16, <1>0 DEF MatchRuntime
  <2> QED
    BY <1>16, <2>1, SilentStep DEF MatchRuntime
<1>17. CASE HandleBugs
  <2>1. result = NoResult
    BY <1>17, <1>0 DEF HandleBugs
  <2>2. result' = result \/ Throw("extra_file_input_bug")
    BY <1>17 DEF HandleBugs, Fault
  <2> QED
    BY <2>1, <2>2, SilentStep, ThrowHasNoVerdict, NoVerdictIsOK
<1>18. CASE FetchCreation
  <2>1. result = NoResult
    BY <1>18, <1>0 DEF FetchCreation
  <2> QED
    BY <1>18, <2>1, SilentStep DEF FetchCreation
<1>19. CASE CreationAsBefore
  <2>1. result = NoResult
    BY <1>19, <1>0 DEF CreationAsBefore
  <2> QED
    BY <1>19, <2>1, SilentStep DEF CreationAsBefore
<1>20. CASE MatchCreation
  <2>1. result = NoResult
    BY <1>20, <1>0 DEF MatchCreation
  <2> QED
    BY <1>20, <2>1, SilentStep DEF MatchCreation
<1>21. CASE Export
  BY <1>21, ExportIsRight
<1>22. CASE NoteMatch
  BY <1>22, AmbiguityIsRight
<1>23. CASE NoMatch
  <2>1. result = NoResult
    BY <1>23, <1>0 DEF NoMatch
  <2>2. result' = result \/ Throw("no_match")
    BY <1>23 DEF NoMatch, Fault
  <2> QED
    BY <2>1, <2>2, SilentStep, ThrowHasNoVerdict, NoVerdictIsOK
<1>24. CASE UNCHANGED vars
  <2>1. UNCHANGED <<input, profile, result, faults>>
        /\ UNCHANGED <<runtimeAuxdata, creationAuxdata, creationCode>>
    BY <1>24 DEF vars, request, compilation, chain
  <2>2. ExportIsOfTarget'
    <3>1. MayMissAuxdata(result.target)' = MayMissAuxdata(result.target)
      BY <2>1 DEF MayMissAuxdata, LengthFits, IsSolidity
    <3> QED
      BY <2>1, <3>1 DEF AnswerOK, ExportIsOfTarget
  <2>3. AmbiguityIsReal'
    <3>1. \A t \in Targets : Accepts(t) => Accepts(t)'
      BY <2>1 DEF Accepts, LengthFits, HitsExtraFileBug, IsSolidity
    <3> QED
      BY <2>1, <3>1 DEF AnswerOK, AmbiguityIsReal
  <2> QED
    BY <2>2, <2>3 DEF AnswerOK
<1> QED
  BY <1>1, <1>2, <1>3, <1>4, <1>5, <1>6, <1>7, <1>8, <1>9, <1>10, <1>11, <1>12,
     <1>13, <1>14, <1>15, <1>16, <1>17, <1>18, <1>19, <1>20, <1>21, <1>22, <1>23, <1>24 DEF Next

LEMMA WorkerInvInit == Init => WorkerInv
BY TypeInvInit, CreationInvInit, SearchInvInit, CarryInvInit, CheckInvInit,
   FaultFreeInvInit, AnswerInit DEF WorkerInv

LEMMA WorkerInvStep == WorkerInv /\ [Next]_vars => WorkerInv'
<1> SUFFICES ASSUME WorkerInv, [Next]_vars PROVE WorkerInv'
  OBVIOUS
<1>1. TypeInv /\ CreationInv /\ SearchInv /\ CarryInv /\ CheckInv /\ FaultFreeInv
  BY DEF WorkerInv
<1>2. TypeInv'
  BY <1>1, TypeInvStep
<1>3. CreationInv'
  BY <1>1, CreationInvStep
<1>4. SearchInv'
  BY <1>1, SearchInvStep
<1>5. CarryInv'
  BY <1>1, CarryInvStep
<1>6. CheckInv'
  BY <1>1, CheckInvStep
<1>7. FaultFreeInv'
  BY <1>1, FaultFreeInvStep
<1>8. AnswerOK'
  BY AnswerStep
<1> QED
  BY <1>2, <1>3, <1>4, <1>5, <1>6, <1>7, <1>8 DEF WorkerInv

\* A worker exports the statuses of the very contract it exports, and without
\* a failed call all of them, unless the positions of another contract's
\* auxdata were used (Verification.ts:133-135, VerificationService.ts).
THEOREM ExportBelongsToTarget == Spec => []ExportIsOfTarget
<1>1. WorkerInv => ExportIsOfTarget
  BY DEF WorkerInv, AnswerOK
<1> QED
  BY <1>1, WorkerInvInit, WorkerInvStep, PTL DEF Spec

\* When a worker answers that several contracts match, two contracts do, each
\* examined on its own (the search of verifyWithBestEfforts).
THEOREM AmbiguityHasTwoMatches == Spec => []AmbiguityIsReal
<1>1. WorkerInv => AmbiguityIsReal
  BY DEF WorkerInv, AnswerOK
<1> QED
  BY <1>1, WorkerInvInit, WorkerInvStep, PTL DEF Spec

-----------------------------------------------------------------------------
(* The search as a whole *)

Listed(t)   == profile[t].size # "zero"
Excused(t)  == HitsExtraFileBug(t) \/ MayMissAuxdata(t)
Rejected(t) == \/ ~LengthFits(t)
               \/ /\ profile[t].runtime = "null"
                  /\ profile[t].creation = "null" \/ ~creatorTxHash

\* The contract has been tried and is not the match.
Tried(i) == /\ Candidates[i] # matched
            /\ pc \in Examining => Candidates[i] # target

\* Without a failed call, what has been tried was rejected for a reason of its
\* own, or falls under one of the two exceptions.
FindsInv ==
  /\ input.mode = "search" /\ pc \notin {"start", "list", "done"} =>
       \A i \in todo : Listed(Candidates[i])
  /\ input.mode = "search" /\ pc \in Examining => Listed(target)
  /\ matched # None => Listed(matched)
  /\ final => todo = {}
  /\ pc = "refetch" => runtimeCode = "empty"
  /\ faults = 0 /\ pc \in {"creation", "conclude"} /\ creatorTxHash => creationCode
  /\ input.mode = "search" /\ faults = 0 /\ pc \notin {"start", "list", "done"} =>
       \A i \in DOMAIN Candidates \ todo :
         Listed(Candidates[i]) /\ Tried(i) =>
           Settled(Candidates[i]) /\ (Rejected(Candidates[i]) \/ Excused(Candidates[i]))

LEMMA FindsInvInit == Init => FindsInv
BY DEF Init, FindsInv, Examining, Comparing

\* What is said of a contract depends on the request, its profile, the sizes of
\* the others, and the transaction.
LEMMA SameJudgement ==
  ASSUME UNCHANGED <<input, profile, creatorTxHash>>
  PROVE  \A t \in Targets :
           /\ Listed(t)' <=> Listed(t)
           /\ Settled(t)' <=> Settled(t)
           /\ Rejected(t)' <=> Rejected(t)
           /\ Excused(t)' <=> Excused(t)
BY DEF Listed, Settled, Rejected, Excused, HitsExtraFileBug, MayMissAuxdata, LengthFits,
   IsSolidity

\* Most steps stay with the contract under examination.
FindsKept ==
  /\ UNCHANGED <<input, profile, search, target, creatorTxHash>>
  /\ faults' = 0 => faults = 0
  /\ pc \in Examining /\ pc' \in Examining
  /\ pc' = "refetch" => runtimeCode' = "empty"
  /\ pc' \in {"creation", "conclude"} =>
       pc \in {"creation", "conclude"} /\ (creationCode => creationCode')

LEMMA TargetsOfCandidates == \A i \in DOMAIN Candidates : Candidates[i] \in Targets
BY DEF Targets

LEMMA FindsKeptKeeps ==
  ASSUME TypeInv, FindsInv, FindsKept PROVE FindsInv'
<1>1. /\ UNCHANGED <<input, profile, todo, matched, final, target, creatorTxHash>>
      /\ pc \in Examining /\ pc' \in Examining
      /\ pc \notin {"start", "list", "done"} /\ pc' \notin {"start", "list", "done"}
  BY DEF FindsKept, search, Examining, Comparing
<1>2. \A t \in Targets :
        /\ Listed(t)' <=> Listed(t)
        /\ Settled(t)' <=> Settled(t)
        /\ Rejected(t)' <=> Rejected(t)
        /\ Excused(t)' <=> Excused(t)
  BY <1>1, SameJudgement
<1>3. (input.mode = "search" => \A i \in todo : Listed(Candidates[i]))'
  BY <1>1 DEF FindsInv, Listed
<1>4. (input.mode = "search" => Listed(target))' /\ (matched # None => Listed(matched))'
  BY <1>1 DEF FindsInv, Listed
<1>5. (final => todo = {})'
  BY <1>1 DEF FindsInv
<1>6. (faults = 0 /\ pc \in {"creation", "conclude"} /\ creatorTxHash => creationCode)'
  BY <1>1 DEF FindsInv, FindsKept
<1>7. ASSUME input'.mode = "search", faults' = 0, NEW i \in DOMAIN Candidates \ todo',
             Listed(Candidates[i])', Tried(i)'
      PROVE  Settled(Candidates[i])' /\ (Rejected(Candidates[i])' \/ Excused(Candidates[i])')
  <2>1. Candidates[i] \in Targets /\ i \in DOMAIN Candidates \ todo
    BY <1>1, TargetsOfCandidates
  <2>2. Listed(Candidates[i]) /\ Tried(i)
    BY <1>1, <1>7 DEF Listed, Tried
  <2>3. faults = 0
    BY <1>7 DEF FindsKept
  <2>4. Settled(Candidates[i]) /\ (Rejected(Candidates[i]) \/ Excused(Candidates[i]))
    BY <1>1, <1>7, <2>1, <2>2, <2>3 DEF FindsInv
  <2> QED
    BY <1>2, <2>1, <2>4
<1>8. (pc = "refetch" => runtimeCode = "empty")'
  BY DEF FindsKept
<1> QED
  BY <1>3, <1>4, <1>5, <1>6, <1>7, <1>8 DEF FindsInv

\* A step to another phase of the search: what was tried before stays so.
LEMMA TriedStay ==
  ASSUME TypeInv, FindsInv, UNCHANGED <<input, profile, creatorTxHash>>,
         faults' = 0 => faults = 0, pc \notin {"start", "list", "done"},
         input.mode = "search", faults' = 0,
         NEW i \in DOMAIN Candidates, i \notin todo, Tried(i), Listed(Candidates[i])'
  PROVE  Settled(Candidates[i])' /\ (Rejected(Candidates[i])' \/ Excused(Candidates[i])')
<1>1. Candidates[i] \in Targets
  BY TargetsOfCandidates
<1>2. /\ Listed(Candidates[i])' <=> Listed(Candidates[i])
      /\ Settled(Candidates[i])' <=> Settled(Candidates[i])
      /\ Rejected(Candidates[i])' <=> Rejected(Candidates[i])
      /\ Excused(Candidates[i])' <=> Excused(Candidates[i])
  BY <1>1, SameJudgement
<1>3. Settled(Candidates[i]) /\ (Rejected(Candidates[i]) \/ Excused(Candidates[i]))
  BY <1>2 DEF FindsInv
<1> QED
  BY <1>2, <1>3

LEMMA ThrowKeepsFinds ==
  ASSUME TypeInv, SearchInv, FindsInv, NEW code, Throw(code), faults' = 0 => faults = 0,
         Continues(code) =>
           /\ pc \in Examining
           /\ faults' = 0 => Settled(target) /\ (Rejected(target) \/ Excused(target))
  PROVE  FindsInv'
<1>1. CASE Continues(code) /\ pc' = "next"
           /\ UNCHANGED <<request, profile, search, target, force, compilation,
                          chain, matches, result>>
  <2>1. /\ UNCHANGED <<input, profile, todo, matched, final, target, creatorTxHash>>
        /\ pc \in Examining /\ input.mode = "search" /\ ~ final /\ pc' = "next"
        /\ pc \notin {"start", "list", "done"}
    BY <1>1 DEF Continues, request, search, chain, Examining, Comparing
  <2>2. \A i \in todo' : Listed(Candidates[i])'
    BY <2>1 DEF FindsInv, Listed
  <2>3. (matched # None => Listed(matched))'
    BY <2>1 DEF FindsInv, Listed
  <2>4. ASSUME faults' = 0, NEW i \in DOMAIN Candidates \ todo', Listed(Candidates[i])',
               Tried(i)'
        PROVE  Settled(Candidates[i])' /\ (Rejected(Candidates[i])' \/ Excused(Candidates[i])')
    <3>1. i \in DOMAIN Candidates /\ i \notin todo /\ Candidates[i] # matched
      BY <2>1, <2>4 DEF Tried
    <3>2. CASE Candidates[i] = target
      <4>1. Candidates[i] \in Targets
        BY TargetsOfCandidates
      <4>2. Settled(Candidates[i]) /\ (Rejected(Candidates[i]) \/ Excused(Candidates[i]))
        BY <1>1, <2>4, <3>2
      <4> QED
        BY <2>1, <4>1, <4>2, SameJudgement
    <3>3. CASE Candidates[i] # target
      <4>1. Tried(i)
        BY <3>1, <3>3 DEF Tried
      <4> QED
        BY <2>1, <2>4, <3>1, <4>1, TriedStay
    <3> QED
      BY <3>2, <3>3
  <2> QED
    BY <2>1, <2>2, <2>3, <2>4 DEF FindsInv, Examining, Comparing
<1>2. CASE input.mode = "metadata" /\ WithAllSources
  <2>1. input'.mode # "search" /\ matched' = None /\ pc' = "fetch" /\ ~ final'
    BY <1>2 DEF WithAllSources, search, SearchInv
  <2> QED
    BY <2>1 DEF FindsInv
<1>3. CASE ErrorExport(code)
  <2>1. /\ UNCHANGED <<profile, todo, matched, final>> /\ pc' = "done"
    BY <1>3 DEF ErrorExport, search
  <2> QED
    BY <2>1 DEF FindsInv, Listed, Examining, Comparing
<1> QED
  BY <1>1, <1>2, <1>3, ThrowCases

LEMMA DoneKeepsFinds ==
  ASSUME FindsInv, UNCHANGED <<matched, todo, final>>, pc' = "done",
         \A t \in Targets : Listed(t) => Listed(t)', matched \in Targets \cup {None}
  PROVE  FindsInv'
BY DEF FindsInv, Examining, Comparing

LEMMA FindsInvStep ==
  ASSUME WorkerInv, FindsInv, [Next]_vars PROVE FindsInv'
<1> USE DEF Goto, Proceed
<1>a. /\ TypeInv /\ CreationInv /\ SearchInv /\ CarryInv /\ CheckInv /\ FaultFreeInv
  BY DEF WorkerInv
<1>b. faults \in Nat
  BY <1>a, FaultsAssumption DEF TypeInv, TypeOK
<1>1. CASE GetCreatorTx
  <2>1. /\ pc' = IF input.mode = "search" THEN "list" ELSE "fetch"
        /\ input' = input /\ matched' = matched /\ final' = final /\ todo' = todo /\ pc = "start"
    BY <1>1 DEF GetCreatorTx, request, search
  <2>2. matched = None /\ ~ final
    BY <1>a, <2>1 DEF SearchInv
  <2> QED
    BY <2>1, <2>2 DEF FindsInv, Examining, Comparing
<1>2. CASE CompileAndList
  <2>1. CASE Fault("compiler_error")
    <3>1. Throw("compiler_error") /\ faults' # 0 /\ ~ Continues("compiler_error")
      BY <1>b, <2>1 DEF Fault, Continues
    <3> QED
      BY <1>a, <3>1, ThrowKeepsFinds
  <2>2. CASE ~ Fault("compiler_error")
    <3>1. /\ todo' = {i \in DOMAIN Candidates : profile[Candidates[i]].size # "zero"}
          /\ pc = "list" /\ pc' = "next" /\ UNCHANGED <<profile, matched, final>>
      BY <1>2, <2>2 DEF CompileAndList
    <3>2. matched' = None /\ ~ final'
      BY <1>a, <3>1 DEF SearchInv
    <3> QED
      BY <3>1, <3>2 DEF FindsInv, Listed, Examining, Comparing
  <2> QED
    BY <2>1, <2>2
<1>3. CASE TryCandidate
  <2>1. PICK k \in todo : target' = Candidates[k] /\ todo' = todo \ {k}
    BY <1>3 DEF TryCandidate
  <2>2. /\ UNCHANGED <<input, profile, matched, final, creatorTxHash, faults>>
        /\ pc = "next" /\ pc' = "fetch"
    BY <1>3 DEF TryCandidate, request, chain
  <2>3. input.mode = "search" /\ ~ final
    BY <1>a, <2>2 DEF SearchInv
  <2>4. \A i \in todo : Listed(Candidates[i])
    BY <2>2, <2>3 DEF FindsInv
  <2>5. (\A i \in todo : Listed(Candidates[i]))' /\ Listed(target)'
    BY <2>1, <2>2, <2>4 DEF Listed
  <2>6. (matched # None => Listed(matched))'
    BY <2>2 DEF FindsInv, Listed
  <2>7. ASSUME faults' = 0, NEW i \in DOMAIN Candidates \ todo', Listed(Candidates[i])',
               Tried(i)'
        PROVE  Settled(Candidates[i])' /\ (Rejected(Candidates[i])' \/ Excused(Candidates[i])')
    <3>1. Candidates[i] # matched /\ Candidates[i] # Candidates[k]
      BY <2>1, <2>2, <2>7 DEF Tried, Examining
    <3>2. i \notin todo /\ Tried(i)
      BY <2>1, <2>2, <3>1, <2>7 DEF Tried, Examining, Comparing
    <3> QED
      BY <1>a, <2>2, <2>3, <2>7, <3>2, TriedStay
  <2> QED
    BY <2>2, <2>3, <2>5, <2>6, <2>7 DEF FindsInv, Examining, Comparing
<1>4. CASE VerifyMatchAgain
  <2>1. /\ UNCHANGED <<input, profile, todo, matched, creatorTxHash, faults>>
        /\ pc = "next" /\ pc' = "fetch" /\ target' = matched /\ todo = {} /\ matched # None
    BY <1>4 DEF VerifyMatchAgain, request, chain
  <2>2. input.mode = "search"
    BY <1>a, <2>1 DEF SearchInv
  <2>3. (matched # None => Listed(matched))' /\ Listed(target)'
    BY <2>1 DEF FindsInv, Listed
  <2>4. ASSUME faults' = 0, NEW i \in DOMAIN Candidates \ todo', Listed(Candidates[i])',
               Tried(i)'
        PROVE  Settled(Candidates[i])' /\ (Rejected(Candidates[i])' \/ Excused(Candidates[i])')
    <3>1. i \notin todo /\ Tried(i)
      BY <2>1, <2>4 DEF Tried, Examining, Comparing
    <3> QED
      BY <1>a, <2>1, <2>2, <2>4, <3>1, TriedStay
  <2> QED
    BY <2>1, <2>3, <2>4 DEF FindsInv
<1>5. CASE NothingMatched
  <2>1. UNCHANGED <<profile, matched, todo, final>> /\ pc' = "done"
    BY <1>5 DEF NothingMatched, ErrorExport, search
  <2> QED
    BY <1>a, <2>1, DoneKeepsFinds DEF Listed, TypeInv, TypeOK
<1>6. CASE FetchRuntime
  <2>1. FindsKept \/ Throw("cannot_fetch_bytecode")
    BY <1>6, <1>b DEF FetchRuntime, FindsKept, Examining, Comparing, request, search, chain, Fault
  <2>2. faults' = 0 => faults = 0
    BY <1>6, <1>b DEF FetchRuntime, Fault
  <2>3. ~ Continues("cannot_fetch_bytecode")
    BY DEF Continues
  <2> QED
    BY <1>a, <2>1, <2>2, <2>3, FindsKeptKeeps, ThrowKeepsFinds
<1>7. CASE RefetchRuntime
  <2>0. \/ /\ pc = "refetch" /\ pc' = "compile" /\ faults' = faults
           /\ UNCHANGED <<request, profile, search, target, creatorTxHash>>
        \/ Fault("internal_error")
    BY <1>7, Zenon DEF RefetchRuntime
  <2>1. FindsKept \/ Throw("internal_error")
    BY <2>0, <1>b DEF FindsKept, Examining, Comparing, request, search, chain, Fault
  <2>2. faults' = 0 => faults = 0
    BY <2>0, <1>b DEF Fault
  <2>3. ~ Continues("internal_error")
    BY DEF Continues
  <2> QED
    BY <1>a, <2>1, <2>2, <2>3, FindsKeptKeeps, ThrowKeepsFinds
<1>8. CASE NotDeployed
  <2>1. FindsKept \/ Throw("contract_not_deployed")
    BY <1>8, <1>b DEF NotDeployed, FindsKept, Examining, Comparing, request, search, chain, Fault
  <2>2. faults' = 0 => faults = 0
    BY <1>8, <1>b DEF NotDeployed, Fault
  <2>3. ~ Continues("contract_not_deployed")
    BY DEF Continues
  <2> QED
    BY <1>a, <2>1, <2>2, <2>3, FindsKeptKeeps, ThrowKeepsFinds
<1>9. CASE Compile
  <2>1. FindsKept \/ Throw("compiler_error")
    BY <1>9, <1>b DEF Compile, FindsKept, Examining, Comparing, request, search, chain, Fault
  <2>2. faults' = 0 => faults = 0
    BY <1>9, <1>b DEF Compile, Fault
  <2>3. ~ Continues("compiler_error")
    BY DEF Continues
  <2> QED
    BY <1>a, <2>1, <2>2, <2>3, FindsKeptKeeps, ThrowKeepsFinds
<1>10. CASE ContractNotFound
  <2>1. FindsKept \/ Throw("contract_not_found_in_compiler_output")
    BY <1>10, <1>b DEF ContractNotFound, FindsKept, Examining, Comparing, request, search, chain, Fault
  <2>2. faults' = 0 => faults = 0
    BY <1>10, <1>b DEF ContractNotFound, Fault
  <2>3. ~ Continues("contract_not_found_in_compiler_output")
    BY DEF Continues
  <2> QED
    BY <1>a, <2>1, <2>2, <2>3, FindsKeptKeeps, ThrowKeepsFinds
<1>11. CASE FindPerfectMetadata
  <2>1. /\ UNCHANGED <<input, todo, matched, final, target, creatorTxHash>> /\ pc = "perfect"
        /\ target \in Targets /\ pc' \in {"length", "done"} /\ ~ Settled(target)
        /\ profile' = [profile EXCEPT ![target] = WithPerfectMetadata(profile[target])]
        /\ faults' = 0 => faults = 0
    BY <1>11, <1>a, <1>b DEF FindPerfectMetadata, MetadataVaries, Settled, TypeInv, Examining,
       request, search, chain
  <2>2. profile \in [Targets -> Profile] /\ matched \in Targets \cup {None}
    BY <1>a DEF TypeInv, TypeOK
  <2>3. \A t \in Targets : profile'[t].size = profile[t].size
    BY <2>1, <2>2 DEF WithPerfectMetadata, Profile
  <2>4. \A t \in Targets : Listed(t) <=> Listed(t)'
    BY <2>3 DEF Listed
  <2>5. CASE pc' = "done"
    BY <2>1, <2>2, <2>4, <2>5, DoneKeepsFinds
  <2>6. CASE pc' = "length"
    <3>1. (input.mode = "search" => \A i \in todo : Listed(Candidates[i]))'
      <4>1. todo \subseteq DOMAIN Candidates
        BY <1>a DEF TypeInv, TypeOK
      <4> QED
        BY <2>1, <2>4, <4>1, TargetsOfCandidates DEF FindsInv
    <3>2. (input.mode = "search" => Listed(target))' /\ (matched # None => Listed(matched))'
      BY <2>1, <2>2, <2>4 DEF FindsInv, Examining
    <3>3. (final => todo = {})'
      BY <2>1 DEF FindsInv
    <3>4. ASSUME input'.mode = "search", faults' = 0, NEW i \in DOMAIN Candidates \ todo',
                 Listed(Candidates[i])', Tried(i)'
          PROVE  Settled(Candidates[i])'
                   /\ (Rejected(Candidates[i])' \/ Excused(Candidates[i])')
      <4> DEFINE t == Candidates[i]
      <4>1. t \in Targets /\ i \in DOMAIN Candidates \ todo /\ faults = 0
        BY <2>1, <3>4, TargetsOfCandidates
      <4>2. t # target /\ t # matched
        BY <2>1, <2>6, <3>4 DEF Tried, Examining, Comparing
      <4>3. Listed(t) /\ Tried(i)
        BY <2>4, <3>4, <4>1, <4>2 DEF Tried
      <4>4. Settled(t) /\ (Rejected(t) \/ Excused(t))
        BY <2>1, <3>4, <4>1, <4>3 DEF FindsInv
      <4>5. profile'[t] = profile[t]
        BY <2>1, <2>2, <4>1, <4>2
      <4>6. Settled(t)' /\ (Rejected(t) => Rejected(t)')
        BY <2>1, <4>4, <4>5 DEF Settled, Rejected, LengthFits
      <4>7. \A u \in Targets : LengthFits(u) => LengthFits(u)'
        BY <2>1, <2>3 DEF LengthFits
      <4>8. Excused(t) => Excused(t)'
        BY <2>1, <4>5, <4>7 DEF Excused, HitsExtraFileBug, MayMissAuxdata, IsSolidity
      <4> QED
        BY <4>4, <4>6, <4>8
    <3> QED
      BY <2>6, <3>1, <3>2, <3>3, <3>4 DEF FindsInv
  <2> QED
    BY <2>1, <2>5, <2>6
<1>12. CASE KeepMetadata
  BY <1>12, <1>a, <1>b, FindsKeptKeeps DEF KeepMetadata, FindsKept, Examining, Comparing, request, search, chain, Fault
<1>13. CASE CheckLength
  <2>1. pc = "length" /\ pc \in Examining /\ pc \in SettledSteps
    BY <1>13 DEF CheckLength, Examining, SettledSteps
  <2>2. CASE Throw("compiled_bytecode_is_zero") /\ faults' = faults
    BY <1>a, <2>2, ThrowKeepsFinds DEF Continues
  <2>3. CASE Throw("extra_file_input_bug") /\ faults' = faults
    BY <1>a, <2>3, ThrowKeepsFinds DEF Continues
  <2>4. CASE /\ profile[target].size = "differs" /\ ~SizeAccepted
             /\ Throw("bytecode_length_mismatch") /\ faults' = faults
    <3>1. Rejected(target)
      BY <2>4 DEF Rejected, LengthFits, SizeAccepted
    <3>2. Settled(target)
      BY <1>a, <2>1 DEF SearchInv
    <3> QED
      BY <1>a, <2>1, <2>4, <3>1, <3>2, ThrowKeepsFinds
  <2>5. CASE Proceed("positions")
    BY <1>13, <1>a, <2>5, FindsKeptKeeps DEF CheckLength, FindsKept, Examining, Comparing, request, search, chain, Fault
  <2> QED
    BY <1>13, <2>2, <2>3, <2>4, <2>5, Zenon DEF CheckLength
<1>14. CASE GeneratePositions
  BY <1>14, <1>a, <1>b, FindsKeptKeeps DEF GeneratePositions, FindsKept, Examining, Comparing, request, search, chain, Fault
<1>15. CASE PositionsFail
  BY <1>15, <1>a, <1>b, FindsKeptKeeps DEF PositionsFail, FindsKept, Examining, Comparing, request, search, chain, Fault
<1>16. CASE MatchRuntime
  BY <1>16, <1>a, <1>b, FindsKeptKeeps DEF MatchRuntime, FindsKept, Examining, Comparing, request, search, chain, Fault
<1>17. CASE HandleBugs
  <2>1. FindsKept \/ Throw("extra_file_input_bug")
    BY <1>17, <1>b DEF HandleBugs, FindsKept, Examining, Comparing, request, search, chain, Fault
  <2>2. faults' = 0 => faults = 0
    BY <1>17, <1>b DEF HandleBugs, Fault
  <2>3. ~ Continues("extra_file_input_bug")
    BY DEF Continues
  <2> QED
    BY <1>a, <2>1, <2>2, <2>3, FindsKeptKeeps, ThrowKeepsFinds
<1>18. CASE FetchCreation
  <2>1. /\ UNCHANGED <<input, profile, todo, matched, final, target>>
        /\ pc = "getCreation" /\ pc' = "creation"
    BY <1>18 DEF FetchCreation, request, search
  <2>2. CASE creationCode' = TRUE /\ creatorTxHash' = creatorTxHash /\ faults' = faults
    <3>1. (input.mode = "search" => \A i \in todo : Listed(Candidates[i]))'
      BY <2>1 DEF FindsInv, Listed
    <3>2. (input.mode = "search" => Listed(target))' /\ (matched # None => Listed(matched))'
      BY <2>1 DEF FindsInv, Listed, Examining, Comparing
    <3>3. (final => todo = {})'
      BY <2>1 DEF FindsInv
    <3>4. ASSUME input'.mode = "search", faults' = 0, NEW i \in DOMAIN Candidates \ todo',
                 Listed(Candidates[i])', Tried(i)'
          PROVE  Settled(Candidates[i])'
                   /\ (Rejected(Candidates[i])' \/ Excused(Candidates[i])')
      <4>1. i \in DOMAIN Candidates /\ i \notin todo /\ Tried(i)
        BY <2>1, <3>4 DEF Tried, Examining, Comparing
      <4> QED
        BY <1>a, <2>1, <2>2, <3>4, <4>1, TriedStay
    <3> QED
      BY <2>1, <2>2, <3>1, <3>2, <3>3, <3>4 DEF FindsInv
  <2>3. CASE faults' = faults + 1
    <3>1. faults' # 0
      BY <1>b, <2>3
    <3>2. (input.mode = "search" => \A i \in todo : Listed(Candidates[i]))'
      BY <2>1 DEF FindsInv, Listed
    <3>3. (input.mode = "search" => Listed(target))' /\ (matched # None => Listed(matched))'
      BY <2>1 DEF FindsInv, Listed, Examining, Comparing
    <3> QED
      BY <2>1, <3>1, <3>2, <3>3 DEF FindsInv
  <2> QED
    BY <1>18, <2>2, <2>3 DEF FetchCreation
<1>19. CASE CreationAsBefore
  <2>1. /\ UNCHANGED <<input, profile, todo, matched, final, target, creatorTxHash, creationCode,
                       faults>>
        /\ pc = "getCreation" /\ pc' = "creation"
    BY <1>19 DEF CreationAsBefore, request, search, chain
  <2>2. creatorTxHash => creationCode
    BY <1>19 DEF CreationAsBefore
  <2>3. (input.mode = "search" => \A i \in todo : Listed(Candidates[i]))'
    BY <2>1 DEF FindsInv, Listed
  <2>4. (input.mode = "search" => Listed(target))' /\ (matched # None => Listed(matched))'
    BY <2>1 DEF FindsInv, Listed, Examining, Comparing
  <2>5. ASSUME input'.mode = "search", faults' = 0, NEW i \in DOMAIN Candidates \ todo',
               Listed(Candidates[i])', Tried(i)'
        PROVE  Settled(Candidates[i])'
                 /\ (Rejected(Candidates[i])' \/ Excused(Candidates[i])')
    <3>1. i \in DOMAIN Candidates /\ i \notin todo /\ Tried(i)
      BY <2>1, <2>5 DEF Tried, Examining, Comparing
    <3> QED
      BY <1>a, <2>1, <2>5, <3>1, TriedStay
  <2> QED
    BY <2>1, <2>2, <2>3, <2>4, <2>5 DEF FindsInv
<1>20. CASE MatchCreation
  BY <1>20, <1>a, <1>b, FindsKeptKeeps DEF MatchCreation, FindsKept, Examining, Comparing, request, search, chain, Fault
<1>21. CASE Export
  <2>1. UNCHANGED <<profile, matched, todo, final>> /\ pc' = "done"
    BY <1>21 DEF Export, search
  <2> QED
    BY <1>a, <2>1, DoneKeepsFinds DEF Listed, TypeInv, TypeOK
<1>22. CASE NoteMatch
  <2>1. CASE Throw("invalid_compilation_target") /\ faults' = faults
    BY <1>a, <2>1, ThrowKeepsFinds DEF Continues
  <2>2. CASE ~ (Throw("invalid_compilation_target") /\ faults' = faults)
    <3>1. /\ UNCHANGED <<input, profile, todo, final, target, creatorTxHash, faults>>
          /\ matched' = target /\ matched = None /\ pc = "conclude" /\ pc' = "next"
          /\ input.mode = "search" /\ ~ final
      BY <1>22, <2>2 DEF NoteMatch, request, chain
    <3>2. (\A i \in todo : Listed(Candidates[i]))'
      BY <3>1 DEF FindsInv, Listed
    <3>3. Listed(matched)'
      BY <3>1 DEF FindsInv, Listed, Examining, Comparing
    <3>4. ASSUME faults' = 0, NEW i \in DOMAIN Candidates \ todo', Listed(Candidates[i])',
                 Tried(i)'
          PROVE  Settled(Candidates[i])'
                   /\ (Rejected(Candidates[i])' \/ Excused(Candidates[i])')
      <4>1. Candidates[i] # target /\ Candidates[i] # matched
        BY <3>1, <3>4, TargetsOfCandidates, NothingIsNoTarget DEF Tried
      <4>2. i \notin todo /\ Tried(i)
        BY <3>1, <3>4, <4>1 DEF Tried
      <4> QED
        BY <1>a, <3>1, <3>4, <4>2, TriedStay
    <3> QED
      BY <3>1, <3>2, <3>3, <3>4 DEF FindsInv, Examining, Comparing
  <2> QED
    BY <2>1, <2>2
<1>23. CASE NoMatch
  <2>1. /\ pc = "conclude" /\ runtimeMatch = "null" /\ creationMatch = "null"
        /\ Throw("no_match") /\ faults' = faults
    BY <1>23 DEF NoMatch, Verified
  <2>2. pc \in Examining /\ Settled(target)
    BY <1>a, <2>1 DEF SearchInv, SettledSteps, Examining, Comparing
  <2>3. ASSUME faults = 0 PROVE Rejected(target) \/ Excused(target)
    <3>1. profile[target].runtime = "null" \/ MayMissAuxdata(target)
      BY <1>a, <2>1, <2>3 DEF FaultFreeInv, Comparing
    <3>2. creationCode => profile[target].creation = "null"
      BY <1>a, <2>1, <2>3 DEF FaultFreeInv
    <3>3. creatorTxHash => creationCode
      BY <2>1, <2>3 DEF FindsInv
    <3> QED
      BY <3>1, <3>2, <3>3 DEF Rejected, Excused
  <2> QED
    BY <1>a, <2>1, <2>2, <2>3, ThrowKeepsFinds
<1>24. CASE UNCHANGED vars
  <2>1. /\ UNCHANGED <<input, profile, todo, matched, final, target, creatorTxHash, pc>>
        /\ UNCHANGED <<creationCode, runtimeCode, faults>>
    BY <1>24 DEF vars, request, search, chain
  <2>2. \A t \in Targets :
          /\ Listed(t)' <=> Listed(t)
          /\ Settled(t)' <=> Settled(t)
          /\ Rejected(t)' <=> Rejected(t)
          /\ Excused(t)' <=> Excused(t)
    BY <2>1, SameJudgement
  <2>3. ASSUME input'.mode = "search", faults' = 0, pc \notin {"start", "list", "done"},
               NEW i \in DOMAIN Candidates \ todo', Listed(Candidates[i])', Tried(i)'
        PROVE  Settled(Candidates[i])'
                 /\ (Rejected(Candidates[i])' \/ Excused(Candidates[i])')
    <3>1. i \in DOMAIN Candidates /\ i \notin todo /\ Tried(i)
      BY <2>1, <2>3 DEF Tried
    <3> QED
      BY <1>a, <2>1, <2>3, <3>1, TriedStay
  <2>4. (input.mode = "search" /\ pc \notin {"start", "list", "done"} =>
           \A i \in todo : Listed(Candidates[i]))'
    BY <2>1 DEF FindsInv, Listed
  <2>5. (input.mode = "search" /\ pc \in Examining => Listed(target))'
          /\ (matched # None => Listed(matched))'
    BY <2>1 DEF FindsInv, Listed
  <2> QED
    BY <2>1, <2>3, <2>4, <2>5 DEF FindsInv
<1> QED
  BY <1>1, <1>2, <1>3, <1>4, <1>5, <1>6, <1>7, <1>8, <1>9, <1>10, <1>11, <1>12,
     <1>13, <1>14, <1>15, <1>16, <1>17, <1>18, <1>19, <1>20, <1>21, <1>22, <1>23, <1>24 DEF Next

(***************************************************************************)
(* From what has been tried to the answer.                                 *)
(***************************************************************************)
Matches == {t \in {u \in Targets : profile[u].size # "zero"} : Accepts(t)}

\* The search is one the claim is about.
Clear ==
  /\ input.mode = "search" /\ runtimeCode = "code" /\ contracts = Targets
  /\ \A t \in {u \in Targets : profile[u].size # "zero"} :
       ~HitsExtraFileBug(t) /\ ~MayMissAuxdata(t)

Answers(code, t) ==
  /\ Cardinality(Matches) = 0 => code = "no_match"
  /\ Cardinality(Matches) > 1 => code = "invalid_compilation_target"
  /\ \A u \in Matches : Matches = {u} => code = "match" /\ t = u

LEMMA ClearNotExcused ==
  ASSUME Clear, NEW t \in Targets, Listed(t) PROVE ~Excused(t)
BY DEF Clear, Listed, Excused

LEMMA RejectedIsNotAccepted ==
  ASSUME CreationInv, NEW t, Rejected(t) PROVE ~Accepts(t)
BY DEF CreationInv, Rejected, Accepts

\* The compiler output has finitely many contracts.
LEMMA MatchesFinite == IsFiniteSet(Matches)
<1>1. Candidates \in Seq(Targets)
  BY CandidatesAssumption
<1>2. PICK n \in Nat : Candidates \in [1..n -> Targets] /\ DOMAIN Candidates = 1..n
  BY <1>1, Len(Candidates) \in Nat
<1>3. \A t \in Targets : \E i \in 1..n : Candidates[i] = t
  BY <1>2 DEF Targets
<1>4. Candidates \in Surjection(1..n, Targets)
  BY <1>2, <1>3 DEF Surjection
<1>5. IsFiniteSet(1..n)
  BY FS_Interval
<1>6. IsFiniteSet(Targets)
  BY <1>4, <1>5, FS_Surjection
<1>7. Matches \in SUBSET Targets
  BY DEF Matches
<1> QED
  BY <1>6, <1>7, FS_Subset

\* A step that ends the search with the right answer.
LEMMA AnswersIsFound ==
  ASSUME UNCHANGED <<input, profile, creationCode, runtimeCode, contracts>>,
         Clear /\ faults' = 0 => Answers(result'.code, result'.target)
  PROVE  SearchFindsTheMatch'
<1>1. \A t \in Targets : /\ Accepts(t)' <=> Accepts(t)
                         /\ HitsExtraFileBug(t)' <=> HitsExtraFileBug(t)
                         /\ MayMissAuxdata(t)' <=> MayMissAuxdata(t)
  BY DEF Accepts, LengthFits, HitsExtraFileBug, MayMissAuxdata, IsSolidity
<1>2. {u \in Targets : profile'[u].size # "zero"} = {u \in Targets : profile[u].size # "zero"}
  OBVIOUS
<1>3. {t \in {u \in Targets : profile'[u].size # "zero"} : Accepts(t)'} = Matches
  BY <1>1, <1>2 DEF Matches
<1>4. ASSUME input'.mode = "search", faults' = 0, runtimeCode' = "code",
             \A t \in {u \in Targets : profile'[u].size # "zero"} :
               ~HitsExtraFileBug(t)' /\ ~MayMissAuxdata(t)',
             contracts' = Targets
      PROVE  Answers(result'.code, result'.target)
  <2>1. \A t \in {u \in Targets : profile[u].size # "zero"} :
          ~HitsExtraFileBug(t) /\ ~MayMissAuxdata(t)
    BY <1>1, <1>2, <1>4
  <2> QED
    BY <1>4, <2>1 DEF Clear
<1> QED
  BY <1>3, <1>4 DEF SearchFindsTheMatch, Answers

LEMMA ThrowFinds ==
  ASSUME NEW code, Throw(code),
         Clear /\ faults' = 0 /\ ~Continues(code) => Answers(code, target)
  PROVE  SearchFindsTheMatch'
<1>1. CASE Continues(code) \/ pc' # "done"
  <2>1. pc' # "done"
    BY <1>1 DEF Throw
  <2> QED
    BY <2>1 DEF SearchFindsTheMatch
<1>2. CASE ~Continues(code) /\ ErrorExport(code)
  <2>1. UNCHANGED <<input, profile, creationCode, runtimeCode, contracts>>
    BY <1>2 DEF ErrorExport, request, chain, compilation
  <2>2. result'.code = code /\ result'.target = target
    BY <1>2 DEF ErrorExport, NoResult
  <2> QED
    BY <1>2, <2>1, <2>2, AnswersIsFound
<1> QED
  BY <1>1, <1>2, ThrowCases DEF WithAllSources

LEMMA Ongoing == pc' # "done" => SearchFindsTheMatch'
BY DEF SearchFindsTheMatch

LEMMA Failed == faults' # 0 => SearchFindsTheMatch'
BY DEF SearchFindsTheMatch

\* What is left of the compiler output when nothing is to be tried any more.
LEMMA TriedAreRejected ==
  ASSUME CreationInv, FindsInv, Clear, faults = 0, pc \notin {"start", "list", "done"},
         todo = {}, NEW t \in Matches, t # matched, pc \in Examining => t # target
  PROVE  FALSE
<1>1. t \in Targets /\ Listed(t) /\ Accepts(t)
  BY DEF Matches, Listed
<1>2. PICK i \in DOMAIN Candidates : Candidates[i] = t
  BY <1>1 DEF Targets
<1>3. Tried(i) /\ i \in DOMAIN Candidates \ todo
  BY <1>2 DEF Tried
<1>4. input.mode = "search"
  BY DEF Clear
<1>5. Rejected(t) \/ Excused(t)
  BY <1>1, <1>2, <1>3, <1>4 DEF FindsInv
<1> QED
  BY <1>1, <1>5, ClearNotExcused, RejectedIsNotAccepted

LEMMA FoundStep ==
  ASSUME WorkerInv, FindsInv, SearchFindsTheMatch, [Next]_vars PROVE SearchFindsTheMatch'
<1> USE DEF Goto, Proceed
<1>a. /\ TypeInv /\ CreationInv /\ SearchInv /\ CarryInv /\ CheckInv /\ FaultFreeInv
  BY DEF WorkerInv
<1>b. faults \in Nat
  BY <1>a, FaultsAssumption DEF TypeInv, TypeOK
<1>1. CASE GetCreatorTx
  BY <1>1, Ongoing DEF GetCreatorTx
<1>2. CASE CompileAndList
  <2>1. pc' # "done" \/ (Throw("compiler_error") /\ faults' # 0)
    BY <1>2, <1>b DEF CompileAndList, Fault
  <2> QED
    BY <2>1, Ongoing, Failed
<1>3. CASE TryCandidate
  BY <1>3, Ongoing DEF TryCandidate
<1>4. CASE VerifyMatchAgain
  BY <1>4, Ongoing DEF VerifyMatchAgain
<1>5. CASE NothingMatched
  <2>1. /\ pc = "next" /\ todo = {} /\ matched = None /\ ErrorExport("no_match")
        /\ faults' = faults
    BY <1>5 DEF NothingMatched
  <2>2. /\ UNCHANGED <<input, profile, creationCode, runtimeCode, contracts>>
        /\ result'.code = "no_match"
    BY <2>1 DEF ErrorExport, NoResult, request, chain, compilation
  <2>3. ASSUME Clear, faults = 0 PROVE Answers("no_match", result'.target)
    <3>1. \A t \in Matches : t # None
      BY NothingIsNoTarget DEF Matches
    <3>2. Matches = {}
      BY <1>a, <2>1, <2>3, <3>1, TriedAreRejected DEF Examining, Comparing
    <3>3. Cardinality(Matches) = 0
      BY <3>2, FS_EmptySet
    <3> QED
      BY <3>2, <3>3 DEF Answers
  <2> QED
    BY <2>1, <2>2, <2>3, AnswersIsFound
<1>6. CASE FetchRuntime
  <2>1. pc' # "done" \/ (Throw("cannot_fetch_bytecode") /\ faults' # 0)
    BY <1>6, <1>b DEF FetchRuntime, Fault
  <2> QED
    BY <2>1, Ongoing, Failed
<1>7. CASE RefetchRuntime
  <2>1. pc' = "compile" \/ Fault("internal_error")
    BY <1>7, Zenon DEF RefetchRuntime
  <2>2. Fault("internal_error") => faults' # 0
    BY <1>b DEF Fault
  <2> QED
    BY <2>1, <2>2, Ongoing, Failed
<1>8. CASE NotDeployed
  <2>1. Throw("contract_not_deployed") /\ runtimeCode = "empty"
    BY <1>8 DEF NotDeployed, FindsInv
  <2>2. ~ Clear
    BY <2>1 DEF Clear
  <2> QED
    BY <2>1, <2>2, ThrowFinds
<1>9. CASE Compile
  <2>1. pc' # "done" \/ (Throw("compiler_error") /\ faults' # 0)
    BY <1>9, <1>b DEF Compile, Fault
  <2> QED
    BY <2>1, Ongoing, Failed
<1>10. CASE ContractNotFound
  <2>1. /\ Throw("contract_not_found_in_compiler_output")
        /\ target \in Targets /\ target \notin contracts
    BY <1>10, <1>a DEF ContractNotFound, TypeInv, Examining
  <2>2. ~ Clear
    BY <2>1 DEF Clear
  <2> QED
    BY <2>1, <2>2, ThrowFinds
<1>11. CASE FindPerfectMetadata
  <2>1. pc' # "done" \/ faults' # 0
    BY <1>11, <1>b DEF FindPerfectMetadata
  <2> QED
    BY <2>1, Ongoing, Failed
<1>12. CASE KeepMetadata
  BY <1>12, Ongoing DEF KeepMetadata
<1>13. CASE CheckLength
  <2>1. pc = "length" /\ pc \in Examining
    BY <1>13 DEF CheckLength, Examining
  <2>2. ASSUME Clear
        PROVE  /\ target \in Targets /\ profile[target].size # "zero"
               /\ ~ HitsExtraFileBug(target)
    BY <1>a, <2>1, <2>2 DEF Clear, TypeInv, FindsInv, Listed
  <2>3. CASE /\ profile[target].size = "zero"
             /\ Throw("compiled_bytecode_is_zero") /\ faults' = faults
    BY <2>2, <2>3, ThrowFinds
  <2>4. CASE /\ profile[target].size = "differs"
             /\ input.language = "Solidity" /\ ExtraFileInputBug
             /\ Throw("extra_file_input_bug") /\ faults' = faults
    <3>1. HitsExtraFileBug(target)
      BY <2>4 DEF HitsExtraFileBug, ExtraFileInputBug, IsSolidity
    <3> QED
      BY <2>2, <2>4, <3>1, ThrowFinds
  <2>5. CASE /\ profile[target].size = "differs" /\ ~SizeAccepted
             /\ Throw("bytecode_length_mismatch") /\ faults' = faults
    <3>1. ~ LengthFits(target)
      BY <2>5 DEF LengthFits, SizeAccepted
    <3>2. ASSUME Clear PROVE Continues("bytecode_length_mismatch")
      <4>1. ~ final
        BY <1>a, <3>1 DEF SearchInv, CheckInv, Accepts
      <4> QED
        BY <3>2, <4>1 DEF Continues, Clear
    <3> QED
      BY <2>5, <3>2, ThrowFinds
  <2>6. CASE Proceed("positions")
    BY <2>6, Ongoing
  <2> QED
    BY <1>13, <2>3, <2>4, <2>5, <2>6, Zenon DEF CheckLength
<1>14. CASE GeneratePositions
  BY <1>14, Ongoing DEF GeneratePositions
<1>15. CASE PositionsFail
  BY <1>15, Ongoing DEF PositionsFail
<1>16. CASE MatchRuntime
  BY <1>16, Ongoing DEF MatchRuntime
<1>17. CASE HandleBugs
  <2>1. pc = "bugs" /\ target \in Targets
    BY <1>17, <1>a DEF HandleBugs, TypeInv, Examining, Comparing
  <2>2. CASE Unmatched /\ ExtraFileInputBug /\ Throw("extra_file_input_bug")
               /\ faults' = faults
    <3>1. ASSUME Clear, faults = 0 PROVE FALSE
      <4>1. Listed(target)
        BY <2>1, <3>1 DEF FindsInv, Clear, Examining, Comparing
      <4>2. profile[target].runtime = "null" \/ MayMissAuxdata(target)
        BY <1>a, <2>1, <2>2, <3>1 DEF FaultFreeInv, Comparing, Unmatched
      <4>3. Excused(target)
        BY <2>2, <4>2 DEF Excused, HitsExtraFileBug, Unmatched, ExtraFileInputBug
      <4> QED
        BY <2>1, <3>1, <4>1, <4>3, ClearNotExcused
    <3> QED
      BY <2>2, <3>1, ThrowFinds
  <2>3. CASE pc' # "done"
    BY <2>3, Ongoing
  <2> QED
    BY <1>17, <2>2, <2>3 DEF HandleBugs
<1>18. CASE FetchCreation
  BY <1>18, Ongoing DEF FetchCreation
<1>19. CASE CreationAsBefore
  BY <1>19, Ongoing DEF CreationAsBefore
<1>20. CASE MatchCreation
  BY <1>20, Ongoing DEF MatchCreation
<1>21. CASE Export
  <2>1. /\ pc = "conclude" /\ Verified /\ (input.mode # "search" \/ final)
        /\ UNCHANGED <<input, profile, creationCode, runtimeCode, contracts, faults>>
        /\ result'.code = "match" /\ result'.target = target
    BY <1>21 DEF Export, request, chain, compilation
  <2>2. ASSUME Clear, faults = 0 PROVE Answers("match", target)
    <3>1. final /\ target = matched /\ matched # None /\ todo = {}
      BY <1>a, <2>1, <2>2 DEF Clear, SearchInv, FindsInv
    <3>2. target \in Matches
      <4>1. target \in Targets /\ Listed(target)
        BY <1>a, <2>1, <3>1 DEF TypeInv, FindsInv, Examining, Comparing
      <4>2. Accepts(target)
        BY <1>a, <3>1 DEF CheckInv
      <4> QED
        BY <4>1, <4>2 DEF Matches, Listed
    <3>3. \A t \in Matches : t = target
      BY <1>a, <2>1, <2>2, <3>1, TriedAreRejected
    <3>4. Matches = {target}
      BY <3>2, <3>3
    <3>5. Cardinality(Matches) = 1
      BY <3>4, FS_Singleton
    <3> QED
      BY <3>4, <3>5 DEF Answers
  <2> QED
    BY <2>1, <2>2, AnswersIsFound
<1>22. CASE NoteMatch
  <2>1. pc' # "done" \/ (matched # None /\ Throw("invalid_compilation_target")
                              /\ faults' = faults)
    BY <1>22 DEF NoteMatch
  <2>2. CASE pc' # "done"
    BY <2>2, Ongoing
  <2>3. CASE matched # None /\ Throw("invalid_compilation_target") /\ faults' = faults
    <3>1. pc = "conclude" /\ Verified /\ input.mode = "search" /\ ~ final
      BY <1>22 DEF NoteMatch
    <3>2. matched \in Targets /\ target \in Targets /\ target # matched
      BY <1>a, <2>3, <3>1 DEF TypeInv, TypeOK, SearchInv, Examining, Comparing
    <3>3. ASSUME Clear, faults = 0 PROVE Answers("invalid_compilation_target", target)
      <4>1. Listed(matched) /\ Listed(target)
        BY <2>3, <3>1 DEF FindsInv, Examining, Comparing
      <4>2. Accepts(matched)
        BY <1>a, <2>3 DEF CheckInv
      <4>3. None \notin {runtimeAuxdata, creationAuxdata}
        BY <1>a, <3>1, <3>2, <3>3, NothingIsNoTarget DEF FaultFreeInv, Matching, Comparing
      <4>4. Accepts(target)
        BY <1>a, <3>1, <4>3, TargetIsAccepted
      <4>5. matched \in Matches /\ target \in Matches
        BY <3>2, <4>1, <4>2, <4>4 DEF Matches, Listed
      <4>6. Cardinality(Matches) # 0
        BY <4>5, MatchesFinite, FS_EmptySet
      <4>7. \A u \in Matches : Matches # {u}
        BY <3>2, <4>5
      <4> QED
        BY <4>6, <4>7 DEF Answers
    <3> QED
      BY <2>3, <3>3, ThrowFinds
  <2> QED
    BY <2>1, <2>2, <2>3
<1>23. CASE NoMatch
  <2>1. /\ pc = "conclude" /\ runtimeMatch = "null" /\ creationMatch = "null"
        /\ Throw("no_match") /\ faults' = faults /\ target \in Targets
    BY <1>23, <1>a DEF NoMatch, Verified, TypeInv, Examining, Comparing
  <2>2. ASSUME Clear, faults = 0, ~ Continues("no_match") PROVE FALSE
    <3>1. final /\ target = matched /\ matched # None
      BY <1>a, <2>2 DEF Clear, Continues, SearchInv
    <3>2. Accepts(target)
      BY <1>a, <3>1 DEF CheckInv
    <3>3. profile[target].runtime = "null" \/ MayMissAuxdata(target)
      BY <1>a, <2>1, <2>2 DEF FaultFreeInv, Comparing
    <3>4. creationCode => profile[target].creation = "null"
      BY <1>a, <2>1, <2>2 DEF FaultFreeInv
    <3>5. MayMissAuxdata(target)
      BY <3>2, <3>3, <3>4 DEF Accepts
    <3>6. Listed(target)
      BY <2>1, <2>2 DEF FindsInv, Clear, Examining, Comparing
    <3> QED
      BY <2>1, <2>2, <3>5, <3>6, ClearNotExcused DEF Excused
  <2> QED
    BY <2>1, <2>2, ThrowFinds
<1>24. CASE UNCHANGED vars
  <2>1. CASE pc = "done"
    BY <1>24, <2>1 DEF vars, request, search, compilation, chain, matches, SearchFindsTheMatch,
       Accepts, LengthFits, HitsExtraFileBug, MayMissAuxdata, IsSolidity
  <2>2. CASE pc # "done"
    BY <1>24, <2>2, Ongoing DEF vars
  <2> QED
    BY <2>1, <2>2
<1> QED
  BY <1>1, <1>2, <1>3, <1>4, <1>5, <1>6, <1>7, <1>8, <1>9, <1>10, <1>11, <1>12,
     <1>13, <1>14, <1>15, <1>16, <1>17, <1>18, <1>19, <1>20, <1>21, <1>22, <1>23, <1>24 DEF Next

\* The search over one Verification and one compilation says what separate
\* objects would say, whatever the compiler output: the only contract that
\* matches, "no match", or that several do (verifyWithBestEfforts, for searches
\* without a failed call and without the excepted bugs).
THEOREM SearchIsFaithful == Spec => []SearchFindsTheMatch
<1>1. Init => SearchFindsTheMatch
  BY DEF Init, SearchFindsTheMatch
<1> QED
  BY <1>1, WorkerInvInit, WorkerInvStep, FindsInvInit, FindsInvStep, FoundStep, PTL DEF Spec
=============================================================================
