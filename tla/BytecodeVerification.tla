------------------------ MODULE BytecodeVerification ------------------------
(***************************************************************************)
(* One task inside a worker (services/workers): a Verification object      *)
(* compares the code of one address with what one compilation produces.    *)
(* When the client names no contract, verifyWithBestEfforts runs the same  *)
(* two objects, Verification and compilation, over every contract the      *)
(* input compiles to, so what one contract leaves in them is there when    *)
(* the next is examined.                                                   *)
(*                                                                         *)
(* Bytecodes are abstracted to what a comparison of the target with the    *)
(* chain yields when the positions of its own auxdata are known: the       *)
(* profile of the target.  The chain, the network and the compilers are    *)
(* the environment.                                                        *)
(***************************************************************************)
EXTENDS Integers, Sequences, FiniteSets

CONSTANTS
  Candidates,    (* the contracts of the compiler output, in its order      *)
  Profiles,      (* what a contract may compile to, compared with the chain *)
  Inputs,        (* the requests                                            *)
  None,          (* no contract                                             *)
  MaxFaults      (* bound: calls of the chain or of a compiler that fail    *)

Targets == {Candidates[i] : i \in DOMAIN Candidates}

Status == {"null", "partial", "perfect"}

Profile ==
  [size     : {"same", "differs", "zero"},   (* of the compiled runtime code *)
   auxdatas : {"one", "inner", "many"},      (* one at the end of both codes,
                one that is not at the end of the creation code, or several *)
   metadata : {"same", "varied", "other"},   (* its hash against the chain's;
                varied: equal for a known variation of the sources          *)
   runtime  : Status,
   creation : Status]

\* Fe is left out: it has no auxdata, no metadata and no check of the length.
Input ==
  [language  : {"Solidity", "Yul", "Vyper"},
   mode      : {"named", "search", "metadata"},
   optimizer : BOOLEAN,
   ordering  : BOOLEAN,    (* before 0.8.21, through the IR, not optimized  *)
   bare      : BOOLEAN]    (* the code on the chain carries no metadata     *)

ASSUME NothingIsNoTarget == None \notin Targets
ASSUME CandidatesAssumption ==     (* fully qualified names are keys of the output *)
  /\ Candidates \in Seq(Targets)
  /\ \A i, k \in DOMAIN Candidates : Candidates[i] = Candidates[k] => i = k
ASSUME ProfilesAssumption == Profiles \subseteq Profile
ASSUME InputsAssumption ==
  /\ Inputs \subseteq Input
  /\ \A i \in Inputs : ~(i.optimizer /\ i.ordering)
ASSUME FaultsAssumption == MaxFaults \in Nat

VARIABLES
  input, profile,
  pc,              (* the await the worker is at                            *)
  attempt,         (* verifyFromMetadata's first or second Verification     *)
  todo,            (* positions verifyWithBestEfforts has not tried yet     *)
  matched,         (* its variable compilationTarget                        *)
  final,           (* it verifies the match again                           *)
  target,          (* compilation.compilationTarget                         *)
  force,           (* verify's argument forceEmscripten                     *)
  output,          (* compilerOutput: none, or the compiler it comes from   *)
  contracts,       (* the contracts in it                                   *)
  runtimeAuxdata,  (* the contract _runtimeBytecodeCborAuxdata belongs to   *)
  creationAuxdata, (* the contract _creationBytecodeCborAuxdata belongs to  *)
  runtimeCode,     (* _onchainRuntimeBytecode: unknown, empty or code       *)
  creationCode,    (* _onchainCreationBytecode is set                       *)
  creatorTxHash,   (* creatorTxHash is set                                  *)
  runtimeMatch, creationMatch,
  result,          (* what the worker returns                               *)
  faults

request     == <<input, attempt>>
search      == <<todo, matched, final>>
compilation == <<output, contracts, runtimeAuxdata, creationAuxdata>>
chain       == <<runtimeCode, creationCode, creatorTxHash>>
matches     == <<runtimeMatch, creationMatch>>
vars == <<request, profile, pc, search, target, force, compilation, chain,
          matches, result, faults>>

NoResult == [code |-> "none", target |-> None, runtime |-> "null",
             creation |-> "null", txHash |-> FALSE]

\* The metadata names the contract, so the hash on the chain is that of one.
\* Left out: code with no metadata on the chain nor in the output, where the two
\* hashes that handleSolidityExtraFileInputBug compares are both undefined.
ConsistentProfiles(f) ==
  \A t, u \in Targets : f[t].metadata # "other" /\ f[u].metadata # "other" => t = u

Init ==
  /\ input \in Inputs
  /\ profile \in {f \in [Targets -> Profiles] : ConsistentProfiles(f)}
  /\ input.bare => \A t \in Targets : profile[t].metadata = "other"
  /\ pc = "start" /\ attempt = 1
  /\ todo = {} /\ matched = None /\ final = FALSE
  /\ target \in IF input.mode = "search" THEN {None} ELSE Targets
  /\ force = FALSE
  /\ output = "none" /\ contracts = {}
  /\ runtimeAuxdata = None /\ creationAuxdata = None
  /\ runtimeCode = "unknown" /\ creationCode = FALSE /\ creatorTxHash = FALSE
  /\ runtimeMatch = "null" /\ creationMatch = "null"
  /\ result = NoResult /\ faults = 0

-----------------------------------------------------------------------------
(* How verify ends *)

IsSolidity == input.language \in {"Solidity", "Yul"}

\* The errors after which the search goes on with the next contract.
Continues(code) ==
  /\ input.mode = "search" /\ ~final
  /\ code \in {"bytecode_length_mismatch", "no_match"}

\* useAllSourcesAndReturnCompilation: a second Verification, a compilation
\* with every source of the request, and so possibly another bytecode.
WithAllSources ==
  /\ attempt' = 2 /\ pc' = "fetch" /\ force' = FALSE
  /\ output' = "none" /\ contracts' = Targets
  /\ runtimeAuxdata' = None /\ creationAuxdata' = None
  /\ runtimeCode' = "unknown" /\ creationCode' = FALSE
  /\ runtimeMatch' = "null" /\ creationMatch' = "null"
  /\ \E p \in Profiles :
       /\ p.metadata = "same"
       /\ profile' = [profile EXCEPT ![target] = p]
  /\ UNCHANGED <<input, search, target, creatorTxHash, result>>

\* Wrong variant: neither an export nor an error.
NothingReturned(code) ==
  /\ pc' = "done"
  /\ UNCHANGED <<request, profile, search, target, force, compilation, chain,
                 matches, result>>

ErrorExport(code) ==
  /\ result' = [NoResult EXCEPT !.code = code, !.target = target]
  /\ pc' = "done"
  /\ UNCHANGED <<request, profile, search, target, force, compilation, chain,
                 matches>>

\* Wrong variant: a contract that does not match ends the loop.
StopAtMismatch(code) ==
  IF Continues(code)
  THEN /\ pc' = "next" /\ todo' = {}
       /\ UNCHANGED <<request, profile, matched, final, target, force, compilation,
                      chain, matches, result>>
  ELSE ErrorExport(code)

\* verify throws.
Throw(code) ==
  IF Continues(code)
  THEN /\ pc' = "next"
       /\ UNCHANGED <<request, profile, search, target, force, compilation, chain,
                      matches, result>>
  ELSE IF input.mode = "metadata" /\ attempt = 1 /\ code = "extra_file_input_bug"
  THEN WithAllSources
  ELSE ErrorExport(code)

\* A call of the chain or of a compiler fails.
Fault(code) ==
  /\ faults < MaxFaults /\ faults' = faults + 1
  /\ Throw(code)

Goto(label) == pc' = label /\ UNCHANGED faults

-----------------------------------------------------------------------------
(* The worker *)

\* getCreatorTx gives up quietly; a request may also bring the hash itself.
GetCreatorTx ==
  /\ pc = "start"
  /\ creatorTxHash' \in BOOLEAN
  /\ Goto(IF input.mode = "search" THEN "list" ELSE "fetch")
  /\ contracts' = Targets
  /\ UNCHANGED <<request, profile, search, target, force, output, runtimeAuxdata,
                 creationAuxdata, runtimeCode, creationCode, matches, result>>

\* compileAndReturnContractFullQualifyNames
CompileAndList ==
  /\ pc = "list"
  /\ \/ /\ output' = "native"
        /\ todo' = {i \in DOMAIN Candidates : profile[Candidates[i]].size # "zero"}
        /\ Goto("next")
        /\ UNCHANGED <<request, profile, matched, final, target, force, contracts,
                       runtimeAuxdata, creationAuxdata, chain, matches, result>>
     \/ Fault("compiler_error")

TryCandidate ==
  /\ pc = "next"
  /\ \E i \in todo : /\ \A k \in todo : i <= k
                     /\ target' = Candidates[i] /\ todo' = todo \ {i}
  /\ force' = FALSE
  /\ Goto("fetch")
  /\ UNCHANGED <<request, profile, matched, final, compilation, chain, matches, result>>

\* Wrong variant: the match fields are taken as the last contract left them.
ExportAtOnce ==
  /\ pc = "next" /\ todo = {} /\ matched # None
  /\ result' = [code |-> "match", target |-> matched, runtime |-> runtimeMatch,
                creation |-> creationMatch, txHash |-> creatorTxHash]
  /\ Goto("done")
  /\ UNCHANGED <<request, profile, search, target, force, compilation, chain, matches>>

VerifyMatchAgain ==
  /\ pc = "next" /\ todo = {} /\ matched # None
  /\ target' = matched /\ final' = TRUE /\ force' = FALSE
  /\ Goto("fetch")
  /\ UNCHANGED <<request, profile, todo, matched, compilation, chain, matches, result>>

NothingMatched ==
  /\ pc = "next" /\ todo = {} /\ matched = None
  /\ ErrorExport("no_match") /\ UNCHANGED faults

-----------------------------------------------------------------------------
(* verify: the code on the chain and the compilation *)

FetchRuntime ==
  /\ pc = "fetch"
  /\ \/ /\ IF runtimeCode = "unknown" THEN runtimeCode' \in {"empty", "code"}
           ELSE UNCHANGED runtimeCode
        /\ Goto(IF runtimeCode' = "empty" THEN "refetch" ELSE "compile")
        /\ UNCHANGED <<request, profile, search, target, force, compilation,
                       creationCode, creatorTxHash, matches, result>>
     \/ runtimeCode = "unknown" /\ Fault("cannot_fetch_bytecode")

\* The code is gone: it is read as of the block of the creation.
RefetchRuntime ==
  /\ pc = "refetch" /\ creatorTxHash
  /\ \/ /\ runtimeCode' = "code"
        /\ Goto("compile")
        /\ UNCHANGED <<request, profile, search, target, force, compilation,
                       creationCode, creatorTxHash, matches, result>>
     \/ Fault("internal_error")

NotDeployed ==
  /\ pc = "refetch"
  /\ Throw("contract_not_deployed") /\ UNCHANGED faults

\* compileAndReturnCompilationTarget compiles once, whatever is asked later.
Compile ==
  /\ pc = "compile"
  /\ \/ /\ target \in contracts
        /\ output' = IF output # "none" THEN output
                     ELSE IF force THEN "emscripten" ELSE "native"
        /\ Goto("perfect")
        /\ UNCHANGED <<request, profile, search, target, force, contracts,
                       runtimeAuxdata, creationAuxdata, chain, matches, result>>
     \/ output = "none" /\ Fault("compiler_error")

ContractNotFound ==
  /\ pc = "compile" /\ target \notin contracts
  /\ Throw("contract_not_found_in_compiler_output") /\ UNCHANGED faults

\* Sources whose metadata has the hash on the chain: the object gets a new
\* compilation, made of the sources this one metadata names.
MetadataVaries == input.language = "Solidity" /\ profile[target].metadata = "varied"

WithPerfectMetadata(p) ==
  LET Perfect(status) == IF status = "partial" THEN "perfect" ELSE status
  IN  [p EXCEPT !.metadata = "same", !.runtime = Perfect(@), !.creation = Perfect(@)]

FindPerfectMetadata ==
  /\ pc = "perfect" /\ MetadataVaries
  /\ profile' = [profile EXCEPT ![target] = WithPerfectMetadata(@)]
  /\ \E others \in SUBSET Targets : contracts' = others \cup {target}
  /\ runtimeAuxdata' = None /\ creationAuxdata' = None
  /\ \/ /\ output' = IF force THEN "emscripten" ELSE "native"
        /\ Goto("length") /\ UNCHANGED result
     \/ /\ faults < MaxFaults /\ faults' = faults + 1
        /\ output' = "none"     (* caught, but the new object has no output *)
        /\ result' = [NoResult EXCEPT !.code = "no_compiler_output", !.target = target]
        /\ pc' = "done"
  /\ UNCHANGED <<request, search, target, force, chain, matches>>

KeepMetadata ==
  /\ pc = "perfect" /\ ~MetadataVaries
  /\ Goto("length")
  /\ UNCHANGED <<request, profile, search, target, force, compilation, chain,
                 matches, result>>

-----------------------------------------------------------------------------
(* verify: the comparison *)

\* handleSolidityExtraFileInputBug: same metadata, another bytecode.
ExtraFileInputBug == input.optimizer /\ profile[target].metadata = "same"

SizeAccepted ==
  \/ input.language = "Yul"
  \/ profile[target].size = "same"
  \/ input.language = "Solidity" /\ input.bare

Proceed(label) ==
  /\ Goto(label)
  /\ UNCHANGED <<request, profile, search, target, force, compilation, chain,
                 matches, result>>

CheckLength ==
  /\ pc = "length"
  /\ \/ /\ profile[target].size = "zero"
        /\ Throw("compiled_bytecode_is_zero") /\ UNCHANGED faults
     \/ /\ profile[target].size = "differs"
        /\ input.language = "Solidity" /\ ExtraFileInputBug
        /\ Throw("extra_file_input_bug") /\ UNCHANGED faults
     \/ /\ profile[target].size = "differs" /\ ~SizeAccepted
        /\ ~(input.language = "Solidity" /\ ExtraFileInputBug)
        /\ Throw("bytecode_length_mismatch") /\ UNCHANGED faults
     \/ /\ profile[target].size # "zero" /\ SizeAccepted
        /\ ~(profile[target].size = "differs"
             /\ input.language = "Solidity" /\ ExtraFileInputBug)
        /\ Proceed("positions")

\* generateCborAuxdataPositions.  A Solidity contract with one auxdata at the
\* end of both codes needs no second compilation; with several, the positions
\* in the runtime code are kept when there are any, whoever they are of.
RecompileFree == ~IsSolidity \/ profile[target].auxdatas = "one"

RuntimePositions ==
  IF IsSolidity /\ profile[target].auxdatas = "many" /\ runtimeAuxdata # None
  THEN runtimeAuxdata ELSE target

GeneratePositions ==
  /\ pc = "positions"
  /\ runtimeAuxdata' = RuntimePositions
  /\ creationAuxdata' = target
  /\ Goto("runtime")
  /\ UNCHANGED <<request, profile, search, target, force, output, contracts, chain,
                 matches, result>>

\* The second compilation fails: verify continues with what is there.
PositionsFail ==
  /\ pc = "positions" /\ ~RecompileFree
  /\ faults < MaxFaults /\ faults' = faults + 1
  /\ runtimeAuxdata' = IF profile[target].auxdatas = "inner" THEN target
                       ELSE runtimeAuxdata
  /\ pc' = "runtime"
  /\ UNCHANGED <<request, profile, search, target, force, output, contracts,
                 creationAuxdata, chain, matches, result>>

\* matchBytecodes.  Equal codes match whatever the positions; codes equal but
\* for their auxdata may be missed when the positions are another contract's.
Outcomes(status, positions) ==
  IF status # "partial" \/ positions = target THEN {status} ELSE {"partial", "null"}

\* Without any positions the comparison throws, and the old status stays.
MatchRuntime ==
  /\ pc = "runtime"
  /\ IF runtimeAuxdata = None THEN UNCHANGED runtimeMatch
     ELSE runtimeMatch' \in Outcomes(profile[target].runtime, runtimeAuxdata)
  /\ Goto("bugs")
  /\ UNCHANGED <<request, profile, search, target, force, compilation, chain,
                 creationMatch, result>>

Unmatched == IsSolidity /\ runtimeMatch = "null"

\* Wrong variant: Emscripten is tried whatever was tried before.
RetryAlways ==
  \/ pc = "bugs" /\ ~(Unmatched /\ (ExtraFileInputBug \/ input.ordering)) /\ Proceed("getCreation")
  \/ /\ pc = "bugs" /\ Unmatched /\ input.ordering
     /\ force' = TRUE /\ Goto("fetch")
     /\ UNCHANGED <<request, profile, search, target, compilation, chain, matches,
                    result>>

\* handleSolidityIROutputOrderingBug: once more, with the other compiler.
RetryWithEmscripten == Unmatched /\ input.ordering /\ ~force

HandleBugs ==
  /\ pc = "bugs"
  /\ \/ /\ Unmatched /\ ExtraFileInputBug
        /\ Throw("extra_file_input_bug") /\ UNCHANGED faults
     \/ /\ RetryWithEmscripten
        /\ force' = TRUE /\ Goto("fetch")
        /\ UNCHANGED <<request, profile, search, target, compilation, chain, matches,
                       result>>
     \/ /\ ~(Unmatched /\ ExtraFileInputBug) /\ ~RetryWithEmscripten
        /\ Proceed("getCreation")

\* Wrong variant: the transaction is asked for every time.
FetchCreationAgain ==
  /\ pc = "getCreation" /\ creatorTxHash
  /\ \/ creationCode' = TRUE /\ UNCHANGED <<creatorTxHash, faults>>
     \/ /\ faults < MaxFaults /\ faults' = faults + 1
        /\ creatorTxHash' = FALSE /\ UNCHANGED creationCode
  /\ pc' = "creation"
  /\ UNCHANGED <<request, profile, search, target, force, compilation, runtimeCode,
                 matches, result>>

\* The transaction and its receipt, once; a failure forgets the transaction.
FetchCreation ==
  /\ pc = "getCreation" /\ creatorTxHash /\ ~creationCode
  /\ \/ creationCode' = TRUE /\ UNCHANGED <<creatorTxHash, faults>>
     \/ /\ faults < MaxFaults /\ faults' = faults + 1
        /\ creatorTxHash' = FALSE /\ UNCHANGED creationCode
  /\ pc' = "creation"
  /\ UNCHANGED <<request, profile, search, target, force, compilation, runtimeCode,
                 matches, result>>

CreationAsBefore ==
  /\ pc = "getCreation" /\ (creationCode \/ ~creatorTxHash)
  /\ Proceed("creation")

\* Wrong variant: a comparison that fails leaves the field alone.
MatchCreationKeeps ==
  /\ pc = "creation"
  /\ \/ /\ creationCode /\ creationAuxdata # None /\ profile[target].creation # "null"
        /\ creationMatch' \in Outcomes(profile[target].creation, creationAuxdata)
     \/ /\ ~(creationCode /\ creationAuxdata # None /\ profile[target].creation # "null")
        /\ UNCHANGED creationMatch
  /\ Goto("conclude")
  /\ UNCHANGED <<request, profile, search, target, force, compilation, chain,
                 runtimeMatch, result>>

MatchCreation ==
  /\ pc = "creation"
  /\ IF creationCode /\ creationAuxdata # None
     THEN creationMatch' \in Outcomes(profile[target].creation, creationAuxdata)
     ELSE UNCHANGED creationMatch
  /\ Goto("conclude")
  /\ UNCHANGED <<request, profile, search, target, force, compilation, chain,
                 runtimeMatch, result>>

Verified == runtimeMatch # "null" \/ creationMatch # "null"

Export ==
  /\ pc = "conclude" /\ Verified
  /\ input.mode # "search" \/ final
  /\ result' = [code |-> "match", target |-> target, runtime |-> runtimeMatch,
                creation |-> creationMatch, txHash |-> creatorTxHash]
  /\ Goto("done")
  /\ UNCHANGED <<request, profile, search, target, force, compilation, chain, matches>>

NoteMatch ==
  /\ pc = "conclude" /\ Verified
  /\ input.mode = "search" /\ ~final
  /\ \/ /\ matched = None
        /\ matched' = target /\ Goto("next")
        /\ UNCHANGED <<request, profile, todo, final, target, force, compilation,
                       chain, matches, result>>
     \/ /\ matched # None
        /\ Throw("invalid_compilation_target") /\ UNCHANGED faults

NoMatch ==
  /\ pc = "conclude" /\ ~Verified
  /\ Throw("no_match") /\ UNCHANGED faults

-----------------------------------------------------------------------------

Next ==
  \/ GetCreatorTx \/ CompileAndList
  \/ TryCandidate \/ VerifyMatchAgain \/ NothingMatched
  \/ FetchRuntime \/ RefetchRuntime \/ NotDeployed
  \/ Compile \/ ContractNotFound \/ FindPerfectMetadata \/ KeepMetadata
  \/ CheckLength \/ GeneratePositions \/ PositionsFail
  \/ MatchRuntime \/ HandleBugs
  \/ FetchCreation \/ CreationAsBefore \/ MatchCreation
  \/ Export \/ NoteMatch \/ NoMatch

Spec == Init /\ [][Next]_vars

\* The worker runs by itself: every call it awaits returns or fails, the
\* compilers included (the pool puts no limit on them; a compiler that never
\* returns is a step that is never taken, see VerificationJobs).
FairSpec == Spec /\ WF_vars(Next)

-----------------------------------------------------------------------------
(* Properties *)

\* Type invariant.
TypeOK ==
  /\ input \in Inputs /\ profile \in [Targets -> Profile]
  /\ pc \in {"start", "list", "next", "fetch", "refetch", "compile", "perfect",
             "length", "positions", "runtime", "bugs", "getCreation", "creation",
             "conclude", "done"}
  /\ attempt \in 1..2
  /\ todo \subseteq DOMAIN Candidates /\ matched \in Targets \cup {None} /\ final \in BOOLEAN
  /\ target \in Targets \cup {None} /\ force \in BOOLEAN
  /\ output \in {"none", "native", "emscripten"} /\ contracts \subseteq Targets
  /\ {runtimeAuxdata, creationAuxdata} \subseteq Targets \cup {None}
  /\ runtimeCode \in {"unknown", "empty", "code"}
  /\ creationCode \in BOOLEAN /\ creatorTxHash \in BOOLEAN
  /\ {runtimeMatch, creationMatch} \subseteq Status
  /\ (pc = "done") = (result # NoResult)
  /\ faults \in 0..MaxFaults

(* What a Verification object of its own would say of one contract.        *)

LengthFits(t) ==
  \/ input.language = "Yul"
  \/ profile[t].size = "same"
  \/ input.language = "Solidity" /\ input.bare /\ profile[t].size = "differs"

HitsExtraFileBug(t) ==
  /\ IsSolidity /\ input.optimizer /\ profile[t].metadata = "same"
  /\ \/ input.language = "Solidity" /\ profile[t].size = "differs"
     \/ profile[t].runtime = "null"

Accepts(t) ==
  /\ LengthFits(t) /\ ~HitsExtraFileBug(t)
  /\ profile[t].runtime # "null" \/ (creationCode /\ profile[t].creation # "null")

\* The positions of another contract can be used for this one.
MayMissAuxdata(t) ==
  /\ IsSolidity
  /\ profile[t].auxdatas = "many" /\ profile[t].runtime = "partial"
  /\ \E u \in Targets \ {t} : LengthFits(u)

\* What is exported belongs to the contract it is exported for: a status of
\* another contract never shows, and without a failed call no status of the
\* contract itself is lost, except where the positions of another contract's
\* auxdata were kept (Verification.ts:133-135 verifies the match again).
ExportIsOfTarget ==
  result.code = "match" =>
    LET p == profile[result.target] IN
    /\ result.runtime \in {p.runtime, "null"}
    /\ result.creation \in {p.creation, "null"}
    /\ result.runtime # "null" \/ result.creation # "null"
    /\ faults = 0 =>
         /\ result.runtime = p.runtime \/ MayMissAuxdata(result.target)
         /\ result.creation = IF creationCode THEN p.creation ELSE "null"

\* A creation match is exported with the transaction it was read from: a
\* failed call forgets the transaction only when there is no creation code yet
\* (Verification.ts:311 and 333).
CreationMatchHasTransaction ==
  /\ creationCode => creatorTxHash
  /\ result.creation # "null" => result.txHash

\* The answer "more than one contract matches" names a fact: two contracts
\* match each on its own, not one of them by what the other left behind.  The
\* exception is a compilation without positions, where the comparison throws
\* and the status of the contract before stays (Verification.ts:273).
AmbiguityIsReal ==
  result.code = "invalid_compilation_target"
    /\ None \notin {runtimeAuxdata, creationAuxdata} =>
    \E t, u \in Targets : t # u /\ Accepts(t) /\ Accepts(u)

\* The search over one pair of objects says what separate objects would say:
\* the only contract that matches is exported, none is "no match", several are
\* an error.  Taken out are the places where the code does differ: a candidate
\* that ends the search by the extra-file error, metadata found for varied
\* sources (the new compilation may lack the later candidates), and kept
\* positions.
SearchFindsTheMatch ==
  LET Listed == {t \in Targets : profile[t].size # "zero"}
      Matching == {t \in Listed : Accepts(t)}
  IN  /\ input.mode = "search" /\ pc = "done" /\ faults = 0 /\ runtimeCode = "code"
      /\ \A t \in Listed : ~HitsExtraFileBug(t) /\ ~MayMissAuxdata(t)
      /\ contracts = Targets
      => /\ Cardinality(Matching) = 0 => result.code = "no_match"
         /\ Cardinality(Matching) > 1 => result.code = "invalid_compilation_target"
         /\ \A t \in Matching :
              Matching = {t} => result.code = "match" /\ result.target = t

\* A verification ends: the second try with the other compiler is the last.
VerificationEnds == <>(pc = "done")
=============================================================================
