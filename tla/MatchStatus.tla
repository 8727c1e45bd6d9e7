---------------------------- MODULE MatchStatus ----------------------------
(***************************************************************************)
(* The match qualities of services/utils/util.ts: how two verifications of *)
(* the same contract are compared, and how the pair (creation, runtime)    *)
(* becomes the level a reader of the API sees.  Nothing here has state;    *)
(* the store and the request handlers are built from these operators.      *)
(***************************************************************************)
EXTENDS Integers

\* VerificationStatus; "null" stands for JavaScript's null.
Statuses == {"null", "error", "extra-file-input-bug", "partial", "perfect"}

\* MatchLevel; "null" again stands for null.
MatchLevels == {"null", "match", "exact_match"}

\* The part of a verification, and of a stored match, that is ever compared.
MatchPairs == [creation : Statuses, runtime : Statuses]

\* The scores table of getStatusDiff; everything unlisted or null counts 0.
Score(status) == IF status = "perfect" THEN 2
                 ELSE IF status = "partial" THEN 1 ELSE 0

StatusDiff(status1, status2) == Score(status1) - Score(status2)

\* Wrong variant: one side is better, whatever becomes of the other.
BetterOnOneSide(new, existing) ==
    \/ StatusDiff(new.creation, existing.creation) > 0
    \/ StatusDiff(new.runtime, existing.runtime) > 0

\* One side is strictly better and the other is not worse.
IsBetterVerification(new, existing) ==
    \/ /\ StatusDiff(new.creation, existing.creation) > 0
       /\ StatusDiff(new.runtime, existing.runtime) >= 0
    \/ /\ StatusDiff(new.runtime, existing.runtime) > 0
       /\ StatusDiff(new.creation, existing.creation) >= 0

ToMatchLevel(status) == IF status = "perfect" THEN "exact_match"
                        ELSE IF status = "partial" THEN "match" ELSE "null"

\* getTotalMatchLevel: the single level the API reports for a contract.
TotalMatchLevel(creation, runtime) ==
    IF {creation, runtime} \cap {"partial", "perfect"} = {} THEN "null"
    ELSE IF "perfect" \in {creation, runtime} THEN "exact_match" ELSE "match"

\* Wrong variant: the creation match only counts when there is no runtime match.
RuntimeStatusFirst(creation, runtime) ==
    IF runtime \in {"perfect", "partial"} THEN runtime
    ELSE IF creation \in {"perfect", "partial"} THEN creation ELSE runtime

\* getMatchStatus: the single status the verification code reports.
MatchStatusOf(creation, runtime) ==
    IF "perfect" \in {creation, runtime} THEN "perfect"
    ELSE IF "partial" \in {creation, runtime} THEN "partial"
    ELSE IF runtime = "extra-file-input-bug" THEN "extra-file-input-bug"
    ELSE "null"

LevelOf(match) == TotalMatchLevel(match.creation, match.runtime)

LevelRank(level) == IF level = "exact_match" THEN 2
                    ELSE IF level = "match" THEN 1 ELSE 0

\* Wrong variant: satisfied with an exact match of the runtime bytecode.
IsRuntimeVerified(match) == ToMatchLevel(match.runtime) = "exact_match"

\* The test of the middleware checkIfAlreadyVerified, on the API's levels.
IsFullyVerified(match) == /\ ToMatchLevel(match.runtime) = "exact_match"
                          /\ ToMatchLevel(match.creation) = "exact_match"
=============================================================================
