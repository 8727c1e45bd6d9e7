--------------------------- MODULE MCMatchStatus ---------------------------
(***************************************************************************)
(* Walks every chain existing -> replacement -> replacement of match pairs *)
(* that the store's test accepts, and checks the comparison against what   *)
(* the rest of the code takes from it.                                     *)
(***************************************************************************)
EXTENDS MatchStatus

VARIABLES first, current

chainVars == <<first, current>>

ChainInit == /\ first \in MatchPairs
             /\ current = first

Replace(new) == /\ IsBetterVerification(new, current)
                /\ current' = new
                /\ UNCHANGED first

ChainNext == \E new \in MatchPairs : Replace(new)

ChainSpec == ChainInit /\ [][ChainNext]_chainVars

\* However many accepted replacements separate two matches, the later one is
\* itself an improvement on the earlier one (the comparison is transitive and
\* never circular: a chain of upgrades cannot lead back), and the level the API
\* reports, which is computed by an unrelated function, has not dropped.
ChainImproves ==
    /\ current # first => /\ IsBetterVerification(current, first)
                          /\ ~ IsBetterVerification(first, current)
    /\ LevelRank(LevelOf(current)) >= LevelRank(LevelOf(first))

\* The middleware turns a request away exactly when no verification could
\* replace the match: it rejects no request that could have improved it.
GateAgreesWithStore ==
    IsFullyVerified(current)
        <=> ~ \E new \in MatchPairs : IsBetterVerification(new, current)

\* The two summaries of a pair agree: a full level is a perfect status, a
\* partial level a partial one, and only the bug status is lost on the way.
SummariesAgree ==
    ToMatchLevel(MatchStatusOf(current.creation, current.runtime))
        = LevelOf(current)
=============================================================================
