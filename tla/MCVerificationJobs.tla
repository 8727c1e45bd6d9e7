------------------------ MODULE MCVerificationJobs ------------------------
(***************************************************************************)
(* Instances of VerificationJobs for TLC.                                  *)
(***************************************************************************)
EXTENDS VerificationJobs, TLC

CONSTANTS k1, k2, k3

Export(k, creation, runtime) ==
  [compilation |-> k, creation |-> creation, runtime |-> runtime]

\* A partial and two full results, so that results conflict, improve on each
\* other or repeat, within one compilation and across two.
FewVerifications == {Export(k1, "null", "partial"), Export(k1, "perfect", "perfect"),
                     Export(k2, "null", "partial")}

\* A ladder of qualities on every compilation.
LadderVerifications ==
  {Export(k, s[1], s[2]) : k \in Compilations,
     s \in {<<"null", "partial">>, <<"partial", "partial">>,
            <<"null", "perfect">>, <<"perfect", "perfect">>}}

JobSymmetry == Permutations(Jobs)
AllSymmetry == Permutations(Jobs) \cup Permutations(Compilations)
===========================================================================
