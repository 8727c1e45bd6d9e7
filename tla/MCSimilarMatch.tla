--------------------------- MODULE MCSimilarMatch ---------------------------
(***************************************************************************)
(* Instances of SimilarMatch for TLC.                                      *)
(***************************************************************************)
EXTENDS SimilarMatch, TLC

CONSTANTS k1, k2, k3

Export(k, creation, runtime) ==
  [compilation |-> k, creation |-> creation, runtime |-> runtime]

FewVerifications == {Export(k1, "null", "partial"), Export(k1, "perfect", "perfect"),
                     Export(k2, "null", "partial")}

\* Three qualities, each better than the one before, on every compilation.
LadderVerifications ==
  {Export(k, s[1], s[2]) : k \in Compilations,
     s \in {<<"null", "partial">>, <<"partial", "partial">>, <<"perfect", "perfect">>}}

\* No chain is named, or one.
AnyOrOther == {Contracts} \cup {{c} : c \in Contracts}

CrossSymmetry == Permutations(Jobs) \cup Permutations(Contracts)
===========================================================================
