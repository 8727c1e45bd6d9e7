---------------------------- MODULE MCContentStore ----------------------------
EXTENDS ContentStore, TLC
CONSTANTS a1, a2, a3, c1, k1, k2, r1, r2, v1, v2, x1, x2, s1, s2, p1, p2, t1

First == [address |-> a1, onCreation |-> c1, onRuntime |-> r1, creation |-> k1,
          runtime |-> r1, version |-> v1, settings |-> x1,
          files |-> (p1 :> s1), transaction |-> t1,
          creationMatch |-> "partial", runtimeMatch |-> "partial",
          libraries |-> FALSE]

Again == [First EXCEPT !.version = v2, !.onCreation = None, !.transaction = None,
                       !.creationMatch = None, !.runtimeMatch = "perfect"]

Third == [First EXCEPT !.address = a3, !.settings = x2, !.files = (p1 :> s2 @@ p2 :> s1)]

Other == [Again EXCEPT !.address = a2, !.creation = k2, !.onRuntime = r2, !.runtime = r2]

Linked == [Other EXCEPT !.libraries = TRUE]

\* Another compilation that is found to be the same contract.
Rebuilt == [First EXCEPT !.creation = k2, !.runtime = r2]

MCExports == {First, Again, Third, Other, Linked, Rebuilt}

MCDeployed == a1 :> r1 @@ a2 :> r2 @@ a3 :> r1

MCSymmetry == Permutations(Jobs)
=============================================================================
