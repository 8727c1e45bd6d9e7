-------------------------- MODULE MCCreationLookup --------------------------
(***************************************************************************)
(* Instances of CreationLookup for TLC.                                    *)
(***************************************************************************)
EXTENDS CreationLookup, FiniteSets

CONSTANT MaxCreates  (* bound: the creations in one transaction *)

\* Creations begin (+1) and end (-1) like brackets.
Depth(shape, i) == FoldLeft(+, 0, SubSeq(shape, 1, i))

Shapes(n) ==
  {s \in [1..(2 * n) -> {1, -1}] :
     /\ \A i \in 1..(2 * n) : Depth(s, i) >= 0
     /\ Depth(s, 2 * n) = 0}

\* The creation that ends at j began at i: what lies between is complete.
Matches(shape, i, j) ==
  /\ i < j /\ shape[i] = 1 /\ shape[j] = -1
  /\ Depth(shape, i) = Depth(shape, j) + 1
  /\ \A k \in i..(j - 1) : Depth(shape, k) >= Depth(shape, i)

\* One of the creations made the contract, or none did.
TraceOf(shape, ours) ==
  [steps |-> [i \in DOMAIN shape |->
                IF shape[i] = 1 THEN [type |-> "create", init |-> i]
                ELSE [type |-> "create_result",
                      addr |-> IF ours # None /\ Matches(shape, ours, i) THEN "ours" ELSE "other"]],
   expected |-> ours]

NestedTraces ==
  UNION {UNION {{TraceOf(s, i) : i \in {k \in DOMAIN s : s[k] = 1} \cup {None}} : s \in Shapes(n)}
         : n \in 0..MaxCreates}

EachSupport == <<"none", "trace_transaction", "other">>
===========================================================================
