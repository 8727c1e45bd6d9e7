------------------------ MODULE CreationLookupProofs ------------------------
(***************************************************************************)
(* What holds of the lookup of a creation for any number of nodes and      *)
(* blocks, whatever the nodes fail at or lack.                             *)
(***************************************************************************)
EXTENDS CreationLookup, WellFoundedInduction, TLAPS

(***************************************************************************)
(* The invariant of the binary search.  The upper end never passes the     *)
(* block the search started from, at which the contract has its code, so a *)
(* block without code in between lies before the creation.                 *)
(***************************************************************************)
Searching == pc \in {"getBytecode", "getBlock"}

SearchTypes ==
  /\ created \in Nat /\ destroyed \in Nat
  /\ seen \in [Nodes -> Blocks] /\ node \in Nodes
  /\ currentBlockNumber \in Nat /\ left \in Nat /\ right \in Nat
  /\ reorganised \in BOOLEAN

Brackets ==
  /\ left <= created /\ created <= right
  /\ right <= currentBlockNumber

SearchInv ==
  /\ SearchTypes
  /\ Searching /\ ~reorganised /\ HasCode(currentBlockNumber) => Brackets

LEMMA SearchInvInit == Init => SearchInv
<1> SUFFICES ASSUME Init PROVE SearchInv
  OBVIOUS
<1>1. SearchTypes
  <2>1. 1 \in Nodes
    BY NodesAssumption DEF Nodes
  <2>2. created \in Nat /\ destroyed \in Nat
    BY BlocksAssumption DEF Init, Blocks, Never
  <2> QED
    BY <2>1, <2>2 DEF Init, SearchTypes
<1>2. ~Searching
  BY DEF Init, Searching
<1> QED
  BY <1>1, <1>2 DEF SearchInv

\* A call that is passed on, or thrown, leaves the search as it is.
LEMMA NextNodeKeeps ==
  ASSUME SearchInv, NextNode, UNCHANGED chain, pc \in Calls
  PROVE  SearchInv'
<1>1. UNCHANGED bounds /\ (pc' = pc \/ pc' \in {"candidates", "done"}) /\ node' \in Nodes
  BY NodesAssumption DEF NextNode, CallThrows, SearchInv, SearchTypes, Nodes, bounds
<1> QED
  BY <1>1 DEF SearchInv, SearchTypes, Brackets, Searching, HasCode, bounds, chain, Nodes

LEMMA CallThrowsKeeps ==
  ASSUME SearchInv, CallThrows, UNCHANGED chain
  PROVE  SearchInv'
<1>1. UNCHANGED bounds /\ pc' \in {"candidates", "done"} /\ node' \in Nodes
  BY NodesAssumption DEF CallThrows, Nodes, bounds
<1> QED
  BY <1>1 DEF SearchInv, SearchTypes, Brackets, Searching, HasCode, bounds, chain, Nodes

\* An answer outside the search leaves its bounds alone.
LEMMA AnsweredKeeps ==
  ASSUME SearchInv, NEW label, Answered(label), UNCHANGED bounds,
         label \notin {"getBytecode", "getBlock"}
  PROVE  SearchInv'
<1>1. node' \in Nodes
  BY NodesAssumption DEF Answered, Nodes
<1> QED
  BY <1>1 DEF Answered, SearchInv, SearchTypes, Brackets, Searching, HasCode, bounds,
              chain, Nodes

LEMMA Halves ==
  ASSUME NEW l \in Nat, NEW r \in Nat, l <= r
  PROVE  /\ (l + r) \div 2 \in Nat
         /\ l <= (l + r) \div 2 /\ (l + r) \div 2 <= r
OBVIOUS

LEMMA SearchInvStep == SearchInv /\ [Next]_vars => SearchInv'
<1> SUFFICES ASSUME SearchInv, [Next]_vars
             PROVE  SearchInv'
  OBVIOUS
<1>1. CASE NodeFails
  BY <1>1, NextNodeKeeps, CallThrowsKeeps DEF NodeFails
<1>2. CASE NodeLacksBlock
  BY <1>2, NextNodeKeeps DEF NodeLacksBlock
<1>3. CASE NodeWithoutTraces
  BY <1>3, NextNodeKeeps, CallThrowsKeeps DEF NodeWithoutTraces, Calls
<1>4. CASE AskApi \/ AskPage
  BY <1>4, AnsweredKeeps DEF AskApi, AskPage, KnownOr
<1>5. CASE GetBlockNumber
  <2>1. /\ left' = 0 /\ right' = seen[node] /\ currentBlockNumber' = seen[node]
        /\ node' = 1 /\ UNCHANGED chain
    BY <1>5 DEF GetBlockNumber, Loop, Answered
  <2>2. seen[node] \in Nat
    BY BlocksAssumption DEF SearchInv, SearchTypes, Blocks
  <2>3. 1 \in Nodes
    BY NodesAssumption DEF Nodes
  <2>4. SearchTypes'
    BY <2>1, <2>2, <2>3 DEF SearchInv, SearchTypes, chain
  <2>5. HasCode(currentBlockNumber)' => Brackets'
    BY <2>1, <2>2, <2>4 DEF HasCode, Brackets, SearchTypes
  <2> QED
    BY <2>4, <2>5 DEF SearchInv
<1>6. CASE GetBytecode
  <2> DEFINE mid == (left + right) \div 2
  <2>1. node' = 1 /\ UNCHANGED <<chain, currentBlockNumber>> /\ Searching
    BY <1>6 DEF GetBytecode, Loop, Answered, Searching
  <2>2. 1 \in Nodes
    BY NodesAssumption DEF Nodes
  <2>3. mid \in Nat
    BY DEF SearchInv, SearchTypes
  <2>4. \/ HasCode(mid) /\ left' = left /\ right' = mid
        \/ ~HasCode(mid) /\ left' = mid + 1 /\ right' = right
    BY <1>6 DEF GetBytecode, Loop
  <2> HIDE DEF mid
  <2>5. SearchTypes'
    BY <2>1, <2>2, <2>3, <2>4 DEF SearchInv, SearchTypes, chain
  <2>6. ASSUME ~reorganised, HasCode(currentBlockNumber)
        PROVE  Brackets'
    <3>1. Brackets
      BY <2>1, <2>6 DEF SearchInv
    <3>2. mid <= right
      BY <3>1, Halves DEF Brackets, SearchInv, SearchTypes, mid
    <3>3. CASE HasCode(mid) /\ left' = left /\ right' = mid
      BY <2>1, <2>3, <3>1, <3>2, <3>3 DEF Brackets, HasCode, SearchInv, SearchTypes, chain
    <3>4. CASE ~HasCode(mid) /\ left' = mid + 1 /\ right' = right
      <4>1. mid < created
        BY <2>3, <2>6, <3>1, <3>2, <3>4 DEF Brackets, HasCode, SearchInv, SearchTypes
      <4> QED
        BY <2>1, <2>3, <3>1, <3>4, <4>1 DEF Brackets, SearchInv, SearchTypes, chain
    <3> QED
      BY <2>4, <3>3, <3>4
  <2> QED
    BY <2>1, <2>5, <2>6 DEF SearchInv, HasCode, chain
<1>7. CASE GetBlock
  BY <1>7, AnsweredKeeps DEF GetBlock
<1>8. CASE NextCandidate
  BY <1>8, AnsweredKeeps DEF NextCandidate
<1>9. CASE CheckCandidate
  BY <1>9, AnsweredKeeps DEF CheckCandidate
<1>10. CASE GetTx \/ GetTxBlock
  BY <1>10, AnsweredKeeps DEF GetTx, GetTxBlock, Found
<1>11. CASE GetTxReceipt
  BY <1>11, AnsweredKeeps DEF GetTxReceipt
<1>12. CASE ReadReceipt
  BY <1>12, AnsweredKeeps DEF ReadReceipt
<1>13. CASE GetTraces \/ TracesLackOurs
  BY <1>13, AnsweredKeeps, NextNodeKeeps DEF GetTraces, TracesLackOurs, Calls
<1>14. ASSUME NEW n \in Nodes, ReceiveBlock(n)
       PROVE  SearchInv'
  <2>1. UNCHANGED <<created, destroyed, reorganised, pc, node, bounds>>
    BY <1>14 DEF ReceiveBlock
  <2>2. seen' \in [Nodes -> Blocks]
    <3>1. seen[n] + 1 \in Blocks
      BY <1>14, BlocksAssumption DEF ReceiveBlock, SearchInv, SearchTypes, Blocks
    <3> QED
      BY <1>14, <3>1 DEF ReceiveBlock, SearchInv, SearchTypes
  <2> QED
    BY <2>1, <2>2 DEF SearchInv, SearchTypes, Brackets, Searching, HasCode, bounds
<1>15. CASE Reorganise
  <2>1. /\ UNCHANGED <<destroyed, seen, node, bounds>>
        /\ reorganised' = TRUE /\ created' \in Nat
    BY <1>15 DEF Reorganise, Blocks
  <2> QED
    BY <2>1 DEF SearchInv, SearchTypes, bounds
<1>16. CASE UNCHANGED vars
  BY <1>16 DEF vars, chain, bounds, SearchInv, SearchTypes, Brackets, Searching, HasCode
<1> QED
  BY <1>1, <1>2, <1>3, <1>4, <1>5, <1>6, <1>7, <1>8, <1>9, <1>10, <1>11, <1>12, <1>13,
     <1>14, <1>15, <1>16 DEF Next, Step

(***************************************************************************)
(* The binary search keeps the block of the creation between its ends,     *)
(* whichever nodes answer and whatever they lack                           *)
(* (contract-creation-util.ts:306-322).                                    *)
(***************************************************************************)
THEOREM SearchBrackets == Spec => []SearchBracketsCreation
<1>1. SearchInv => SearchBracketsCreation
  BY DEF SearchInv, SearchBracketsCreation, Searching, Brackets
<1> QED
  BY <1>1, SearchInvInit, SearchInvStep, PTL DEF Spec

-----------------------------------------------------------------------------
(***************************************************************************)
(* The invariant of the whole lookup.  While the contract is sought for    *)
(* and could be found, a call is only given up at a node that comes after  *)
(* all the others, each of which did not answer; so the search goes on, and *)
(* the transaction is among those still to be looked at.                   *)
(***************************************************************************)
Sought ==
  /\ creator = None
  /\ direct /\ ~reorganised /\ HasCode(currentBlockNumber)
  /\ silent # Nodes /\ ~cutShort

OursIsLeft == \E i \in 1..Len(txs) : txs[i] = "ours"

AtCandidates == pc \in {"candidates", "getTxReceipt", "getBlockByHash"}

CallShape ==
  /\ pc = "getBytecode" => left < right
  /\ pc = "getBlock" => right <= left
  /\ pc \in {"getTxReceipt", "getBlockByHash"} /\ creator = None => txs # <<>>
  /\ pc \in {"getTx", "getTxBlock", "traceTransaction"} => creator # None
  /\ pc \in {"api", "page", "getEpochNumber"} => currentBlockNumber = 0
  /\ pc \in Calls => 1..node - 1 \subseteq silent
  /\ pc \notin Calls => node = 1

LookupInv ==
  /\ TypeOK
  /\ SearchInv
  /\ CallShape
  /\ Sought => pc # "done" /\ (AtCandidates => OursIsLeft)

LEMMA LookupInvInit == Init => LookupInv
<1> SUFFICES ASSUME Init PROVE LookupInv
  OBVIOUS
<1>1. TypeOK
  <2>1. 0 \in Blocks /\ 1 \in Nodes
    BY NodesAssumption, BlocksAssumption DEF Nodes, Blocks
  <2>2. <<>> \in Seq({"ours", "other"})
    OBVIOUS
  <2>3. destroyed \in 1..Never /\ created \in Blocks \ {0} /\ created < destroyed
    BY DEF Init, Blocks
  <2> QED
    BY <2>1, <2>2, <2>3 DEF Init, TypeOK
<1>2. CallShape
  BY DEF Init, CallShape, Calls
<1> QED
  BY <1>1, <1>2, SearchInvInit DEF Init, LookupInv, Sought, AtCandidates

\* A node that does not answer: the next one is asked, or all have been.
LEMMA Silence ==
  ASSUME LookupInv, pc \in Calls, silent' = silent \cup {node}
  PROVE  /\ node < NumNodes => 1..node \subseteq silent'
         /\ ~(node < NumNodes) => silent' = Nodes
         /\ silent' \subseteq Nodes
<1>1. /\ node \in 1..NumNodes /\ NumNodes \in Nat
      /\ 1..node - 1 \subseteq silent /\ silent \subseteq 1..NumNodes
  BY NodesAssumption DEF LookupInv, TypeOK, CallShape, Nodes
<1>2. \A k \in 1..node : k \in silent \/ k = node
  BY <1>1
<1>3. node < NumNodes => 1..node \subseteq silent'
  BY <1>1, <1>2
<1>4. silent' \subseteq 1..NumNodes
  BY <1>1
<1>5. ~(node < NumNodes) => 1..NumNodes \subseteq silent'
  BY <1>1, <1>2
<1> QED
  BY <1>3, <1>4, <1>5 DEF Nodes

\* A call that throws ends at a state of the right shape.
LEMMA ThrowKeeps ==
  ASSUME LookupInv, pc \in Calls, CallThrows, UNCHANGED chain, SearchInv',
         silent' \subseteq Nodes, cutShort' \in BOOLEAN,
         silent' = Nodes \/ cutShort'
  PROVE  LookupInv'
<1>1. /\ node' = 1 /\ pc' \in {"candidates", "done"}
      /\ UNCHANGED <<created, destroyed, direct, reorganised, seen,
                     currentBlockNumber, left, right, creator>>
  BY DEF CallThrows, chain, bounds, found
<1>2. txs' \in Seq({"ours", "other"})
  <2>1. txs \in Seq({"ours", "other"})
    BY DEF LookupInv, TypeOK
  <2>2. CASE UNCHANGED txs
    BY <2>1, <2>2
  <2>3. CASE creator = None /\ pc \in {"getTxReceipt", "getBlockByHash"} /\ txs' = Tail(txs)
    <3>1. txs # <<>>
      BY <2>3 DEF LookupInv, CallShape
    <3> QED
      BY <2>1, <2>3, <3>1
  <2> QED
    BY <2>2, <2>3 DEF CallThrows
<1>3. 1 \in Nodes
  BY NodesAssumption DEF Nodes
<1>4. TypeOK'
  BY <1>1, <1>2, <1>3 DEF LookupInv, TypeOK
<1>5. CallShape'
  BY <1>1 DEF CallShape, Calls
<1>6. ~Sought'
  BY DEF Sought
<1> QED
  BY <1>4, <1>5, <1>6 DEF LookupInv

\* So does one that goes on with the next node.
LEMMA NextNodeIsFine ==
  ASSUME LookupInv, pc \in Calls, NextNode, UNCHANGED <<chain, cutShort>>, SearchInv',
         silent' = silent \cup {node}
  PROVE  LookupInv'
<1>1. cutShort' \in BOOLEAN
  BY DEF LookupInv, TypeOK
<1>2. CASE ~(node < NumNodes)
  <2>1. CallThrows
    BY <1>2 DEF NextNode
  <2> QED
    BY <1>1, <1>2, <2>1, Silence, ThrowKeeps
<1>3. CASE node < NumNodes
  <2>1. /\ node' = node + 1
        /\ UNCHANGED <<created, destroyed, direct, reorganised, seen, pc, txs,
                       currentBlockNumber, left, right, creator>>
    BY <1>3 DEF NextNode, chain, bounds, found
  <2>2. node' \in Nodes
    BY <1>3, <2>1, NodesAssumption DEF LookupInv, TypeOK, Nodes
  <2>3. silent' \subseteq Nodes /\ 1..node' - 1 \subseteq silent'
    <3>1. 1..node \subseteq silent' /\ silent' \subseteq Nodes
      BY <1>3, Silence
    <3>2. node' - 1 = node
      BY <2>1 DEF LookupInv, TypeOK, Nodes
    <3> QED
      BY <3>1, <3>2
  <2>4. TypeOK'
    BY <1>1, <2>1, <2>2, <2>3 DEF LookupInv, TypeOK
  <2>5. CallShape'
    BY <2>1, <2>3 DEF LookupInv, CallShape
  <2>6. Sought' => Sought
    <3>1. HasCode(currentBlockNumber)' = HasCode(currentBlockNumber)
      BY <2>1 DEF HasCode
    <3>2. silent' # Nodes => silent # Nodes
      BY <2>3
    <3> QED
      BY <2>1, <3>1, <3>2 DEF Sought
  <2> QED
    BY <2>1, <2>4, <2>5, <2>6 DEF LookupInv, AtCandidates, OursIsLeft
<1> QED
  BY <1>2, <1>3

\* An answer: the next call starts at the first node.
LEMMA AnswerKeeps ==
  ASSUME LookupInv, NEW label \in Calls \cup {"api", "page", "candidates", "done"},
         Answered(label), SearchInv',
         label = "getBytecode" => left' < right',
         label = "getBlock" => right' <= left',
         currentBlockNumber' \in Blocks, left' \in Blocks, right' \in Blocks,
         txs' \in Seq({"ours", "other"}), creator' \in {"ours", None},
         label \in {"getTxReceipt", "getBlockByHash"} /\ creator' = None => txs' # <<>>,
         label \in {"getTx", "getTxBlock", "traceTransaction"} => creator' # None,
         label \in {"api", "page", "getEpochNumber"} => currentBlockNumber' = 0,
         Sought' => label # "done" /\ (label \in {"candidates", "getTxReceipt", "getBlockByHash"}
                                         => OursIsLeft')
  PROVE  LookupInv'
<1>1. /\ pc' = label /\ node' = 1
      /\ UNCHANGED <<created, destroyed, direct, reorganised, seen, silent, cutShort>>
  BY DEF Answered, chain
<1>2. 1 \in Nodes
  BY NodesAssumption DEF Nodes
<1>3. TypeOK'
  BY <1>1, <1>2 DEF LookupInv, TypeOK
<1>4. CallShape'
  BY <1>1 DEF CallShape
<1> QED
  BY <1>1, <1>3, <1>4 DEF LookupInv, AtCandidates

\* An answer that changes nothing but the call.
LEMMA PlainAnswerKeeps ==
  ASSUME LookupInv, NEW label \in Calls \cup {"api", "page", "candidates", "done"},
         Answered(label), SearchInv', UNCHANGED <<bounds, txs, creator>>,
         label \notin {"getBytecode", "getBlock", "api", "page", "getEpochNumber"},
         label \in {"getTxReceipt", "getBlockByHash"} /\ creator = None => txs # <<>>,
         label \in {"getTx", "getTxBlock", "traceTransaction"} => creator # None,
         creator # None \/ AtCandidates,
         label = "done" => creator # None \/ txs = <<>>
  PROVE  LookupInv'
<1>1. /\ UNCHANGED <<created, destroyed, direct, reorganised, silent, cutShort>>
      /\ UNCHANGED <<currentBlockNumber, left, right, txs, creator>>
  BY DEF Answered, chain, bounds
<1>2. Sought' <=> Sought
  BY <1>1 DEF Sought, HasCode
<1>3. OursIsLeft' <=> OursIsLeft
  BY <1>1 DEF OursIsLeft
<1>4. ASSUME Sought
      PROVE  /\ label # "done"
             /\ label \in {"candidates", "getTxReceipt", "getBlockByHash"} => OursIsLeft
  <2>1. creator = None /\ OursIsLeft
    BY <1>4 DEF LookupInv, Sought
  <2>2. txs # <<>>
    BY <2>1 DEF OursIsLeft
  <2> QED
    BY <2>1, <2>2
<1>5. /\ currentBlockNumber' \in Blocks /\ left' \in Blocks /\ right' \in Blocks
      /\ txs' \in Seq({"ours", "other"}) /\ creator' \in {"ours", None}
  BY <1>1 DEF LookupInv, TypeOK
<1> QED
  BY <1>1, <1>2, <1>3, <1>4, <1>5, AnswerKeeps

LEMMA LookupInvStep == LookupInv /\ [Next]_vars => LookupInv'
<1> SUFFICES ASSUME LookupInv, [Next]_vars
             PROVE  LookupInv'
  OBVIOUS
<1>a. SearchInv'
  BY SearchInvStep DEF LookupInv
<1>t. /\ currentBlockNumber \in Blocks /\ left \in Blocks /\ right \in Blocks
      /\ txs \in Seq({"ours", "other"}) /\ creator \in {"ours", None}
      /\ node \in Nodes /\ seen \in [Nodes -> Blocks] /\ silent \subseteq Nodes
      /\ cutShort \in BOOLEAN
  BY DEF LookupInv, TypeOK
<1>1. CASE NodeFails
  <2>1. pc \in Calls /\ silent' = silent \cup {node} /\ UNCHANGED chain
    BY <1>1 DEF NodeFails
  <2>2. CASE CallThrows /\ cutShort' = TRUE
    BY <1>a, <1>t, <2>1, <2>2, ThrowKeeps
  <2>3. CASE NextNode /\ UNCHANGED cutShort
    BY <1>a, <2>1, <2>3, NextNodeIsFine
  <2> QED
    BY <1>1, <2>2, <2>3 DEF NodeFails
<1>2. CASE NodeLacksBlock
  BY <1>2, <1>a, NextNodeIsFine DEF NodeLacksBlock
<1>3. CASE NodeWithoutTraces
  <2>1. pc \in Calls /\ silent' = silent \cup {node} /\ UNCHANGED <<chain, cutShort>>
    BY <1>3 DEF NodeWithoutTraces, Calls
  <2>2. CASE NextNode
    BY <1>a, <2>1, <2>2, NextNodeIsFine
  <2>3. CASE CallThrows
    <3>1. /\ node' = 1 /\ pc' = "done" /\ creator # None
          /\ UNCHANGED <<created, destroyed, direct, reorganised, seen, txs,
                         currentBlockNumber, left, right, creator>>
      BY <1>3, <2>1, <2>3 DEF NodeWithoutTraces, CallThrows, LookupInv, CallShape, chain, bounds, found
    <3>2. silent' \subseteq Nodes /\ 1 \in Nodes
      BY <1>t, <2>1, NodesAssumption DEF Nodes
    <3>3. TypeOK'
      BY <2>1, <3>1, <3>2 DEF LookupInv, TypeOK
    <3>4. CallShape'
      BY <3>1 DEF CallShape, Calls
    <3> QED
      BY <1>a, <3>1, <3>3, <3>4 DEF LookupInv, Sought
  <2> QED
    BY <1>3, <2>2, <2>3 DEF NodeWithoutTraces
<1>4. CASE AskApi \/ AskPage
  <2>1. /\ pc \in {"api", "page"} /\ currentBlockNumber = 0
        /\ UNCHANGED <<currentBlockNumber, left, right, txs>>
    BY <1>4 DEF AskApi, AskPage, KnownOr, LookupInv, CallShape, bounds
  <2>2. CASE creator' = "ours" /\ Answered("getTx")
    BY <1>a, <1>t, <2>1, <2>2, AnswerKeeps, NoneAssumption DEF Calls, Sought
  <2>3. ASSUME UNCHANGED creator, NEW label \in {"page", "getEpochNumber"}, Answered(label)
        PROVE  LookupInv'
    <3>1. label \in Calls \cup {"api", "page", "candidates", "done"}
      BY <2>3 DEF Calls
    <3> QED
      BY <1>a, <1>t, <2>1, <2>3, <3>1, AnswerKeeps
  <2> QED
    BY <1>4, <2>2, <2>3 DEF AskApi, AskPage, KnownOr
<1>5. CASE GetBlockNumber
  <2> DEFINE label == IF left' < right' THEN "getBytecode" ELSE "getBlock"
  <2>1. /\ left' = 0 /\ right' = seen[node] /\ currentBlockNumber' = seen[node]
        /\ UNCHANGED <<txs, creator>> /\ Answered(label)
    BY <1>5 DEF GetBlockNumber, Loop, found
  <2>2. 0 \in Blocks /\ seen[node] \in Blocks /\ label \in Calls
    BY <1>t, BlocksAssumption DEF Blocks, Calls
  <2>3. left' <= right'
    BY <2>1, <2>2 DEF Blocks
  <2>4. label # "getBytecode" => right' <= left'
    BY <2>1, <2>2, <2>3 DEF Blocks
  <2>5. label \in {"getBytecode", "getBlock"}
    OBVIOUS
  <2>6. label = "getBytecode" => left' < right'
    OBVIOUS
  <2> HIDE DEF label
  <2> QED
    BY <1>a, <1>t, <2>1, <2>2, <2>4, <2>5, <2>6, AnswerKeeps
<1>6. CASE GetBytecode
  <2> DEFINE label == IF left' < right' THEN "getBytecode" ELSE "getBlock"
             mid == (left + right) \div 2
  <2>1. /\ UNCHANGED <<currentBlockNumber, txs, creator>> /\ Answered(label)
        /\ \/ left' = left /\ right' = mid
           \/ left' = mid + 1 /\ right' = right
    BY <1>6 DEF GetBytecode, Loop, found
  <2>2. left \in Nat /\ right \in Nat /\ left < right /\ right <= MaxBlock
    BY <1>6, <1>t, BlocksAssumption DEF GetBytecode, LookupInv, CallShape, Blocks
  <2>3. mid \in Nat /\ left <= mid /\ mid < right
    BY <2>2
  <2>4. left' \in Blocks /\ right' \in Blocks /\ left' <= right'
    <3> HIDE DEF mid
    <3> QED
      BY <2>1, <2>2, <2>3, BlocksAssumption DEF Blocks
  <2>5. label # "getBytecode" => right' <= left'
    BY <2>4 DEF Blocks
  <2>6. label \in {"getBytecode", "getBlock"} /\ label \in Calls
    BY DEF Calls
  <2>7. label = "getBytecode" => left' < right'
    OBVIOUS
  <2> HIDE DEF label, mid
  <2> QED
    BY <1>a, <1>t, <2>1, <2>4, <2>5, <2>6, <2>7, AnswerKeeps
<1>7. CASE GetBlock
  <2>1. /\ pc = "getBlock" /\ right <= left /\ UNCHANGED <<currentBlockNumber, left, right, creator>>
        /\ Answered("candidates") /\ txs' \in TransactionsOf(left)
    BY <1>7 DEF GetBlock, LookupInv, CallShape, bounds, found
  <2>2. txs' \in Seq({"ours", "other"})
    <3>1. <<"ours", "other">> \in Seq({"ours", "other"})
      OBVIOUS
    <3>2. <<"other", "ours">> \in Seq({"ours", "other"})
      OBVIOUS
    <3>3. <<"other">> \in Seq({"ours", "other"})
      OBVIOUS
    <3> QED
      BY <2>1, <3>1, <3>2, <3>3 DEF TransactionsOf
  <2>3. ASSUME Sought'
        PROVE  OursIsLeft'
    <3>1. direct /\ ~reorganised /\ HasCode(currentBlockNumber)
      BY <2>1, <2>3 DEF Sought, HasCode, Answered, chain
    <3>2. left = created
      BY <2>1, <3>1 DEF LookupInv, SearchInv, SearchTypes, Searching, Brackets
    <3>3. txs' = <<"ours", "other">> \/ txs' = <<"other", "ours">>
      BY <2>1, <3>1, <3>2 DEF TransactionsOf
    <3> QED
      BY <3>3 DEF OursIsLeft
  <2> QED
    BY <1>a, <1>t, <2>1, <2>2, <2>3, AnswerKeeps
<1>8. CASE NextCandidate
  BY <1>8, <1>a, PlainAnswerKeeps DEF NextCandidate, AtCandidates, Calls, found
<1>9. CASE CheckCandidate
  <2>1. /\ pc = "getBlockByHash" /\ creator = None /\ txs # <<>>
        /\ UNCHANGED <<currentBlockNumber, left, right>>
    BY <1>9 DEF CheckCandidate, LookupInv, CallShape, bounds
  <2>2. CASE creator' = "ours" /\ Answered("getTx") /\ UNCHANGED txs
    BY <1>a, <1>t, <2>1, <2>2, AnswerKeeps, NoneAssumption DEF Calls, Sought
  <2>3. CASE Head(txs) # "ours" /\ txs' = Tail(txs) /\ Answered("candidates") /\ UNCHANGED creator
    <3>1. txs' \in Seq({"ours", "other"})
      BY <1>t, <2>1, <2>3
    <3>2. ASSUME Sought' PROVE OursIsLeft'
      <4>1. Sought
        BY <2>1, <2>3, <3>2 DEF Sought, HasCode, Answered, chain
      <4>2. PICK i \in 1..Len(txs) : txs[i] = "ours"
        BY <2>1, <4>1 DEF LookupInv, AtCandidates, OursIsLeft
      <4>3. i # 1
        BY <1>t, <2>1, <2>3, <4>2
      <4>4. i - 1 \in 1..Len(txs') /\ txs'[i - 1] = "ours"
        BY <1>t, <2>1, <2>3, <4>2, <4>3
      <4> QED
        BY <4>4 DEF OursIsLeft
    <3> QED
      BY <1>a, <1>t, <2>1, <2>3, <3>1, <3>2, AnswerKeeps
  <2> QED
    BY <1>9, <2>2, <2>3 DEF CheckCandidate
<1>10. CASE GetTx \/ GetTxBlock
  BY <1>10, <1>a, PlainAnswerKeeps DEF GetTx, GetTxBlock, Found, found, Calls
<1>11. CASE GetTxReceipt
  BY <1>11, <1>a, PlainAnswerKeeps DEF GetTxReceipt, found, Calls, AtCandidates, LookupInv, CallShape
<1>12. CASE ReadReceipt
  BY <1>12, <1>a, PlainAnswerKeeps DEF ReadReceipt, Calls
<1>13. CASE GetTraces \/ TracesLackOurs
  BY <1>13, <1>a, PlainAnswerKeeps, NextNodeIsFine
     DEF GetTraces, TracesLackOurs, Calls, LookupInv, CallShape
<1>14. ASSUME NEW n \in Nodes, ReceiveBlock(n)
       PROVE  LookupInv'
  <2>1. UNCHANGED <<created, destroyed, direct, reorganised, pc, node, currentBlockNumber,
                    left, right, txs, creator, silent, cutShort>>
    BY <1>14 DEF ReceiveBlock, bounds, found
  <2>2. seen' \in [Nodes -> Blocks]
    <3>1. seen[n] + 1 \in Blocks
      BY <1>14, <1>t, BlocksAssumption DEF ReceiveBlock, Blocks
    <3> QED
      BY <1>14, <1>t, <3>1 DEF ReceiveBlock
  <2>3. TypeOK' /\ CallShape'
    BY <2>1, <2>2 DEF LookupInv, TypeOK, CallShape
  <2> QED
    BY <1>a, <2>1, <2>3 DEF LookupInv, Sought, HasCode, AtCandidates, OursIsLeft
<1>15. CASE Reorganise
  <2>1. /\ UNCHANGED <<destroyed, direct, seen, pc, node, currentBlockNumber,
                       left, right, txs, creator, silent, cutShort>>
        /\ reorganised' = TRUE /\ created' \in Blocks \ {0} /\ created' < destroyed
    BY <1>15 DEF Reorganise, bounds, found
  <2>2. TypeOK' /\ CallShape'
    BY <2>1 DEF LookupInv, TypeOK, CallShape
  <2> QED
    BY <1>a, <2>1, <2>2 DEF LookupInv, Sought
<1>16. CASE UNCHANGED vars
  <2>1. UNCHANGED <<created, destroyed, direct, reorganised, seen, pc, node, currentBlockNumber,
                    left, right, txs, creator, silent, cutShort>>
    BY <1>16 DEF vars, chain, bounds, found
  <2>2. TypeOK' /\ CallShape'
    BY <2>1 DEF LookupInv, TypeOK, CallShape
  <2> QED
    BY <1>a, <2>1, <2>2 DEF LookupInv, Sought, HasCode, AtCandidates, OursIsLeft
<1> QED
  BY <1>1, <1>2, <1>3, <1>4, <1>5, <1>6, <1>7, <1>8, <1>9, <1>10, <1>11, <1>12, <1>13,
     <1>14, <1>15, <1>16 DEF Next, Step

\* The inductive invariant of the lookup.
THEOREM LookupInvariance == Spec => []LookupInv
<1> QED
  BY LookupInvInit, LookupInvStep, PTL DEF Spec

\* Type correctness of the lookup.
THEOREM LookupTypeCorrect == Spec => []TypeOK
<1>1. LookupInv => TypeOK
  BY DEF LookupInv
<1> QED
  BY <1>1, LookupInvariance, PTL

(***************************************************************************)
(* The search is complete: for any number of nodes and blocks, whatever    *)
(* the nodes fail at or lack, a contract that its transaction created      *)
(* directly is found, if one node answers every call it is asked and no    *)
(* transaction was passed over because the first node failed to give its   *)
(* receipt (Chain.ts:181).                                                 *)
(***************************************************************************)
THEOREM SearchIsComplete == Spec => []SearchFinds
<1>1. LookupInv => SearchFinds
  BY DEF LookupInv, SearchFinds, Sought
<1> QED
  BY <1>1, LookupInvariance, PTL

-----------------------------------------------------------------------------
(* The code of a nested creation: what the loop over the steps of a trace  *)
(* has on its stack, for traces of any length                              *)

\* A set of numbers with 0, and with each number the next, has them all.
LEMMA SetInduction ==
  ASSUME NEW T, 0 \in T, \A n \in Nat : n \in T => n + 1 \in T
  PROVE  Nat \subseteq T
<1> DEFINE R == OpToRel(<, Nat)  M == Nat \ T
<1>1. IsWellFoundedOn(R, Nat)
  BY NatLessThanWellFounded, Zenon
<1>2. \A x, y \in Nat : x < y => <<x, y>> \in R
  BY DEF OpToRel
<1> HIDE DEF R
<1> SUFFICES ASSUME M # {} PROVE FALSE
  OBVIOUS
<1>3. PICK x \in M : \A y \in M : ~ (<<y, x>> \in R)
  BY <1>1, WFMin
<1>4. x # 0 /\ x \in Nat
  OBVIOUS
<1>5. x - 1 \in Nat /\ x - 1 \in M
  BY <1>3, <1>4
<1>6. <<x - 1, x>> \in R
  BY <1>2, <1>4, <1>5
<1> QED
  BY <1>3, <1>5, <1>6

NoCreation == [open |-> <<>>, code |-> None]

\* f holds the states of the loop up to step n.
Reads(f, steps, n) ==
  f = [m \in 0..n |-> IF m = 0 THEN NoCreation ELSE ReadTrace(f[m - 1], steps[m])]

LEMMA LoopRuns ==
  ASSUME NEW steps PROVE \A n \in Nat : \E f : Reads(f, steps, n)
<1> DEFINE T == {n \in Nat : \E f : Reads(f, steps, n)}
<1>1. 0 \in T
  <2> DEFINE f == [m \in 0..0 |-> NoCreation]
  <2>1. Reads(f, steps, 0)
    BY DEF Reads
  <2> QED
    BY <2>1
<1>2. ASSUME NEW n \in Nat, n \in T PROVE n + 1 \in T
  <2>1. PICK f : Reads(f, steps, n)
    BY <1>2
  <2> DEFINE g == [m \in 0..(n + 1) |->
                     IF m = n + 1 THEN ReadTrace(f[n], steps[n + 1]) ELSE f[m]]
  <2>2. ASSUME NEW m \in 0..(n + 1)
        PROVE  g[m] = IF m = 0 THEN NoCreation ELSE ReadTrace(g[m - 1], steps[m])
    <3>1. CASE m = n + 1
      BY <3>1
    <3>2. CASE m # n + 1
      <4>1. m \in 0..n /\ (m # 0 => m - 1 \in 0..n)
        BY <3>2
      <4>2. f[m] = IF m = 0 THEN NoCreation ELSE ReadTrace(f[m - 1], steps[m])
        BY <2>1, <4>1 DEF Reads
      <4>3. g[m] = f[m] /\ (m # 0 => g[m - 1] = f[m - 1])
        BY <4>1
      <4> HIDE DEF g
      <4> QED
        BY <4>2, <4>3
    <3> QED
      BY <3>1, <3>2
  <2>3. g = [m \in 0..(n + 1) |-> g[m]]
    OBVIOUS
  <2> HIDE DEF g
  <2>4. Reads(g, steps, n + 1)
    BY <2>2, <2>3 DEF Reads
  <2> QED
    BY <2>4
<1> HIDE DEF T
<1>3. Nat \subseteq T
  BY <1>1, <1>2, SetInduction
<1> QED
  BY <1>3 DEF T

LEMMA StatesAreReads ==
  ASSUME NEW steps, Len(steps) \in Nat
  PROVE  Reads(TraceStates(steps), steps, Len(steps))
<1>1. \E f : Reads(f, steps, Len(steps))
  BY LoopRuns
<1>2. TraceStates(steps) = CHOOSE f : Reads(f, steps, Len(steps))
  BY DEF TraceStates, Reads, NoCreation
<1> QED
  BY <1>1, <1>2

\* The creations that have begun by step n and not ended yet.
Open(steps, begin, n) ==
  {b \in Begins(steps) : b <= n /\ \A e \in Ends(steps) : e <= n => begin[e] # b}

\* The stack holds the codes of the open creations, the last begun on top.
IsStack(open, steps, begin, n) ==
  /\ Len(open) \in Nat /\ open \in Seq({steps[b].init : b \in Begins(steps)})
  /\ \E at \in [1..Len(open) -> Open(steps, begin, n)] :
       /\ \A k \in 1..Len(open) : open[k] = steps[at[k]].init
       /\ \A k, l \in 1..Len(open) : k < l => at[k] < at[l]
       /\ \A b \in Open(steps, begin, n) : \E k \in 1..Len(open) : at[k] = b

IsSteps(steps, begin) ==
  /\ Len(steps) \in Nat /\ DOMAIN steps = 1..Len(steps)
  /\ DOMAIN steps = Begins(steps) \cup Ends(steps)
  /\ begin \in [Ends(steps) -> Begins(steps)]
  /\ IsNested(steps, begin)

LEMMA BeginsOrEnds ==
  ASSUME NEW steps PROVE Begins(steps) \cap Ends(steps) = {}
BY DEF Begins, Ends

\* A creation begins: it is pushed.
LEMMA Pushed ==
  ASSUME NEW steps, NEW begin, IsSteps(steps, begin), NEW n \in Nat,
         n + 1 \in Begins(steps), NEW open, IsStack(open, steps, begin, n)
  PROVE  IsStack(Append(open, steps[n + 1].init), steps, begin, n + 1)
<1> DEFINE longer == Append(open, steps[n + 1].init)
           codes == {steps[b].init : b \in Begins(steps)}
<1>1. PICK at \in [1..Len(open) -> Open(steps, begin, n)] :
        /\ \A k \in 1..Len(open) : open[k] = steps[at[k]].init
        /\ \A k, l \in 1..Len(open) : k < l => at[k] < at[l]
        /\ \A b \in Open(steps, begin, n) : \E k \in 1..Len(open) : at[k] = b
  BY DEF IsStack
<1>2. /\ Len(open) \in Nat /\ open \in Seq(codes)
      /\ steps[n + 1].init \in codes
  BY DEF IsStack
<1>3. /\ longer \in Seq(codes) /\ Len(longer) = Len(open) + 1
      /\ \A k \in 1..Len(open) : longer[k] = open[k]
      /\ longer[Len(open) + 1] = steps[n + 1].init
  <2> HIDE DEF codes
  <2> QED
    BY <1>2
<1>4. Begins(steps) \subseteq Nat /\ Ends(steps) \subseteq Nat
  BY DEF IsSteps, Begins, Ends
<1>5. Open(steps, begin, n + 1) = Open(steps, begin, n) \cup {n + 1}
  <2>1. \A e \in Ends(steps) : begin[e] < e /\ begin[e] \in Nat
    BY <1>4 DEF IsSteps, IsNested
  <2>2. n + 1 \notin Ends(steps)
    BY BeginsOrEnds
  <2>3. \A e \in Ends(steps) : e <= n + 1 <=> e <= n
    BY <1>4, <2>2
  <2>4. \A b \in Begins(steps) : b <= n + 1 <=> (b <= n \/ b = n + 1)
    BY <1>4
  <2>5. \A e \in Ends(steps) : e <= n => begin[e] # n + 1
    BY <1>4, <2>1
  <2> QED
    BY <2>3, <2>4, <2>5 DEF Open
<1> DEFINE at2 == [k \in 1..(Len(open) + 1) |-> IF k = Len(open) + 1 THEN n + 1 ELSE at[k]]
<1> HIDE DEF longer, codes
<1>6. at2 \in [1..Len(longer) -> Open(steps, begin, n + 1)]
  BY <1>2, <1>3, <1>5
<1>7. \A k \in 1..Len(longer) : longer[k] = steps[at2[k]].init
  BY <1>1, <1>2, <1>3
<1>8. \A k, l \in 1..Len(longer) : k < l => at2[k] < at2[l]
  <2>1. \A k \in 1..Len(open) : at[k] \in Nat /\ at[k] <= n
    BY <1>4 DEF Open
  <2> QED
    BY <1>1, <1>2, <1>3, <2>1
<1>9. \A b \in Open(steps, begin, n + 1) : \E k \in 1..Len(longer) : at2[k] = b
  <2> SUFFICES ASSUME NEW b \in Open(steps, begin, n + 1)
               PROVE  \E k \in 1..Len(longer) : at2[k] = b
    OBVIOUS
  <2>1. CASE b = n + 1
    BY <1>2, <1>3, <2>1
  <2>2. CASE b \in Open(steps, begin, n)
    BY <1>1, <1>2, <1>3, <2>2
  <2> QED
    BY <1>5, <2>1, <2>2
<1>10. Len(longer) \in Nat
  BY <1>2, <1>3
<1> HIDE DEF at2
<1>11. IsStack(longer, steps, begin, n + 1)
  BY <1>3, <1>6, <1>7, <1>8, <1>9, <1>10 DEF IsStack, codes
<1> QED
  BY <1>11 DEF longer

\* A creation ends: it is the one on top, and is popped.
LEMMA Popped ==
  ASSUME NEW steps, NEW begin, IsSteps(steps, begin), NEW n \in Nat,
         n + 1 \in Ends(steps), NEW open, IsStack(open, steps, begin, n)
  PROVE  /\ open # <<>>
         /\ Last(open) = steps[begin[n + 1]].init
         /\ IsStack(Front(open), steps, begin, n + 1)
<1> DEFINE b == begin[n + 1]
           codes == {steps[x].init : x \in Begins(steps)}
<1>1. PICK at \in [1..Len(open) -> Open(steps, begin, n)] :
        /\ \A k \in 1..Len(open) : open[k] = steps[at[k]].init
        /\ \A k, l \in 1..Len(open) : k < l => at[k] < at[l]
        /\ \A x \in Open(steps, begin, n) : \E k \in 1..Len(open) : at[k] = x
  BY DEF IsStack
<1>2. Len(open) \in Nat /\ open \in Seq(codes)
  BY DEF IsStack
<1>3. Begins(steps) \subseteq Nat /\ Ends(steps) \subseteq Nat
  BY DEF IsSteps, Begins, Ends
<1>4. b \in Begins(steps) /\ b < n + 1 /\ b \in Nat
  BY <1>3 DEF IsSteps, IsNested
<1>5. \A e \in Ends(steps) : begin[e] = b => e = n + 1
  BY DEF IsSteps, IsNested
<1>6. b \in Open(steps, begin, n)
  BY <1>3, <1>4, <1>5 DEF Open
<1>7. \A x \in Open(steps, begin, n) : x \in Nat /\ x <= b
  <2> SUFFICES ASSUME NEW x \in Open(steps, begin, n), b < x PROVE FALSE
    BY <1>3, <1>4 DEF Open
  <2>1. x \in Begins(steps) /\ x < n + 1
    BY <1>3 DEF Open
  <2>2. PICK d \in Ends(steps) : d < n + 1 /\ begin[d] = x
    BY <2>1 DEF IsSteps, IsNested
  <2> QED
    BY <1>3, <2>2 DEF Open
<1>8. PICK k \in 1..Len(open) : at[k] = b
  BY <1>1, <1>6
<1>9. k = Len(open) /\ Len(open) # 0
  <2>1. k \in Nat /\ k >= 1 /\ k <= Len(open) /\ Len(open) \in 1..Len(open)
    BY <1>2
  <2>2. at[Len(open)] \in Open(steps, begin, n)
    BY <2>1
  <2>3. at[Len(open)] <= b /\ at[Len(open)] \in Nat
    BY <1>7, <2>2
  <2>4. ~ (k < Len(open))
    BY <1>1, <1>4, <1>8, <2>1, <2>3
  <2> QED
    BY <1>2, <2>1, <2>4
<1>10. open # <<>> /\ Last(open) = steps[b].init
  BY <1>1, <1>8, <1>9 DEF Last
<1> DEFINE shorter == Front(open)
<1>11. /\ shorter \in Seq(codes) /\ Len(shorter) = Len(open) - 1
       /\ \A l \in 1..(Len(open) - 1) : shorter[l] = open[l]
  <2> HIDE DEF codes
  <2> QED
    BY <1>2, <1>9 DEF Front
<1>12. Open(steps, begin, n + 1) = Open(steps, begin, n) \ {b}
  <2>1. \A e \in Ends(steps) : e <= n + 1 <=> (e <= n \/ e = n + 1)
    BY <1>3
  <2>2. \A x \in Begins(steps) : x <= n + 1 <=> (x <= n \/ x = n + 1)
    BY <1>3
  <2>3. n + 1 \notin Begins(steps)
    BY BeginsOrEnds
  <2> QED
    BY <2>1, <2>2, <2>3 DEF Open
<1> DEFINE at2 == [l \in 1..(Len(open) - 1) |-> at[l]]
<1>13. \A l \in 1..(Len(open) - 1) : l \in 1..Len(open) /\ at[l] # b
  <2> SUFFICES ASSUME NEW l \in 1..(Len(open) - 1)
               PROVE  l \in 1..Len(open) /\ at[l] # b
    OBVIOUS
  <2>1. l \in 1..Len(open) /\ l < k
    BY <1>2, <1>9
  <2>2. at[l] < at[k]
    BY <1>1, <2>1
  <2> QED
    BY <1>4, <1>8, <2>1, <2>2
<1> HIDE DEF shorter, codes, b
<1>14. at2 \in [1..Len(shorter) -> Open(steps, begin, n + 1)]
  BY <1>11, <1>12, <1>13
<1>15. \A l \in 1..Len(shorter) : shorter[l] = steps[at2[l]].init
  BY <1>1, <1>11, <1>13
<1>16. \A l, m \in 1..Len(shorter) : l < m => at2[l] < at2[m]
  BY <1>1, <1>11, <1>13
<1>17. \A x \in Open(steps, begin, n + 1) : \E l \in 1..Len(shorter) : at2[l] = x
  <2> SUFFICES ASSUME NEW x \in Open(steps, begin, n), x # b
               PROVE  \E l \in 1..Len(shorter) : at2[l] = x
    BY <1>12
  <2>1. PICK l \in 1..Len(open) : at[l] = x
    BY <1>1
  <2>2. l \in 1..(Len(open) - 1)
    BY <1>2, <1>8, <1>9, <2>1
  <2> QED
    BY <1>11, <2>1, <2>2
<1>18. Len(shorter) \in Nat
  BY <1>2, <1>9, <1>11
<1> HIDE DEF at2
<1>19. IsStack(shorter, steps, begin, n + 1)
  BY <1>11, <1>14, <1>15, <1>16, <1>17, <1>18 DEF IsStack, codes
<1> QED
  BY <1>10, <1>19 DEF shorter, b

\* The state of the loop after n steps: it has the code of the creation that
\* made the contract, or the codes of the creations under way.
IsState(state, steps, begin, expected, n) ==
  /\ state = [open |-> state.open, code |-> state.code]
  /\ \/ state.code # None /\ state.code = expected
     \/ state.code = None /\ IsStack(state.open, steps, begin, n)

LEMMA StateStep ==
  ASSUME NEW steps, NEW begin, IsSteps(steps, begin), NEW n \in Nat, n + 1 <= Len(steps),
         NEW expected,
         \A e \in Ends(steps) : steps[e].addr = "ours" => expected = steps[begin[e]].init,
         NEW state, IsState(state, steps, begin, expected, n)
  PROVE  IsState(ReadTrace(state, steps[n + 1]), steps, begin, expected, n + 1)
<1> DEFINE step == steps[n + 1]  next == ReadTrace(state, step)
           open == state.open    code == state.code
<1>1. state = [open |-> open, code |-> code]
  BY DEF IsState
<1>2. CASE code # None
  <2>1. next = state
    BY <1>2 DEF ReadTrace
  <2> QED
    BY <1>2, <2>1 DEF IsState
<1>3. CASE code = None
  <2>1. IsStack(open, steps, begin, n)
    BY <1>3 DEF IsState
  <2>2. n + 1 \in Begins(steps) \/ n + 1 \in Ends(steps)
    <3>1. n + 1 \in 1..Len(steps)
      BY DEF IsSteps
    <3> QED
      BY <3>1 DEF IsSteps
  <2>3. CASE n + 1 \in Begins(steps)
    <3>1. next = [open |-> Append(open, step.init), code |-> None]
      BY <1>1, <1>3, <2>3 DEF ReadTrace, Begins
    <3>2. IsStack(Append(open, step.init), steps, begin, n + 1)
      BY <2>1, <2>3, Pushed
    <3> HIDE DEF step, next
    <3>3. next.open = Append(open, step.init) /\ next.code = None
      BY <3>1
    <3> QED
      BY <3>1, <3>2, <3>3 DEF IsState, next, step
  <2>4. CASE n + 1 \in Ends(steps)
    <3>1. /\ open # <<>> /\ Last(open) = steps[begin[n + 1]].init
          /\ IsStack(Front(open), steps, begin, n + 1)
      BY <2>1, <2>4, Popped
    <3>2. step.type # "create"
      BY <2>4 DEF Ends
    <3>3. next = [open |-> Front(open),
                  code |-> IF step.addr = "ours" THEN Last(open) ELSE None]
      BY <1>1, <1>3, <3>1, <3>2 DEF ReadTrace
    <3>4. step.addr = "ours" => expected = Last(open)
      BY <2>4, <3>1
    <3> HIDE DEF step, next
    <3>5. /\ next.open = Front(open)
          /\ next.code = IF step.addr = "ours" THEN Last(open) ELSE None
      BY <3>3
    <3> QED
      BY <3>1, <3>3, <3>4, <3>5 DEF IsState, next, step
  <2> QED
    BY <2>2, <2>3, <2>4
<1> QED
  BY <1>2, <1>3

LEMMA StateStart ==
  ASSUME NEW steps, NEW begin, IsSteps(steps, begin), NEW expected
  PROVE  IsState(NoCreation, steps, begin, expected, 0)
<1>1. /\ NoCreation.open = <<>> /\ NoCreation.code = None
      /\ NoCreation = [open |-> NoCreation.open, code |-> NoCreation.code]
  BY DEF NoCreation
<1>2. Open(steps, begin, 0) = {}
  BY DEF Open, IsSteps, Begins
<1>3. IsStack(<<>>, steps, begin, 0)
  <2>1. Len(<<>>) = 0 /\ <<>> \in Seq({steps[b].init : b \in Begins(steps)})
    OBVIOUS
  <2> DEFINE at == [k \in {} |-> 0]
  <2>2. at \in [1..Len(<<>>) -> Open(steps, begin, 0)]
    BY <2>1
  <2> HIDE DEF at
  <2> QED
    BY <1>2, <2>1, <2>2 DEF IsStack
<1> QED
  BY <1>1, <1>3 DEF IsState

\* The loop finds the code of the creation that made the contract or none, for
\* any number of creations, nested in any way.
LEMMA StackFindsOurs ==
  ASSUME NEW t \in Traces
  PROVE  ExtractFromParityTrace(t.steps) \in {None, t.expected}
<1> DEFINE steps == t.steps  f == TraceStates(steps)  expected == t.expected
<1>1. PICK begin \in [Ends(steps) -> Begins(steps)] :
        /\ IsSteps(steps, begin)
        /\ \A e \in Ends(steps) : steps[e].addr = "ours" => expected = steps[begin[e]].init
  BY TracesAssumption DEF IsSteps
<1>2. Len(steps) \in Nat
  BY <1>1 DEF IsSteps
<1>3. Reads(f, steps, Len(steps))
  BY <1>2, StatesAreReads
<1> HIDE DEF steps, f, expected
<1>4. /\ f[0] = NoCreation
      /\ \A n \in Nat : n + 1 <= Len(steps) => f[n + 1] = ReadTrace(f[n], steps[n + 1])
  BY <1>2, <1>3 DEF Reads
<1> DEFINE T == {n \in Nat : n <= Len(steps) => IsState(f[n], steps, begin, expected, n)}
<1>5. 0 \in T
  <2>1. IsState(f[0], steps, begin, expected, 0)
    BY <1>1, <1>4, StateStart
  <2> QED
    BY <2>1
<1>6. ASSUME NEW n \in Nat, n \in T PROVE n + 1 \in T
  <2> SUFFICES ASSUME n + 1 <= Len(steps)
               PROVE  IsState(f[n + 1], steps, begin, expected, n + 1)
    OBVIOUS
  <2>1. IsState(f[n], steps, begin, expected, n)
    BY <1>2, <1>6
  <2>2. IsState(ReadTrace(f[n], steps[n + 1]), steps, begin, expected, n + 1)
    BY <1>1, <2>1, StateStep
  <2> QED
    BY <1>4, <2>2
<1> HIDE DEF T
<1>7. Len(steps) \in T
  BY <1>2, <1>5, <1>6, SetInduction
<1>8. IsState(f[Len(steps)], steps, begin, expected, Len(steps))
  BY <1>2, <1>7 DEF T
<1>9. f[Len(steps)].code \in {None, expected}
  BY <1>8 DEF IsState
<1> QED
  BY <1>9 DEF ExtractFromParityTrace, f, steps, expected

\* Traces are only asked for when a factory made the contract.
CodeInv ==
  /\ pc = "traceTransaction" => ~direct
  /\ CodeIsOurs

\* A step that reads neither the receipt nor the traces.
LEMMA OtherStepsKeepCode ==
  ASSUME CodeInv, UNCHANGED <<direct, trace, creationCode>>,
         pc' = "traceTransaction" => pc = "traceTransaction"
  PROVE  CodeInv'
BY DEF CodeInv, CodeIsOurs

LEMMA CodeInvStep == CodeInv /\ [Next]_vars => CodeInv'
<1> SUFFICES ASSUME CodeInv, [Next]_vars
             PROVE  CodeInv'
  OBVIOUS
<1>1. UNCHANGED found => UNCHANGED <<trace, creationCode>>
  BY DEF found
<1>2. UNCHANGED chain => UNCHANGED direct
  BY DEF chain
<1>3. CallThrows \/ NextNode => UNCHANGED found /\ (pc' = pc \/ pc' \in {"candidates", "done"})
  BY DEF CallThrows, NextNode
<1>4. CASE NodeFails \/ NodeLacksBlock \/ NodeWithoutTraces \/ TracesLackOurs
  BY <1>1, <1>2, <1>3, <1>4, OtherStepsKeepCode
     DEF NodeFails, NodeLacksBlock, NodeWithoutTraces, TracesLackOurs
<1>5. CASE AskApi \/ AskPage \/ CheckCandidate
  BY <1>2, <1>5, OtherStepsKeepCode DEF AskApi, AskPage, KnownOr, CheckCandidate, Answered
<1>6. CASE GetBlockNumber \/ GetBytecode
  BY <1>1, <1>2, <1>6, OtherStepsKeepCode DEF GetBlockNumber, GetBytecode, Loop, Answered
<1>7. CASE GetBlock \/ NextCandidate \/ GetTx \/ GetTxBlock \/ GetTxReceipt
  BY <1>1, <1>2, <1>7, OtherStepsKeepCode
     DEF GetBlock, NextCandidate, GetTx, GetTxBlock, GetTxReceipt, Found, Answered
<1>8. CASE ReadReceipt
  <2>1. UNCHANGED <<direct, trace>>
    BY <1>2, <1>8 DEF ReadReceipt, Answered
  <2>2. CASE direct
    BY <1>8, <2>1, <2>2 DEF ReadReceipt, Answered, CodeInv, CodeIsOurs
  <2>3. CASE ~direct
    BY <1>8, <2>1, <2>3 DEF ReadReceipt, Answered, CodeInv, CodeIsOurs
  <2> QED
    BY <2>2, <2>3
<1>9. CASE GetTraces
  <2>1. /\ trace' \in Traces /\ creationCode' = ExtractFromParityTrace(trace'.steps)
        /\ ~direct /\ UNCHANGED direct /\ pc' = "done"
    BY <1>2, <1>9 DEF GetTraces, Answered, CodeInv
  <2>2. PICK t \in Traces : t = trace'
    BY <2>1
  <2>3. creationCode' \in {None, t.expected}
    <3>1. creationCode' = ExtractFromParityTrace(t.steps)
      BY <2>1, <2>2
    <3> QED
      BY <3>1, StackFindsOurs
  <2> QED
    BY <2>1, <2>2, <2>3 DEF CodeInv, CodeIsOurs
<1>10. CASE Reorganise \/ \E n \in Nodes : ReceiveBlock(n)
  BY <1>1, <1>10, OtherStepsKeepCode DEF Reorganise, ReceiveBlock
<1>11. CASE UNCHANGED vars
  BY <1>1, <1>2, <1>11, OtherStepsKeepCode DEF vars
<1> QED
  BY <1>4, <1>5, <1>6, <1>7, <1>8, <1>9, <1>10, <1>11 DEF Next, Step

(***************************************************************************)
(* The creation code is our contract's own: the transaction's when it made *)
(* the contract itself, and otherwise that of the creation whose result    *)
(* names the contract, among creations of any number, nested in any way    *)
(* (Chain.ts:300-302, Chain.ts:406-424).                                   *)
(***************************************************************************)
THEOREM CodeFromTraces == Spec => []CodeIsOurs
<1>1. Init => CodeInv
  BY DEF Init, CodeInv, CodeIsOurs
<1>2. CodeInv => CodeIsOurs
  BY DEF CodeInv
<1> QED
  BY <1>1, <1>2, CodeInvStep, PTL DEF Spec
=============================================================================
