--------------------------- MODULE CreationLookup ---------------------------
(***************************************************************************)
(* How the service finds the transaction that created a contract and the   *)
(* creation code in it (services/utils/contract-creation-util.ts), through *)
(* calls each of which goes to the nodes of the chain in their configured  *)
(* order until one answers (services/chain/Chain.ts, core space).          *)
(*                                                                         *)
(* The chain, its nodes and the block explorer are the environment: a node *)
(* may fail at any call, and may lack the newest blocks.                   *)
(***************************************************************************)
EXTENDS Integers, Sequences, SequencesExt

CONSTANTS
  NumNodes,      (* the nodes are 1..NumNodes, in the order of the list     *)
  MaxBlock,      (* bound: the blocks are 0..MaxBlock                       *)
  TraceSupport,  (* what each node says of traces: none, ours or other      *)
  Traces,        (* the traces of a transaction: [steps, expected]          *)
  None           (* no transaction, no code                                 *)

Nodes  == 1..NumNodes
Blocks == 0..MaxBlock

ASSUME NodesAssumption == NumNodes \in Nat \ {0}
ASSUME BlocksAssumption == MaxBlock \in Nat \ {0}
ASSUME NoneAssumption == None \notin {"ours", "other"}
ASSUME SupportAssumption == TraceSupport \in [Nodes -> {"none", "trace_transaction", "other"}]

\* A transaction's creations are nested: what begins within another ends within
\* it.  One of them, whose code is expected, may make the contract: none does if
\* the node has the traces of another fork or only a part of them.
Begins(steps) == {i \in DOMAIN steps : steps[i].type = "create"}
Ends(steps)   == {i \in DOMAIN steps : steps[i].type = "create_result"}

IsNested(steps, begin) ==
  /\ \A e \in Ends(steps) : begin[e] < e
  /\ \A d, e \in Ends(steps) : begin[d] = begin[e] => d = e
  /\ \A e \in Ends(steps), b \in Begins(steps) :
       begin[e] < b /\ b < e => \E d \in Ends(steps) : d < e /\ begin[d] = b

ASSUME TracesAssumption ==
  \A t \in Traces :
    /\ DOMAIN t.steps = 1..Len(t.steps) /\ Len(t.steps) \in Nat
    /\ DOMAIN t.steps = Begins(t.steps) \cup Ends(t.steps)
    /\ \E begin \in [Ends(t.steps) -> Begins(t.steps)] :
         /\ IsNested(t.steps, begin)
         /\ \A e \in Ends(t.steps) : t.steps[e].addr = "ours" =>
              t.expected = t.steps[begin[e]].init

VARIABLES
  created,       (* the block of the contract's creation                    *)
  destroyed,     (* the first block without its code; MaxBlock + 1: never   *)
  direct,        (* created by the transaction itself, not by a factory     *)
  reorganised,   (* the creation has moved to another block                 *)
  seen,          (* the last block each node has                            *)
  pc,            (* the call being made                                     *)
  node,          (* the node it is made to                                  *)
  currentBlockNumber, (* the height the binary search started from          *)
  left, right,   (* the blocks it has left                                  *)
  txs,           (* the transactions of the block not yet looked at         *)
  creator,       (* ours when the transaction has been found                *)
  trace,         (* what its traces are                                     *)
  creationCode,  (* _onchainCreationBytecode                                *)
  silent,        (* history: the nodes that did not answer some call        *)
  cutShort       (* history: a call ended at a node that failed             *)

chain  == <<created, destroyed, direct, reorganised, seen>>
bounds == <<currentBlockNumber, left, right>>
found  == <<creator, trace, creationCode>>
vars == <<chain, pc, node, bounds, txs, found, silent, cutShort>>

NoTrace == [steps |-> <<>>, expected |-> None]

Never == MaxBlock + 1

Init ==
  /\ created \in Blocks \ {0}
  /\ destroyed \in {b \in 1..Never : b > created}
  /\ direct \in BOOLEAN /\ reorganised = FALSE
  /\ seen \in [Nodes -> Blocks]
  /\ pc = "api" /\ node = 1
  /\ currentBlockNumber = 0 /\ left = 0 /\ right = 0 /\ txs = <<>>
  /\ creator = None /\ trace = NoTrace /\ creationCode = None
  /\ silent = {} /\ cutShort = FALSE

HasCode(block) == created <= block /\ block < destroyed

\* The transactions of a block with tx.to === null: each block has one that
\* creates another contract; the block of the creation has ours as well, before
\* or after it, unless a factory made the contract.
TransactionsOf(block) ==
  IF direct /\ block = created THEN {<<"ours", "other">>, <<"other", "ours">>}
  ELSE {<<"other">>}

-----------------------------------------------------------------------------
(* A call, node by node *)

\* The block a node must have to answer.
Needed ==
  CASE pc = "getBytecode" -> (left + right) \div 2
    [] pc = "getBlock" -> left
    [] pc = "getTxReceipt" /\ creator = None /\ Head(txs) = "other" -> left
    [] pc = "getEpochNumber" -> 0
    [] OTHER -> created

Calls == {"getEpochNumber", "getBytecode", "getBlock", "getTxReceipt",
          "getBlockByHash", "getTx", "getTxBlock", "traceTransaction"}

\* getTx and getTxReceipt do not catch what the call of a node throws.
NotCaught == {"getTx", "getTxReceipt"}

\* What the code does when the call throws: the search skips the transaction
\* of a receipt it cannot have and is otherwise over; so is the fetching.
CallThrows ==
  /\ node' = 1
  /\ IF creator = None /\ pc \in {"getTxReceipt", "getBlockByHash"}
     THEN pc' = "candidates" /\ txs' = Tail(txs)
     ELSE pc' = "done" /\ UNCHANGED txs
  /\ UNCHANGED <<bounds, found>>

\* Wrong variant: the node after the last is asked.
NodeAfterLast ==
  IF node <= NumNodes
  THEN /\ node' = node + 1
       /\ UNCHANGED <<pc, bounds, txs, found>>
  ELSE CallThrows

\* Wrong variant: the first node that does not answer ends the call.
OnlyOneNode == CallThrows

\* The loop over the nodes goes on, or the last one has been asked.
NextNode ==
  IF node < NumNodes
  THEN /\ node' = node + 1
       /\ UNCHANGED <<pc, bounds, txs, found>>
  ELSE CallThrows

CanAnswer ==
  /\ Needed <= seen[node]
  /\ pc = "traceTransaction" => TraceSupport[node] = "trace_transaction"

\* The call of the node ends in an error, its own or that of a timer: the code
\* races each call with one, but for the block asked by its epoch, which the SDK
\* gives up (Chain.ts:538).
NodeFails ==
  /\ pc \in Calls
  /\ pc = "traceTransaction" => TraceSupport[node] = "trace_transaction"
  /\ silent' = silent \cup {node}
  /\ IF pc \in NotCaught
     THEN CallThrows /\ cutShort' = TRUE
     ELSE NextNode /\ UNCHANGED cutShort
  /\ UNCHANGED chain

\* The node answers that it has no such block or transaction, or, of a block
\* or an epoch beyond its head, with an error that is caught.
NodeLacksBlock ==
  /\ pc \in Calls /\ Needed > seen[node]
  /\ pc = "traceTransaction" => TraceSupport[node] = "trace_transaction"
  /\ silent' = silent \cup {node}
  /\ NextNode
  /\ UNCHANGED <<chain, cutShort>>

\* A node without traces is passed over; an unknown kind of traces throws.
NodeWithoutTraces ==
  /\ pc = "traceTransaction"
  /\ \/ TraceSupport[node] = "none" /\ NextNode
     \/ TraceSupport[node] = "other" /\ CallThrows
  /\ silent' = silent \cup {node}
  /\ UNCHANGED <<chain, cutShort>>

Answered(label) == pc' = label /\ node' = 1 /\ UNCHANGED <<chain, silent, cutShort>>

-----------------------------------------------------------------------------
(* getCreatorTx *)

\* The explorer's API, then its page: either may not be configured, know the
\* transaction, not know it or fail, and none of these is an error.
KnownOr(label) ==
  /\ \/ creator' = "ours" /\ Answered("getTx")
     \/ UNCHANGED creator /\ Answered(label)
  /\ UNCHANGED <<bounds, txs, trace, creationCode>>

AskApi == pc = "api" /\ KnownOr("page")
AskPage == pc = "page" /\ KnownOr("getEpochNumber")

\* The test of the loop of findContractCreationTxByBinarySearch.
Loop(l, r) ==
  /\ left' = l /\ right' = r
  /\ Answered(IF l < r THEN "getBytecode" ELSE "getBlock")
  /\ UNCHANGED <<txs, found>>

GetBlockNumber ==
  /\ pc = "getEpochNumber" /\ CanAnswer
  /\ currentBlockNumber' = seen[node]
  /\ Loop(0, seen[node])

\* Wrong variant: the middle block stays in the upper half.
GetBytecodeOff ==
  /\ pc = "getBytecode" /\ CanAnswer
  /\ UNCHANGED currentBlockNumber
  /\ LET mid == (left + right) \div 2
     IN  IF HasCode(mid) THEN Loop(left, mid) ELSE Loop(mid, right)

\* Wrong variant: the middle block is dropped from the lower half.
GetBytecodeDrops ==
  /\ pc = "getBytecode" /\ CanAnswer
  /\ UNCHANGED currentBlockNumber
  /\ LET mid == (left + right) \div 2
     IN  IF HasCode(mid) THEN Loop(left, IF mid > left THEN mid - 1 ELSE mid)
         ELSE Loop(mid + 1, right)

GetBytecode ==
  /\ pc = "getBytecode" /\ CanAnswer
  /\ UNCHANGED currentBlockNumber
  /\ LET mid == (left + right) \div 2
     IN  IF HasCode(mid) THEN Loop(left, mid) ELSE Loop(mid + 1, right)

GetBlock ==
  /\ pc = "getBlock" /\ CanAnswer
  /\ txs' \in TransactionsOf(left)
  /\ Answered("candidates")
  /\ UNCHANGED <<bounds, found>>

NextCandidate ==
  /\ pc = "candidates"
  /\ Answered(IF txs = <<>> THEN "done" ELSE "getTxReceipt")
  /\ UNCHANGED <<bounds, txs, found>>

\* The receipt in hand names the contract the transaction created.
CheckCandidate ==
  /\ pc = "getBlockByHash" /\ creator = None /\ CanAnswer
  /\ \/ /\ Head(txs) = "ours"
        /\ creator' = "ours" /\ Answered("getTx")
        /\ UNCHANGED txs
     \/ /\ Head(txs) # "ours"
        /\ txs' = Tail(txs) /\ Answered("candidates")
        /\ UNCHANGED creator
  /\ UNCHANGED <<bounds, trace, creationCode>>

-----------------------------------------------------------------------------
(* The creation code of the transaction that was found *)

Found(label, next) ==
  /\ pc = label /\ creator # None /\ CanAnswer
  /\ Answered(next)
  /\ UNCHANGED <<bounds, txs, found>>

GetTx == Found("getTx", "getTxBlock")
GetTxBlock == Found("getTxBlock", "getTxReceipt")

\* The same call for a candidate and for the transaction that was found: the
\* receipt, then its block.
GetTxReceipt ==
  /\ pc = "getTxReceipt" /\ CanAnswer
  /\ Answered("getBlockByHash")
  /\ UNCHANGED <<bounds, txs, found>>

\* The receipt names the contract, or a factory made it.
ReadReceipt ==
  /\ pc = "getBlockByHash" /\ creator # None /\ CanAnswer
  /\ \/ /\ direct
        /\ creationCode' = "ours" /\ Answered("done")
     \/ /\ ~direct
        /\ Answered("traceTransaction") /\ UNCHANGED creationCode
  /\ UNCHANGED <<bounds, txs, creator, trace>>

\* Wrong variant: the creation that began first ends first.
ReadTraceInOrder(state, step) ==
  IF state.code # None THEN state
  ELSE IF step.type = "create"
  THEN [state EXCEPT !.open = Append(@, step.init)]
  ELSE IF state.open = <<>> THEN state
  ELSE [open |-> Tail(state.open),
        code |-> IF step.addr = "ours" THEN Head(state.open) ELSE None]

\* extractFromParityTrace: the creations that are under way are a stack.
ReadTrace(state, step) ==
  IF state.code # None THEN state
  ELSE IF step.type = "create"
  THEN [state EXCEPT !.open = Append(@, step.init)]
  ELSE IF state.open = <<>> THEN state
  ELSE [open |-> Front(state.open),
        code |-> IF step.addr = "ours" THEN Last(state.open) ELSE None]

TraceStates(steps) ==
  LET after[n \in 0..Len(steps)] ==
        IF n = 0 THEN [open |-> <<>>, code |-> None] ELSE ReadTrace(after[n - 1], steps[n])
  IN after

ExtractFromParityTrace(steps) == TraceStates(steps)[Len(steps)].code

\* The loop of getCreationBytecodeForFactory goes on to the next node when the
\* traces are empty or none of them makes the contract.
TracesLackOurs ==
  /\ pc = "traceTransaction" /\ CanAnswer
  /\ \E t \in Traces : ExtractFromParityTrace(t.steps) = None
  /\ silent' = silent \cup {node}
  /\ NextNode
  /\ UNCHANGED <<chain, cutShort>>

GetTraces ==
  /\ pc = "traceTransaction" /\ CanAnswer
  /\ trace' \in {t \in Traces : ExtractFromParityTrace(t.steps) # None}
  /\ creationCode' = ExtractFromParityTrace(trace'.steps)
  /\ Answered("done")
  /\ UNCHANGED <<bounds, txs, creator>>

-----------------------------------------------------------------------------
(* The environment *)

\* A node receives blocks; the height of the chain is MaxBlock.
ReceiveBlock(n) ==
  /\ pc # "done" /\ seen[n] < MaxBlock
  /\ seen' = [seen EXCEPT ![n] = @ + 1]
  /\ UNCHANGED <<created, destroyed, direct, reorganised, pc, node, bounds,
                 txs, found, silent, cutShort>>

\* The block of the creation is replaced; bound: once.
Reorganise ==
  /\ pc # "done" /\ ~reorganised
  /\ created' \in {b \in Blocks \ {0} : b # created /\ b < destroyed}
  /\ reorganised' = TRUE
  /\ UNCHANGED <<destroyed, direct, seen, pc, node, bounds, txs, found,
                 silent, cutShort>>

Step ==
  \/ NodeFails \/ NodeLacksBlock \/ NodeWithoutTraces
  \/ AskApi \/ AskPage
  \/ GetBlockNumber \/ GetBytecode \/ GetBlock \/ NextCandidate \/ CheckCandidate
  \/ GetTx \/ GetTxBlock \/ GetTxReceipt \/ ReadReceipt
  \/ TracesLackOurs \/ GetTraces

Next ==
  \/ Step
  \/ \E n \in Nodes : ReceiveBlock(n)
  \/ Reorganise

Spec == Init /\ [][Next]_vars

\* Every call of a node ends, by an answer, an error or a timer: that of Chain,
\* or that of the SDK where Chain.getBlock races with none.
FairSpec == Spec /\ WF_vars(Step)

-----------------------------------------------------------------------------
(* Properties *)

\* Type invariant.
TypeOK ==
  /\ created \in Blocks \ {0} /\ destroyed \in 1..Never /\ created < destroyed
  /\ direct \in BOOLEAN /\ reorganised \in BOOLEAN
  /\ seen \in [Nodes -> Blocks]
  /\ pc \in Calls \cup {"api", "page", "candidates", "done"}
  /\ node \in Nodes
  /\ currentBlockNumber \in Blocks /\ left \in Blocks /\ right \in Blocks
  /\ txs \in Seq({"ours", "other"})
  /\ creator \in {"ours", None}
  /\ silent \subseteq Nodes /\ cutShort \in BOOLEAN

\* The search keeps the creation between its two ends, whichever nodes its
\* questions are answered by.  The code never asks about the block it starts
\* from, so this is of contracts that are there at that block.
SearchBracketsCreation ==
  pc \in {"getBytecode", "getBlock"} /\ ~reorganised /\ HasCode(currentBlockNumber) =>
    left <= created /\ created <= right

\* The creation is found if the transaction made the contract itself and the
\* contract is there.  One node that answers every call is enough, wherever it
\* is in the list and whatever the others do, except that a receipt one node
\* fails to give is not asked of the next (Chain.ts:181).
SearchFinds ==
  /\ pc = "done" /\ direct /\ ~reorganised /\ HasCode(currentBlockNumber)
  /\ silent # Nodes /\ ~cutShort
  => creator # None

\* Of nested creations the code is the one whose result names the contract.
CodeIsOurs ==
  creationCode # None => creationCode = IF direct THEN "ours" ELSE trace.expected

\* The lookup ends: the search always gets shorter.
LookupEnds == <>(pc = "done")
=============================================================================
