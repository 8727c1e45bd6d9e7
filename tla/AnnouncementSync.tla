-------------------------- MODULE AnnouncementSync --------------------------
(***************************************************************************)
(* The monitor of one chain (services/monitor): CatchupSyncer walks the    *)
(* finalized blocks in ranges, then Syncer follows the head block by       *)
(* block.  Both store the ABI signatures announced in the blocks they read *)
(* and then, in a second statement, the number of the last block.          *)
(*                                                                         *)
(* The chain and its RPC nodes are the environment: blocks near the head   *)
(* are replaced by reorganisations, and a node may be some blocks behind   *)
(* the node asked before it (services/chain/Chain.ts takes the first node  *)
(* that answers, call by call).                                            *)
(***************************************************************************)
EXTENDS Integers

CONSTANTS
  Announcements,   (* what a log of the announcement contract may carry     *)
  Malformed,       (* the announcements whose ABI does not parse            *)
  FirstBlock,      (* the block that created the announcement contract      *)
  BatchBlocks,     (* syncOptions.batchBlocksOnCatchup, 0 when unset        *)
  Delay,           (* syncOptions.delayBlocksAgainstLatest, 0 when unset    *)
  MaxGap,          (* the longest range of blocks a node answers for        *)
  MaxReorg,        (* the deepest reorganisation                            *)
  MaxLag,          (* how far behind the head an answering node may be      *)
  FinalityDepth,   (* distance from the head at which blocks are finalized  *)
  MaxBlock,        (* bound: the height of the chain                        *)
  MaxFailures,     (* bound: calls that fail or lose their reply            *)
  MaxCrashes,      (* bound: crashes                                        *)
  MaxSignals       (* bound: SIGTERMs and SIGINTs                           *)

ASSUME NumbersAssumption ==
  /\ {FirstBlock, BatchBlocks, Delay, MaxGap, MaxReorg, MaxLag, FinalityDepth,
      MaxBlock, MaxFailures, MaxCrashes, MaxSignals} \subseteq Nat
  /\ FirstBlock > 0 /\ MaxGap > 0

ASSUME MalformedAssumption == Malformed \subseteq Announcements

\* What the operator relies on when choosing delayBlocksAgainstLatest.
ASSUME DelayAssumption ==
  MaxReorg <= Delay /\ MaxLag <= Delay /\ MaxLag <= FinalityDepth

VARIABLES
  latest, finalized,   (* heights of the chain                              *)
  block,               (* the announcements of each canonical block         *)
  pc,                  (* off, load, bounds, fetch, store or save           *)
  live,                (* Syncer runs, not CatchupSyncer                    *)
  source,              (* of Syncer's logs: untried, receipts or logs       *)
  currentBlock,        (* BaseSyncer.currentBlock                           *)
  finalizedBlock,      (* CatchupSyncer.finalizedBlock                      *)
  start, end,          (* the range being read                              *)
  logs,                (* the announcements read from it                    *)
  stored,              (* abi_signatures                                    *)
  cursor,              (* the row SYNC_BLOCK_NUM of config, 0 when missing  *)
  failures, crashes, signals

environment == <<latest, finalized, block>>
position    == <<currentBlock, finalizedBlock, start, end>>
database    == <<stored, cursor>>
budgets     == <<failures, crashes, signals>>
vars == <<environment, pc, live, source, position, logs, database, budgets>>

Blocks == 1..MaxBlock

Init ==
  /\ latest = 0 /\ finalized = 0
  /\ block = [b \in Blocks |-> {}]
  /\ pc = "load" /\ live = FALSE /\ source = "untried"
  /\ currentBlock = 0 /\ finalizedBlock = 0 /\ start = 0 /\ end = 0
  /\ logs = {} /\ stored = {} /\ cursor = 0
  /\ failures = 0 /\ crashes = 0 /\ signals = 0

-----------------------------------------------------------------------------
(* The chain *)

Mine(contents) ==
  /\ latest < MaxBlock
  /\ latest' = latest + 1
  /\ block' = [block EXCEPT ![latest + 1] = contents]
  /\ UNCHANGED <<finalized, pc, live, source, position, logs, database, budgets>>

Finalize ==
  /\ finalized + FinalityDepth < latest
  /\ finalized' = finalized + 1
  /\ UNCHANGED <<latest, block, pc, live, source, position, logs, database, budgets>>

\* The last blocks are replaced; a finalized block never is.
Reorg(depth, contents) ==
  /\ depth \in 1..MaxReorg
  /\ latest - depth >= finalized
  /\ block' = [b \in Blocks |->
                 IF latest - depth < b /\ b <= latest THEN contents[b] ELSE block[b]]
  /\ UNCHANGED <<latest, finalized, pc, live, source, position, logs, database, budgets>>

\* Heights a node may report when the chain is at the given one.
Seen(height) == {h \in 0..height : h + MaxLag >= height}

-----------------------------------------------------------------------------
(* The monitor *)

NextBlock == IF cursor = 0 THEN FirstBlock ELSE cursor + 1

\* Wrong variant: the last blocks are read again, from below zero if need be.
LoadEarlierBlock ==
  /\ pc = "load"
  /\ currentBlock' = cursor - Delay
  /\ pc' = "bounds"
  /\ UNCHANGED <<environment, live, source, finalizedBlock, start, end, logs,
                 database, budgets>>

LoadLastSyncBlock ==
  /\ pc = "load"
  /\ currentBlock' = NextBlock
  /\ pc' = "bounds"
  /\ UNCHANGED <<environment, live, source, finalizedBlock, start, end, logs,
                 database, budgets>>

\* nextSyncRange: the next batch, cut at the end of what is finalized.
NextSyncRange(first, last) ==
  /\ start' = first
  /\ end' = IF BatchBlocks > 0 /\ first + BatchBlocks - 1 <= last
            THEN first + BatchBlocks - 1 ELSE last

\* tryBlockRange: is there anything finalized to read?  If not the catch-up is
\* over, and Syncer starts by loading the cursor again.
UpdateBlockRange ==
  /\ pc = "bounds" /\ ~ live
  /\ finalizedBlock' \in Seen(finalized)
  /\ \/ /\ currentBlock <= finalizedBlock'
        /\ NextSyncRange(currentBlock, finalizedBlock')
        /\ pc' = "fetch"
        /\ UNCHANGED live
     \/ /\ currentBlock > finalizedBlock'
        /\ pc' = "load"
        /\ live' = TRUE
        /\ UNCHANGED <<start, end>>
  /\ UNCHANGED <<environment, source, currentBlock, logs, database, budgets>>

\* Wrong variant: the head itself is read.
SyncOnceWithoutDelay ==
  /\ pc = "bounds" /\ live
  /\ \E latestBlock \in Seen(latest) : currentBlock <= latestBlock
  /\ start' = currentBlock /\ end' = currentBlock
  /\ pc' = "fetch"
  /\ UNCHANGED <<environment, live, source, currentBlock, finalizedBlock, logs,
                 database, budgets>>

\* syncOnce up to the comparison with the head; too near the head it waits.
SyncOnce ==
  /\ pc = "bounds" /\ live
  /\ \E latestBlock \in Seen(latest) : currentBlock <= latestBlock - Delay
  /\ start' = currentBlock /\ end' = currentBlock
  /\ pc' = "fetch"
  /\ UNCHANGED <<environment, live, source, currentBlock, finalizedBlock, logs,
                 database, budgets>>

\* Once per run: if no node serves receipts, the logs are read for good.
TryReceiptsRPC ==
  /\ pc = "fetch" /\ live /\ source = "untried"
  /\ source' \in {"receipts", "logs"}
  /\ UNCHANGED <<environment, pc, live, position, logs, database, budgets>>

\* A node leaves out, without an error, the blocks it does not have yet.
GetLogs ==
  /\ pc = "fetch" /\ (live => source = "logs")
  /\ end - start < MaxGap
  /\ \E height \in Seen(latest) :
       logs' = UNION {block[b] : b \in start..end \cap 1..height}
  /\ pc' = "store"
  /\ UNCHANGED <<environment, live, source, position, database, budgets>>

\* Wrong variant: half of the range, rounded up.
NarrowRangeRoundsUp ==
  /\ pc = "fetch" /\ ~ live
  /\ end - start >= MaxGap
  /\ end' = start + (end - start + 1) \div 2
  /\ UNCHANGED <<environment, pc, live, source, currentBlock, finalizedBlock,
                 start, logs, database, budgets>>

\* The node refuses so long a range: half of it, or the range it suggests.
NarrowRange ==
  /\ pc = "fetch" /\ ~ live
  /\ end - start >= MaxGap
  /\ end' \in {start + (end - start) \div 2, start + MaxGap - 1}
  /\ UNCHANGED <<environment, pc, live, source, currentBlock, finalizedBlock,
                 start, logs, database, budgets>>

\* A node without the block answers null, and the next one is asked.
GetBlockReceipts ==
  /\ pc = "fetch" /\ live /\ source = "receipts"
  /\ logs' = block[start]
  /\ pc' = "store"
  /\ UNCHANGED <<environment, live, source, position, database, budgets>>

\* Wrong variant: neither loop loads the cursor again.
RetryWithoutLoad == pc' = "bounds"

\* The loops start over: CatchupSyncer loads the cursor, Syncer does not.
Retry == pc' = IF live THEN "bounds" ELSE "load"

\* store: the signatures first ...
BulkCreate ==
  /\ pc = "store"
  /\ logs \cap Malformed = {}
  /\ stored' = stored \cup logs
  /\ pc' = "save"
  /\ UNCHANGED <<environment, live, source, position, logs, cursor, budgets>>

\* ... unless one of them does not parse: nothing of the range is stored.
DecodeFails ==
  /\ pc = "store"
  /\ logs \cap Malformed # {}
  /\ Retry
  /\ UNCHANGED <<environment, live, source, position, logs, database, budgets>>

\* ... then the cursor, and on to the next range or block.
SaveCursor ==
  /\ pc = "save"
  /\ cursor' = end
  /\ \/ /\ live
        /\ currentBlock' = currentBlock + 1
        /\ pc' = "bounds"
        /\ UNCHANGED <<start, end>>
     \/ /\ ~ live /\ end < finalizedBlock
        /\ NextSyncRange(end + 1, finalizedBlock)
        /\ pc' = "fetch"
        /\ UNCHANGED currentBlock
     \/ /\ ~ live /\ end >= finalizedBlock
        /\ pc' = "load"
        /\ UNCHANGED <<currentBlock, start, end>>
  /\ UNCHANGED <<environment, live, source, finalizedBlock, logs, stored, budgets>>

-----------------------------------------------------------------------------
(* Failures *)

ProcessDies ==
  /\ pc' = "off" /\ live' = FALSE /\ source' = "untried"
  /\ currentBlock' = 0 /\ finalizedBlock' = 0 /\ start' = 0 /\ end' = 0
  /\ logs' = {}
  /\ UNCHANGED <<environment, database>>

\* A call fails (or, after it, the alert about an earlier failure).  Syncer's
\* first load is outside its try: the rejection ends the process.
CallFails ==
  /\ failures < MaxFailures
  /\ failures' = failures + 1
  /\ \/ /\ pc = "load" /\ live
        /\ ProcessDies
     \/ /\ pc \in {"load", "bounds", "fetch", "store", "save"}
        /\ ~ (pc = "load" /\ live)
        /\ Retry
        /\ UNCHANGED <<environment, live, source, position, logs, database>>
  /\ UNCHANGED <<crashes, signals>>

\* A statement of store took effect but is reported as failed.
ReplyLost ==
  /\ failures < MaxFailures
  /\ failures' = failures + 1
  /\ \/ /\ pc = "store" /\ logs \cap Malformed = {}
        /\ stored' = stored \cup logs
        /\ UNCHANGED cursor
     \/ /\ pc = "save"
        /\ cursor' = end
        /\ UNCHANGED stored
  /\ Retry
  /\ UNCHANGED <<environment, live, source, position, logs, crashes, signals>>

Crash ==
  /\ pc # "off"
  /\ crashes < MaxCrashes
  /\ crashes' = crashes + 1
  /\ ProcessDies
  /\ UNCHANGED <<failures, signals>>

\* The handler calls shutdown, which clears Syncer.running for a loop that never
\* gets to read it: the handler exits as soon as shutdown returns.
Signal ==
  /\ pc # "off"
  /\ signals < MaxSignals
  /\ signals' = signals + 1
  /\ ProcessDies
  /\ UNCHANGED <<failures, crashes>>

\* The container is restarted (docker-compose.yaml).
Restart ==
  /\ pc = "off"
  /\ pc' = "load"
  /\ UNCHANGED <<environment, live, source, position, logs, database, budgets>>

-----------------------------------------------------------------------------
Environment ==
  \/ \E contents \in SUBSET Announcements : Mine(contents)
  \/ Finalize
  \/ \E depth \in 1..MaxReorg :
       \E contents \in [{b \in Blocks : latest - depth < b /\ b <= latest}
                          -> SUBSET Announcements] : Reorg(depth, contents)

Monitor ==
  \/ LoadLastSyncBlock
  \/ UpdateBlockRange
  \/ SyncOnce
  \/ TryReceiptsRPC
  \/ GetLogs
  \/ NarrowRange
  \/ GetBlockReceipts
  \/ BulkCreate
  \/ DecodeFails
  \/ SaveCursor
  \/ Restart

Trouble == CallFails \/ ReplyLost \/ Crash \/ Signal

Next == Environment \/ Monitor \/ Trouble

Spec == Init /\ [][Next]_vars

\* The loops run, calls end, and docker restarts a dead process.
FairSpec == Spec /\ WF_vars(Monitor)

-----------------------------------------------------------------------------
(* What the module is checked for *)

TypeOK ==
  /\ latest \in 0..MaxBlock /\ finalized \in 0..latest
  /\ block \in [Blocks -> SUBSET Announcements]
  /\ pc \in {"off", "load", "bounds", "fetch", "store", "save"}
  /\ live \in BOOLEAN
  /\ source \in {"untried", "receipts", "logs"}
  /\ currentBlock \in Nat /\ finalizedBlock \in Nat
  /\ start \in Nat /\ end \in Nat
  /\ logs \in SUBSET Announcements
  /\ stored \in SUBSET Announcements
  /\ cursor \in Nat
  /\ failures \in 0..MaxFailures /\ crashes \in 0..MaxCrashes
  /\ signals \in 0..MaxSignals

\* Every announcement of the canonical chain up to the saved cursor is stored:
\* neither a reorganisation, a lagging node, a refused range, a failed or
\* repeated statement nor a restart between the two writes of store skips one.
CursorIsComplete ==
  \A b \in Blocks : FirstBlock <= b /\ b <= cursor => block[b] \subseteq stored

\* The cursor never moves back, and never past the blocks that may still change
\* (it is what a restart and the hand-over to Syncer continue from).
CursorAdvances ==
  [][cursor' >= cursor /\ (cursor' # cursor => cursor' <= latest - Delay
                                            \/ cursor' <= finalized)]_vars

\* An announcement that does not parse stops everything behind it.
Stuck == \E b \in Blocks : b >= FirstBlock /\ block[b] \cap Malformed # {}

\* Announced in a block that is final and old enough.
Due(a) == \E b \in Blocks : /\ b >= FirstBlock /\ a \in block[b]
                            /\ b <= finalized /\ b <= latest - Delay

\* Liveness: when the chain has moved on, what was announced gets stored, unless
\* a malformed announcement appeared, through failures, crashes and restarts.
AnnouncementsGetStored ==
  \A a \in Announcements \ Malformed : Due(a) ~> (a \in stored \/ Stuck)
=============================================================================
