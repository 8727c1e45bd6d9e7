----------------------- MODULE AnnouncementSyncProofs -----------------------
(***************************************************************************)
(* Proofs about the monitor: the types, that no announcement below the     *)
(* saved block number is ever missing from the table, and how the number   *)
(* advances, for every chain, batch size, delay, lag and number of faults. *)
(***************************************************************************)
EXTENDS AnnouncementSync, TLAPS

\* The constants one by one, and what the delay has to cover.
LEMMA NumberTypes ==
  /\ FirstBlock \in Nat /\ BatchBlocks \in Nat /\ Delay \in Nat /\ MaxGap \in Nat
  /\ MaxReorg \in Nat /\ MaxLag \in Nat /\ FinalityDepth \in Nat /\ MaxBlock \in Nat
  /\ MaxFailures \in Nat /\ MaxCrashes \in Nat /\ MaxSignals \in Nat
  /\ FirstBlock > 0 /\ MaxGap > 0
  /\ MaxReorg <= Delay /\ MaxLag <= Delay /\ MaxLag <= FinalityDepth
BY NumbersAssumption, DelayAssumption

\* A block no reorganisation reaches any more.
Settled(b) == b <= finalized \/ b <= latest - Delay

\* What is known of the block to read next and of the range being read.
GoodStart(b) == FirstBlock <= b /\ cursor <= b /\ b <= NextBlock

Reading == pc \in {"fetch", "store", "save"}

RangeInv ==
  /\ pc = "bounds" => GoodStart(currentBlock)
  /\ Reading => /\ GoodStart(start)
                /\ start <= end
                /\ Settled(end)
                /\ live => start = currentBlock /\ end = currentBlock
                /\ ~ live => end <= finalizedBlock

ChainInv ==
  /\ finalized = 0 \/ finalized + FinalityDepth <= latest
  /\ finalizedBlock <= finalized
  /\ Settled(cursor)
  /\ cursor = 0 \/ FirstBlock <= cursor

\* The logs at hand are all those of the range, and the first write was done.
ReadInv ==
  /\ pc \in {"store", "save"} =>
       \A b \in Blocks : start <= b /\ b <= end => block[b] \subseteq logs
  /\ pc = "save" => logs \subseteq stored

SyncInv == TypeOK /\ ChainInv /\ RangeInv /\ ReadInv /\ CursorIsComplete

LEMMA SettledBelow ==
  ASSUME TypeOK, NEW b \in Nat, NEW c \in Nat, b <= c, Settled(c)
  PROVE  Settled(b)
<1>1. finalized \in Nat /\ latest - Delay \in Int
  BY NumberTypes DEF TypeOK
<1> QED BY <1>1 DEF Settled

LEMMA NextBlockIsGood ==
  ASSUME TypeOK, ChainInv
  PROVE  NextBlock \in Nat /\ GoodStart(NextBlock)
<1>1. cursor \in Nat /\ FirstBlock \in Nat /\ FirstBlock > 0
  BY NumberTypes DEF TypeOK
<1>2. CASE cursor = 0
  BY <1>1, <1>2 DEF GoodStart, NextBlock
<1>3. CASE cursor # 0
  BY <1>1, <1>3 DEF ChainInv, GoodStart, NextBlock
<1> QED BY <1>2, <1>3

-----------------------------------------------------------------------------
(* What the steps of the environment leave alone *)

\* A block once settled stays settled and keeps its announcements.
LEMMA SettledStays ==
  ASSUME TypeOK, Environment
  PROVE  /\ \A b \in Nat : Settled(b) => Settled(b)'
         /\ \A b \in Blocks : Settled(b) => block'[b] = block[b]
<1>1. CASE \E contents \in SUBSET Announcements : Mine(contents)
  BY <1>1, NumberTypes DEF TypeOK, Mine, Settled, Blocks
<1>2. CASE Finalize
  BY <1>2, NumberTypes DEF TypeOK, Finalize, Settled, Blocks
<1>3. CASE \E depth \in 1..MaxReorg :
             \E contents \in [{b \in Blocks : latest - depth < b /\ b <= latest}
                                -> SUBSET Announcements] : Reorg(depth, contents)
  BY <1>3, NumberTypes DEF TypeOK, Reorg, Settled, Blocks
<1> QED BY <1>1, <1>2, <1>3 DEF Environment

LEMMA EnvironmentTypes ==
  ASSUME TypeOK, Environment
  PROVE  /\ TypeOK'
         /\ UNCHANGED <<pc, live, source, position, logs, database, budgets>>
<1>1. CASE \E contents \in SUBSET Announcements : Mine(contents)
  BY <1>1, NumberTypes DEF TypeOK, Mine, Blocks, position, database, budgets
<1>2. CASE Finalize
  BY <1>2, NumberTypes DEF TypeOK, Finalize, Blocks, position, database, budgets
<1>3. CASE \E depth \in 1..MaxReorg :
             \E contents \in [{b \in Blocks : latest - depth < b /\ b <= latest}
                                -> SUBSET Announcements] : Reorg(depth, contents)
  BY <1>3, NumberTypes DEF TypeOK, Reorg, Blocks, position, database, budgets
<1> QED BY <1>1, <1>2, <1>3 DEF Environment

LEMMA HeightsGrow ==
  ASSUME TypeOK, Environment
  PROVE  /\ latest <= latest' /\ finalized <= finalized'
         /\ finalized' = finalized \/ finalized' + FinalityDepth <= latest'
<1>1. CASE \E contents \in SUBSET Announcements : Mine(contents)
  BY <1>1 DEF TypeOK, Mine
<1>2. CASE Finalize
  BY <1>2, NumberTypes DEF TypeOK, Finalize
<1>3. CASE \E depth \in 1..MaxReorg :
             \E contents \in [{b \in Blocks : latest - depth < b /\ b <= latest}
                                -> SUBSET Announcements] : Reorg(depth, contents)
  BY <1>3 DEF TypeOK, Reorg
<1> QED BY <1>1, <1>2, <1>3 DEF Environment

LEMMA EnvironmentKeepsInv ==
  ASSUME SyncInv, Environment
  PROVE  SyncInv'
<1>0. TypeOK /\ TypeOK'
  BY EnvironmentTypes DEF SyncInv
<1>1. UNCHANGED <<pc, live, source, position, logs, database, budgets>>
  BY EnvironmentTypes DEF SyncInv
<1>2. /\ \A b \in Nat : Settled(b) => Settled(b)'
      /\ \A b \in Blocks : Settled(b) => block'[b] = block[b]
  BY SettledStays, <1>0
<1>3. /\ finalized' = 0 \/ finalized' + FinalityDepth <= latest'
      /\ finalizedBlock' <= finalized'
  <2>1. /\ latest <= latest' /\ finalized <= finalized'
        /\ finalized' = finalized \/ finalized' + FinalityDepth <= latest'
    BY <1>0, HeightsGrow
  <2>2. /\ finalized = 0 \/ finalized + FinalityDepth <= latest
        /\ finalizedBlock <= finalized /\ finalizedBlock' = finalizedBlock
    BY <1>1 DEF SyncInv, ChainInv, position
  <2>3. /\ latest \in Nat /\ finalized \in Nat /\ finalizedBlock \in Nat
        /\ latest' \in Nat /\ finalized' \in Nat
    BY <1>0, NumberTypes DEF TypeOK
  <2>4. ASSUME finalized + FinalityDepth <= latest, finalized' = finalized
        PROVE  finalized' + FinalityDepth <= latest'
    BY <2>1, <2>3, <2>4, NumberTypes
  <2>5. finalizedBlock' <= finalized'
    BY <2>1, <2>2, <2>3
  <2> QED BY <2>1, <2>2, <2>4, <2>5
<1>4. ChainInv'
  BY <1>0, <1>1, <1>2, <1>3 DEF SyncInv, ChainInv, TypeOK, Settled, database
<1>5. RangeInv'
  <2>1. start \in Nat /\ end \in Nat
    BY <1>0 DEF TypeOK
  <2>2. Reading => Settled(end)'
    BY <1>1, <1>2, <2>1 DEF SyncInv, RangeInv, Settled, position
  <2> QED
    BY <1>1, <2>2 DEF SyncInv, RangeInv, GoodStart, NextBlock, Reading, Settled,
                      position, database
<1>6. ReadInv'
  <2>1. ASSUME pc \in {"store", "save"}, NEW b \in Blocks, start <= b, b <= end
        PROVE  block'[b] \subseteq logs
    <3>1. Settled(b)
      <4>1. b \in Nat /\ end \in Nat
        BY <1>0, NumberTypes DEF TypeOK, Blocks
      <4>2. Settled(end)
        BY <2>1 DEF SyncInv, RangeInv, Reading
      <4> QED BY <4>1, <4>2, <2>1, <1>0, SettledBelow
    <3> QED BY <3>1, <2>1, <1>2 DEF SyncInv, ReadInv
  <2> QED BY <2>1, <1>1 DEF SyncInv, ReadInv, position, database, Blocks
<1>7. CursorIsComplete'
  <2>1. ASSUME NEW b \in Blocks, FirstBlock <= b, b <= cursor
        PROVE  block'[b] \subseteq stored
    <3>1. Settled(b)
      <4>1. b \in Nat /\ cursor \in Nat
        BY <1>0, NumberTypes DEF TypeOK, Blocks
      <4>2. Settled(cursor)
        BY DEF SyncInv, ChainInv
      <4> QED BY <4>1, <4>2, <2>1, <1>0, SettledBelow
    <3> QED BY <3>1, <2>1, <1>2 DEF SyncInv, CursorIsComplete
  <2> QED BY <2>1, <1>1 DEF CursorIsComplete, database, Blocks
<1> QED BY <1>0, <1>4, <1>5, <1>6, <1>7 DEF SyncInv

-----------------------------------------------------------------------------
(* The steps of the monitor *)

\* A node that may be asked for a settled block has it, and all below it.
LEMMA SettledIsSeen ==
  ASSUME TypeOK, ChainInv, NEW b \in Nat, Settled(b), NEW height \in Seen(latest)
  PROVE  b <= height
BY NumberTypes DEF TypeOK, ChainInv, Settled, Seen

LEMMA NextSyncRangeFits ==
  ASSUME NEW first \in Nat, NEW last \in Nat, first <= last,
         NextSyncRange(first, last)
  PROVE  start' = first /\ end' \in Nat /\ first <= end' /\ end' <= last
BY NumberTypes DEF NextSyncRange

LEMMA LoadKeepsInv ==
  ASSUME SyncInv, LoadLastSyncBlock
  PROVE  SyncInv'
<1>1. TypeOK /\ TypeOK'
  BY NumberTypes DEF SyncInv, TypeOK, LoadLastSyncBlock, NextBlock, environment,
                     database, budgets, Blocks
<1>2. ChainInv' /\ ReadInv' /\ CursorIsComplete'
  BY DEF SyncInv, ChainInv, ReadInv, CursorIsComplete, Settled, Blocks,
         LoadLastSyncBlock, environment, database
<1>3. RangeInv'
  <2>1. pc' = "bounds" /\ currentBlock' = NextBlock /\ cursor' = cursor
    BY DEF LoadLastSyncBlock, database
  <2> QED
    BY <1>1, <2>1, NextBlockIsGood DEF SyncInv, RangeInv, GoodStart, Reading, NextBlock
<1> QED BY <1>1, <1>2, <1>3 DEF SyncInv

LEMMA UpdateBlockRangeKeepsInv ==
  ASSUME SyncInv, UpdateBlockRange
  PROVE  SyncInv'
<1>1. /\ pc = "bounds" /\ ~ live
      /\ finalizedBlock' \in Nat /\ finalizedBlock' <= finalized
      /\ UNCHANGED <<environment, source, currentBlock, logs, database, budgets>>
  BY DEF UpdateBlockRange, Seen, SyncInv, TypeOK
<1>2. TypeOK /\ TypeOK' /\ RangeInv'
  <2>1. CASE currentBlock <= finalizedBlock' /\ pc' = "fetch"
    <3>1. /\ NextSyncRange(currentBlock, finalizedBlock')
          /\ UNCHANGED live
      BY <2>1, <1>1 DEF UpdateBlockRange
    <3>2. /\ start' = currentBlock /\ end' \in Nat
          /\ currentBlock <= end' /\ end' <= finalizedBlock'
      BY <3>1, <2>1, <1>1, NextSyncRangeFits DEF SyncInv, TypeOK
    <3>3. TypeOK /\ TypeOK'
      BY <3>1, <3>2, <2>1, <1>1 DEF SyncInv, TypeOK, environment, database,
                                    budgets, Blocks
    <3> QED
      BY <3>1, <3>2, <3>3, <2>1, <1>1, NumberTypes
         DEF SyncInv, RangeInv, GoodStart, Reading, NextBlock, Settled, TypeOK,
             environment, database
  <2>2. CASE pc' = "load" /\ live' = TRUE /\ UNCHANGED <<start, end>>
    BY <2>2, <1>1 DEF SyncInv, TypeOK, RangeInv, Reading, environment, database,
                      budgets, Blocks
  <2> QED BY <2>1, <2>2 DEF UpdateBlockRange
<1>3. ChainInv'
  BY <1>1 DEF SyncInv, ChainInv, Settled, environment, database
<1>4. ReadInv' /\ CursorIsComplete'
  BY <1>1 DEF UpdateBlockRange, SyncInv, ReadInv, CursorIsComplete, Blocks,
              environment, database
<1> QED BY <1>2, <1>3, <1>4 DEF SyncInv

LEMMA SyncOnceKeepsInv ==
  ASSUME SyncInv, SyncOnce
  PROVE  SyncInv'
<1>1. TypeOK /\ TypeOK'
  BY DEF SyncInv, TypeOK, SyncOnce, environment, database, budgets, Blocks
<1>2. ChainInv' /\ ReadInv' /\ CursorIsComplete'
  BY DEF SyncInv, ChainInv, ReadInv, CursorIsComplete, Settled, Blocks,
         SyncOnce, environment, database
<1>3. RangeInv'
  BY <1>1, NumberTypes
     DEF SyncInv, RangeInv, GoodStart, Reading, NextBlock, Settled, TypeOK,
         SyncOnce, Seen, environment, database
<1> QED BY <1>1, <1>2, <1>3 DEF SyncInv

\* The steps of a range that write nothing but the logs read from it.
LEMMA TryReceiptsKeepsInv ==
  ASSUME SyncInv, TryReceiptsRPC
  PROVE  SyncInv'
<1>1. TypeOK'
  BY DEF SyncInv, TypeOK, TryReceiptsRPC, environment, position, database,
         budgets, Blocks
<1>2. ChainInv' /\ RangeInv' /\ ReadInv' /\ CursorIsComplete'
  BY DEF SyncInv, ChainInv, RangeInv, ReadInv, CursorIsComplete, GoodStart,
         NextBlock, Reading, Settled, Blocks, TryReceiptsRPC, environment,
         position, database
<1> QED BY <1>1, <1>2 DEF SyncInv

LEMMA NarrowKeepsInv ==
  ASSUME SyncInv, NarrowRange
  PROVE  SyncInv'
<1>1. start <= end' /\ end' <= end /\ end' \in Nat
  <2>1. start \in Nat /\ end \in Nat /\ start <= end /\ end - start >= MaxGap
    BY DEF SyncInv, TypeOK, RangeInv, Reading, NarrowRange
  <2>2. CASE end' = start + (end - start) \div 2
    BY <2>1, <2>2, NumberTypes
  <2>3. CASE end' = start + MaxGap - 1
    BY <2>1, <2>3, NumberTypes
  <2> QED BY <2>2, <2>3 DEF NarrowRange
<1>2. TypeOK /\ TypeOK'
  BY <1>1 DEF SyncInv, TypeOK, NarrowRange, environment, database, budgets, Blocks
<1>3. ChainInv' /\ ReadInv' /\ CursorIsComplete'
  BY DEF SyncInv, ChainInv, ReadInv, CursorIsComplete, Settled, Blocks,
         NarrowRange, environment, database
<1>4. RangeInv'
  <2>1. Settled(end')
    BY <1>1, <1>2, SettledBelow DEF SyncInv, TypeOK, RangeInv, Reading, NarrowRange
  <2> QED
    BY <1>1, <1>2, <2>1, NumberTypes
       DEF SyncInv, RangeInv, GoodStart, NextBlock, Reading, Settled, TypeOK,
           NarrowRange, environment, database
<1> QED BY <1>2, <1>3, <1>4 DEF SyncInv

\* Both ways of reading return every announcement of the range.
LEMMA WholeRangeRead ==
  ASSUME SyncInv, GetLogs \/ GetBlockReceipts
  PROVE  /\ logs' \in SUBSET Announcements
         /\ \A b \in Blocks : start <= b /\ b <= end => block[b] \subseteq logs'
<1>1. /\ TypeOK /\ ChainInv
      /\ start \in Nat /\ end \in Nat /\ start <= end /\ Settled(end)
      /\ FirstBlock <= start
      /\ live => end = start
  BY DEF SyncInv, RangeInv, GoodStart, Reading, GetLogs, GetBlockReceipts, TypeOK
<1>2. CASE GetLogs
  <2>1. PICK height \in Seen(latest) :
          logs' = UNION {block[b] : b \in start..end \cap 1..height}
    BY <1>2 DEF GetLogs
  <2>2. height \in Nat /\ end <= height /\ height <= MaxBlock
    BY <1>1, <2>1, SettledIsSeen, NumberTypes DEF Seen, TypeOK
  <2>3. \A b \in start..end \cap 1..height : b \in Blocks
    BY <2>2, <1>1, NumberTypes DEF Blocks
  <2>4. logs' \in SUBSET Announcements
    BY <2>1, <2>3, <1>1 DEF TypeOK
  <2>5. ASSUME NEW b \in Blocks, start <= b, b <= end
        PROVE  block[b] \subseteq logs'
    <3>1. b \in start..end \cap 1..height
      BY <2>5, <2>2, <1>1, NumberTypes DEF Blocks
    <3> QED BY <3>1, <2>1
  <2> QED BY <2>4, <2>5
<1>3. CASE GetBlockReceipts
  <2>1. end = start /\ logs' = block[start]
    BY <1>1, <1>3 DEF GetBlockReceipts
  <2>2. start <= latest
    BY <1>1, <2>1, NumberTypes DEF Settled, TypeOK
  <2>3. start \in Blocks
    BY <1>1, <2>2, NumberTypes DEF TypeOK, Blocks
  <2>4. \A b \in Blocks : start <= b /\ b <= end => b = start
    BY <1>1, <2>1, NumberTypes DEF Blocks
  <2> QED BY <1>1, <2>1, <2>3, <2>4 DEF TypeOK
<1> QED BY <1>2, <1>3

LEMMA ReadKeepsInv ==
  ASSUME SyncInv, GetLogs \/ GetBlockReceipts
  PROVE  SyncInv'
<1>1. /\ pc = "fetch" /\ pc' = "store"
      /\ UNCHANGED <<environment, live, source, position, database, budgets>>
  BY DEF GetLogs, GetBlockReceipts
<1>2. TypeOK' /\ ReadInv'
  BY <1>1, WholeRangeRead
     DEF SyncInv, TypeOK, ReadInv, environment, position, database, budgets, Blocks
<1>3. ChainInv' /\ RangeInv' /\ CursorIsComplete'
  BY <1>1 DEF SyncInv, ChainInv, RangeInv, CursorIsComplete, GoodStart, NextBlock,
              Reading, Settled, Blocks, environment, position, database
<1> QED BY <1>2, <1>3 DEF SyncInv

LEMMA BulkCreateKeepsInv ==
  ASSUME SyncInv, BulkCreate
  PROVE  SyncInv'
<1>1. TypeOK'
  BY DEF SyncInv, TypeOK, BulkCreate, environment, position, budgets, Blocks
<1>2. ChainInv' /\ RangeInv' /\ ReadInv'
  BY DEF SyncInv, ChainInv, RangeInv, ReadInv, GoodStart, NextBlock, Reading,
         Settled, Blocks, BulkCreate, environment, position
<1>3. CursorIsComplete'
  BY DEF SyncInv, CursorIsComplete, Blocks, BulkCreate, environment
<1> QED BY <1>1, <1>2, <1>3 DEF SyncInv

\* What the second write makes of the cursor, whether its reply arrives or not.
LEMMA CursorMoves ==
  ASSUME SyncInv, pc = "save", cursor' = end,
         UNCHANGED <<environment, stored>>
  PROVE  /\ cursor' \in Nat /\ cursor' >= cursor
         /\ Settled(cursor)' /\ FirstBlock <= cursor'
         /\ CursorIsComplete'
<1>1. /\ start \in Nat /\ end \in Nat /\ cursor \in Nat
      /\ FirstBlock \in Nat /\ FirstBlock <= start /\ cursor <= start
      /\ start <= NextBlock /\ start <= end
  BY NumberTypes DEF SyncInv, TypeOK, RangeInv, Reading, GoodStart
<1>2. Settled(cursor)'
  BY DEF SyncInv, RangeInv, Reading, Settled, environment
<1>3. ASSUME NEW b \in Blocks, FirstBlock <= b, b <= end
      PROVE  block[b] \subseteq stored
  <2>0. b \in Nat
    BY NumberTypes DEF Blocks
  <2>1. CASE start <= b
    BY <1>3, <2>1 DEF SyncInv, ReadInv
  <2>2. CASE b < start
    <3>1. b <= cursor
      BY <1>1, <1>3, <2>0, <2>2 DEF NextBlock
    <3> QED BY <3>1, <1>3 DEF SyncInv, CursorIsComplete
  <2> QED BY <2>1, <2>2, <2>0, <1>1
<1>4. CursorIsComplete'
  BY <1>3 DEF CursorIsComplete, environment, Blocks
<1> QED BY <1>1, <1>2, <1>4

LEMMA SaveCursorKeepsInv ==
  ASSUME SyncInv, SaveCursor
  PROVE  SyncInv'
<1>1. /\ pc = "save" /\ cursor' = end
      /\ UNCHANGED <<environment, live, source, finalizedBlock, logs, stored, budgets>>
  BY DEF SaveCursor
<1>2. /\ cursor' \in Nat /\ Settled(cursor)' /\ FirstBlock <= cursor'
      /\ CursorIsComplete'
  BY <1>1, CursorMoves DEF environment
<1>3. ChainInv'
  BY <1>1, <1>2 DEF SyncInv, ChainInv, environment
<1>4. /\ TypeOK /\ FirstBlock \in Nat /\ FirstBlock > 0
      /\ start \in Nat /\ end \in Nat /\ currentBlock \in Nat /\ finalizedBlock \in Nat
      /\ FirstBlock <= end
      /\ live => end = currentBlock
  BY <1>1, <1>2, NumberTypes DEF SyncInv, TypeOK, RangeInv, Reading
<1>5. NextBlock' = end + 1
  BY <1>1, <1>4 DEF NextBlock
<1>6. TypeOK' /\ RangeInv' /\ ReadInv'
  <2>1. CASE live
    <3>1. currentBlock' = currentBlock + 1 /\ pc' = "bounds" /\ UNCHANGED <<start, end>>
      BY <2>1 DEF SaveCursor
    <3> QED
      BY <3>1, <2>1, <1>1, <1>2, <1>4, <1>5
         DEF TypeOK, RangeInv, ReadInv, GoodStart, Reading, environment, budgets, Blocks
  <2>2. CASE ~ live /\ end < finalizedBlock
    <3>1. /\ NextSyncRange(end + 1, finalizedBlock)
          /\ pc' = "fetch" /\ UNCHANGED currentBlock
      BY <2>2, <1>4 DEF SaveCursor
    <3>2. /\ start' = end + 1 /\ end' \in Nat
          /\ end + 1 <= end' /\ end' <= finalizedBlock
      BY <3>1, <2>2, <1>4, NextSyncRangeFits
    <3>3. TypeOK' /\ ReadInv'
      BY <3>1, <3>2, <1>1, <1>2, <1>4
         DEF TypeOK, ReadInv, environment, budgets, Blocks
    <3>4. finalizedBlock <= finalized /\ finalized \in Nat
      BY <1>4, NumberTypes DEF SyncInv, ChainInv, TypeOK
    <3>5. Settled(end)'
      BY <3>2, <3>4, <1>1, <1>4 DEF Settled, environment
    <3> QED
      BY <3>1, <3>2, <3>3, <3>5, <2>2, <1>1, <1>4, <1>5
         DEF RangeInv, GoodStart, Reading
  <2>3. CASE ~ live /\ end >= finalizedBlock
    <3>1. pc' = "load" /\ UNCHANGED <<currentBlock, start, end>>
      BY <2>3, <1>4 DEF SaveCursor
    <3> QED
      BY <3>1, <1>1, <1>2, <1>4
         DEF TypeOK, RangeInv, ReadInv, Reading, environment, budgets, Blocks
  <2> QED BY <2>1, <2>2, <2>3, <1>4
<1> QED BY <1>2, <1>3, <1>6 DEF SyncInv

-----------------------------------------------------------------------------
(* Failures *)

\* Starting over is safe wherever the loop was: nothing but pc changes.
LEMMA RetryKeepsInv ==
  ASSUME SyncInv, pc \in {"bounds", "fetch", "store", "save"} \/ ~ live, Retry,
         UNCHANGED <<environment, live, source, position, logs, database>>,
         failures' \in 0..MaxFailures, UNCHANGED <<crashes, signals>>
  PROVE  SyncInv'
<1>1. TypeOK'
  BY DEF SyncInv, TypeOK, Retry, environment, position, database, Blocks
<1>2. ChainInv' /\ ReadInv' /\ CursorIsComplete'
  BY DEF SyncInv, ChainInv, ReadInv, CursorIsComplete, Settled, Blocks, Retry,
         environment, position, database
<1>3. RangeInv'
  BY DEF SyncInv, RangeInv, GoodStart, NextBlock, Reading, Retry, position, database
<1> QED BY <1>1, <1>2, <1>3 DEF SyncInv

LEMMA DyingKeepsInv ==
  ASSUME SyncInv, ProcessDies, failures' \in 0..MaxFailures,
         crashes' \in 0..MaxCrashes, signals' \in 0..MaxSignals
  PROVE  SyncInv'
<1>1. TypeOK'
  BY DEF SyncInv, TypeOK, ProcessDies, environment, database, Blocks
<1>2. ChainInv' /\ RangeInv' /\ ReadInv' /\ CursorIsComplete'
  BY DEF SyncInv, TypeOK, ChainInv, RangeInv, ReadInv, CursorIsComplete, Reading,
         Settled, Blocks, ProcessDies, environment, database
<1> QED BY <1>1, <1>2 DEF SyncInv

LEMMA CallFailsKeepsInv ==
  ASSUME SyncInv, CallFails
  PROVE  SyncInv'
<1>1. /\ failures' \in 0..MaxFailures
      /\ crashes' \in 0..MaxCrashes /\ signals' \in 0..MaxSignals
  BY NumberTypes DEF SyncInv, TypeOK, CallFails
<1>2. CASE pc = "load" /\ live /\ ProcessDies
  BY <1>1, <1>2, DyingKeepsInv
<1>3. CASE /\ pc \in {"load", "bounds", "fetch", "store", "save"}
           /\ ~ (pc = "load" /\ live)
           /\ Retry
           /\ UNCHANGED <<environment, live, source, position, logs, database>>
  <2>1. UNCHANGED <<crashes, signals>>
    BY DEF CallFails
  <2>2. pc \in {"bounds", "fetch", "store", "save"} \/ ~ live
    BY <1>3
  <2> QED BY <1>1, <1>3, <2>1, <2>2, RetryKeepsInv
<1> QED BY <1>2, <1>3 DEF CallFails

LEMMA ReplyLostKeepsInv ==
  ASSUME SyncInv, ReplyLost
  PROVE  SyncInv'
<1>1. /\ failures' \in 0..MaxFailures
      /\ Retry
      /\ UNCHANGED <<environment, live, source, position, logs, crashes, signals>>
  BY NumberTypes DEF SyncInv, TypeOK, ReplyLost
<1>2. CASE pc = "store" /\ stored' = stored \cup logs /\ UNCHANGED cursor
  <2>1. TypeOK'
    BY <1>1, <1>2 DEF SyncInv, TypeOK, Retry, environment, position, Blocks
  <2>2. ChainInv' /\ RangeInv' /\ ReadInv' /\ CursorIsComplete'
    BY <1>1, <1>2
       DEF SyncInv, ChainInv, RangeInv, ReadInv, CursorIsComplete, GoodStart,
           NextBlock, Reading, Settled, Blocks, Retry, environment, position
  <2> QED BY <2>1, <2>2 DEF SyncInv
<1>3. CASE pc = "save" /\ cursor' = end /\ UNCHANGED stored
  <2>1. /\ cursor' \in Nat /\ Settled(cursor)' /\ FirstBlock <= cursor'
        /\ CursorIsComplete'
    BY <1>1, <1>3, CursorMoves DEF environment
  <2>2. TypeOK'
    BY <1>1, <1>3, <2>1 DEF SyncInv, TypeOK, Retry, environment, position, Blocks
  <2>3. ChainInv' /\ ReadInv'
    BY <1>1, <1>3, <2>1
       DEF SyncInv, ChainInv, ReadInv, Retry, environment, position
  <2>4. RangeInv'
    <3>1. CASE live
      <4>1. pc' = "bounds" /\ currentBlock' = currentBlock /\ cursor' = currentBlock
        BY <3>1, <1>1, <1>3 DEF SyncInv, RangeInv, Reading, Retry, position
      <4>2. FirstBlock \in Nat /\ FirstBlock > 0
        BY NumberTypes
      <4> QED BY <4>1, <4>2, <2>1 DEF RangeInv, GoodStart, NextBlock, Reading
    <3>2. CASE ~ live
      BY <3>2, <1>1 DEF RangeInv, Reading, Retry
    <3> QED BY <3>1, <3>2
  <2> QED BY <2>1, <2>2, <2>3, <2>4 DEF SyncInv
<1> QED BY <1>2, <1>3 DEF ReplyLost

LEMMA KillKeepsInv ==
  ASSUME SyncInv, Crash \/ Signal
  PROVE  SyncInv'
<1>1. /\ failures' \in 0..MaxFailures
      /\ crashes' \in 0..MaxCrashes /\ signals' \in 0..MaxSignals
      /\ ProcessDies
  BY NumberTypes DEF SyncInv, TypeOK, Crash, Signal
<1> QED BY <1>1, DyingKeepsInv

LEMMA RestartKeepsInv ==
  ASSUME SyncInv, Restart
  PROVE  SyncInv'
<1>1. TypeOK'
  BY DEF SyncInv, TypeOK, Restart, environment, position, database, budgets, Blocks
<1>2. ChainInv' /\ RangeInv' /\ ReadInv' /\ CursorIsComplete'
  BY DEF SyncInv, ChainInv, RangeInv, ReadInv, CursorIsComplete, Reading, Settled,
         Blocks, Restart, environment, position, database
<1> QED BY <1>1, <1>2 DEF SyncInv

LEMMA DecodeFailsKeepsInv ==
  ASSUME SyncInv, DecodeFails
  PROVE  SyncInv'
<1>1. /\ Retry /\ pc \in {"bounds", "fetch", "store", "save"}
      /\ UNCHANGED <<environment, live, source, position, logs, database>>
      /\ failures' \in 0..MaxFailures /\ UNCHANGED <<crashes, signals>>
  BY DEF DecodeFails, SyncInv, TypeOK, budgets
<1> QED BY <1>1, RetryKeepsInv

-----------------------------------------------------------------------------
(* The theorems *)

\* Every reachable state satisfies the strengthened invariant.
THEOREM SyncInvariance == Spec => []SyncInv
<1>1. Init => SyncInv
  <2> SUFFICES ASSUME Init PROVE SyncInv
    OBVIOUS
  <2>1. TypeOK
    <3>1. block \in [Blocks -> SUBSET Announcements]
      BY DEF Init
    <3>2. /\ latest \in 0..MaxBlock /\ finalized \in 0..latest
          /\ failures \in 0..MaxFailures /\ crashes \in 0..MaxCrashes
          /\ signals \in 0..MaxSignals
      BY NumberTypes DEF Init
    <3> QED BY <3>1, <3>2 DEF Init, TypeOK
  <2>2. ChainInv /\ RangeInv /\ ReadInv
    BY DEF Init, ChainInv, RangeInv, ReadInv, Reading, Settled
  <2>3. CursorIsComplete
    BY NumberTypes DEF Init, CursorIsComplete, Blocks
  <2> QED BY <2>1, <2>2, <2>3 DEF SyncInv
<1>2. SyncInv /\ [Next]_vars => SyncInv'
  <2> SUFFICES ASSUME SyncInv, [Next]_vars PROVE SyncInv'
    OBVIOUS
  <2>1. CASE Environment
    BY <2>1, EnvironmentKeepsInv
  <2>2. CASE Monitor
    BY <2>2, LoadKeepsInv, UpdateBlockRangeKeepsInv, SyncOnceKeepsInv,
       TryReceiptsKeepsInv, NarrowKeepsInv, ReadKeepsInv, BulkCreateKeepsInv,
       DecodeFailsKeepsInv, SaveCursorKeepsInv, RestartKeepsInv DEF Monitor
  <2>3. CASE Trouble
    BY <2>3, CallFailsKeepsInv, ReplyLostKeepsInv, KillKeepsInv DEF Trouble
  <2>4. CASE UNCHANGED vars
    <3>1. TypeOK'
      BY <2>4 DEF SyncInv, TypeOK, vars, environment, position, database, budgets,
                  Blocks
    <3>2. ChainInv' /\ RangeInv' /\ ReadInv' /\ CursorIsComplete'
      BY <2>4 DEF SyncInv, ChainInv, RangeInv, ReadInv, CursorIsComplete,
                  GoodStart, NextBlock, Reading, Settled, Blocks, vars,
                  environment, position, database
    <3> QED BY <3>1, <3>2 DEF SyncInv
  <2> QED BY <2>1, <2>2, <2>3, <2>4 DEF Next
<1> QED BY <1>1, <1>2, PTL DEF Spec

\* The variables have their types: no block number leaves the chain's range.
THEOREM SyncTypeCorrect == Spec => []TypeOK
<1>1. SyncInv => TypeOK
  BY DEF SyncInv
<1> QED BY <1>1, SyncInvariance, PTL

\* No announcement up to the saved block number is missing from the table.
THEOREM NothingSkipped == Spec => []CursorIsComplete
<1>1. SyncInv => CursorIsComplete
  BY DEF SyncInv
<1> QED BY <1>1, SyncInvariance, PTL

\* The saved block number never moves back and never reaches an unsettled block.
THEOREM CursorOnlyAdvances == Spec => CursorAdvances
<1>1. SyncInv /\ [Next]_vars =>
        [cursor' >= cursor /\ (cursor' # cursor => cursor' <= latest - Delay
                                                  \/ cursor' <= finalized)]_vars
  <2> SUFFICES
        ASSUME SyncInv, [Next]_vars
        PROVE  cursor' >= cursor /\ (cursor' # cursor => cursor' <= latest - Delay
                                                        \/ cursor' <= finalized)
    OBVIOUS
  <2>1. CASE /\ pc = "save" /\ cursor' = end
             /\ UNCHANGED <<environment, stored>>
    <3>1. cursor' >= cursor /\ Settled(cursor)'
      BY <2>1, CursorMoves
    <3> QED BY <3>1, <2>1 DEF Settled, environment
  <2>2. CASE cursor' = cursor
    BY <2>2 DEF SyncInv, TypeOK
  <2>3. \/ cursor' = cursor
        \/ pc = "save" /\ cursor' = end /\ UNCHANGED <<environment, stored>>
    BY DEF Next, Environment, Mine, Finalize, Reorg, Monitor, LoadLastSyncBlock,
           UpdateBlockRange, SyncOnce, TryReceiptsRPC, GetLogs, NarrowRange,
           GetBlockReceipts, BulkCreate, DecodeFails, SaveCursor, Restart, Trouble,
           CallFails, ReplyLost, Crash, Signal, ProcessDies, database, vars
  <2> QED BY <2>1, <2>2, <2>3
<1> QED BY <1>1, SyncInvariance, PTL DEF Spec, CursorAdvances
=============================================================================
