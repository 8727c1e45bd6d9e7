-------------------------- MODULE MatchListingProofs --------------------------
(***************************************************************************)
(* What holds of a walk over the matches and of the backfill tool: for any *)
(* number of matches, chains and writers, any page and batch size, and any *)
(* number of interruptions of the tool.                                    *)
(***************************************************************************)
EXTENDS MatchListing, FiniteSetTheorems, TLAPS

-----------------------------------------------------------------------------
(* The table *)

Fields == {"kind", "pc", "asked", "descending", "limit", "after", "seen", "twice", "batch",
           "start", "same"}

\* Every row stays, at its place.
RowsStay ==
  \A i \in DOMAIN matches :
    i \in DOMAIN matches' /\ Place[matches'[i].record] = Place[matches[i].record]

LEMMA TableInitTypes == TableInit => TableTypeOK
BY DEF TableInit, TableTypeOK

\* A row added under a new id.
LEMMA WithAdds ==
  ASSUME NEW rows, NEW i, NEW row \in Row, i \notin DOMAIN rows,
         \A k \in DOMAIN rows : rows[k] \in Row
  PROVE  /\ DOMAIN With(rows, i, row) = DOMAIN rows \cup {i}
         /\ \A k \in DOMAIN rows : With(rows, i, row)[k] = rows[k]
         /\ \A k \in DOMAIN With(rows, i, row) : With(rows, i, row)[k] \in Row
BY DEF With

LEMMA WithoutRemoves ==
  ASSUME NEW rows, NEW i
  PROVE  /\ DOMAIN Without(rows, i) = DOMAIN rows \ {i}
         /\ \A k \in DOMAIN rows \ {i} : Without(rows, i)[k] = rows[k]
BY DEF Without, Restrict

LEMMA NewId ==
  ASSUME TableTypeOK
  PROVE  /\ lastId + 1 \in Nat /\ lastId + 1 \in 1..lastId + 1
         /\ lastId + 1 \notin DOMAIN matches /\ lastId + 1 \notin DOMAIN pending
         /\ DOMAIN matches \subseteq 1..lastId + 1 /\ DOMAIN pending \subseteq 1..lastId + 1
<1>1. lastId \in Nat /\ DOMAIN matches \subseteq 1..lastId /\ DOMAIN pending \subseteq 1..lastId
  BY DEF TableTypeOK
<1>2. lastId + 1 \notin 1..lastId /\ 1..lastId \subseteq 1..lastId + 1
  BY <1>1
<1> QED
  BY <1>1, <1>2

LEMMA InsertNowKeeps ==
  ASSUME TableTypeOK, NEW row \in Row, InsertNow(row) PROVE TableTypeOK' /\ RowsStay
<1>1. lastId' = lastId + 1 /\ matches' = With(matches, lastId + 1, row) /\ pending' = pending
  BY DEF InsertNow
<1>2. /\ DOMAIN matches' = DOMAIN matches \cup {lastId + 1}
      /\ \A k \in DOMAIN matches : matches'[k] = matches[k]
      /\ \A k \in DOMAIN matches' : matches'[k] \in Row
  <2>1. lastId + 1 \notin DOMAIN matches /\ \A k \in DOMAIN matches : matches[k] \in Row
    BY NewId DEF TableTypeOK
  <2>2. /\ DOMAIN With(matches, lastId + 1, row) = DOMAIN matches \cup {lastId + 1}
        /\ \A k \in DOMAIN matches : With(matches, lastId + 1, row)[k] = matches[k]
        /\ \A k \in DOMAIN With(matches, lastId + 1, row) : With(matches, lastId + 1, row)[k] \in Row
    BY <1>1, <2>1, WithAdds
  <2> QED
    BY <1>1, <2>2, Zenon
<1>3. TableTypeOK'
  BY <1>1, <1>2, NewId DEF TableTypeOK, Row
<1> QED
  BY <1>2, <1>3 DEF RowsStay

LEMMA InsertPendingKeeps ==
  ASSUME TableTypeOK, NEW row \in Row, InsertPending(row) PROVE TableTypeOK' /\ RowsStay
<1>1. lastId' = lastId + 1 /\ pending' = With(pending, lastId + 1, row) /\ matches' = matches
  BY DEF InsertPending
<1>2. /\ DOMAIN pending' = DOMAIN pending \cup {lastId + 1}
      /\ \A k \in DOMAIN pending' : pending'[k] \in Row
  BY <1>1, NewId, WithAdds DEF TableTypeOK
<1>3. TableTypeOK'
  BY <1>1, <1>2, NewId DEF TableTypeOK, Row
<1> QED
  BY <1>1, <1>3 DEF RowsStay

LEMMA CommitKeeps ==
  ASSUME TableTypeOK, NEW i \in DOMAIN pending, CommitInsert(i) PROVE TableTypeOK' /\ RowsStay
<1>1. /\ matches' = With(matches, i, pending[i]) /\ pending' = Without(pending, i)
      /\ lastId' = lastId /\ i \notin DOMAIN matches /\ pending[i] \in Row
  BY DEF CommitInsert, TableTypeOK
<1>2. /\ DOMAIN matches' = DOMAIN matches \cup {i}
      /\ \A k \in DOMAIN matches : matches'[k] = matches[k]
      /\ \A k \in DOMAIN matches' : matches'[k] \in Row
  <2>1. \A k \in DOMAIN matches : matches[k] \in Row
    BY DEF TableTypeOK
  <2>2. /\ DOMAIN With(matches, i, pending[i]) = DOMAIN matches \cup {i}
        /\ \A k \in DOMAIN matches : With(matches, i, pending[i])[k] = matches[k]
        /\ \A k \in DOMAIN With(matches, i, pending[i]) : With(matches, i, pending[i])[k] \in Row
    BY <1>1, <2>1, WithAdds
  <2> QED
    BY <1>1, <2>2, Zenon
<1>3. /\ DOMAIN pending' = DOMAIN pending \ {i}
      /\ \A k \in DOMAIN pending' : pending'[k] = pending[k]
  BY <1>1, WithoutRemoves
<1>4. TableTypeOK'
  BY <1>1, <1>2, <1>3 DEF TableTypeOK, Row
<1> QED
  BY <1>2, <1>4 DEF RowsStay

LEMMA RollBackKeeps ==
  ASSUME TableTypeOK, NEW i \in DOMAIN pending, RollBackInsert(i) PROVE TableTypeOK' /\ RowsStay
<1>1. pending' = Without(pending, i) /\ lastId' = lastId /\ matches' = matches
  BY DEF RollBackInsert
<1>2. /\ DOMAIN pending' = DOMAIN pending \ {i}
      /\ \A k \in DOMAIN pending' : pending'[k] = pending[k]
  BY <1>1, WithoutRemoves
<1>3. TableTypeOK'
  BY <1>1, <1>2 DEF TableTypeOK, Row
<1> QED
  BY <1>1, <1>3 DEF RowsStay

LEMMA ReplaceKeeps ==
  ASSUME TableTypeOK, NEW i \in DOMAIN matches, NEW row \in Row, Replace(i, row)
  PROVE  TableTypeOK' /\ RowsStay
<1>1. /\ matches' = [matches EXCEPT ![i] = row] /\ lastId' = lastId /\ pending' = pending
      /\ Place[row.record] = Place[matches[i].record]
  BY DEF Replace
<1>2. /\ DOMAIN matches' = DOMAIN matches
      /\ matches'[i] = row
      /\ \A k \in DOMAIN matches \ {i} : matches'[k] = matches[k]
  BY <1>1
<1>3. TableTypeOK'
  BY <1>1, <1>2 DEF TableTypeOK, Row
<1> QED
  BY <1>1, <1>2, <1>3 DEF RowsStay

LEMMA TableStep ==
  ASSUME TableTypeOK, TableNext PROVE TableTypeOK' /\ RowsStay
<1>1. CASE \E row \in Row : InsertNow(row) \/ InsertPending(row)
  BY <1>1, InsertNowKeeps, InsertPendingKeeps
<1>2. CASE \E i \in DOMAIN pending : CommitInsert(i) \/ RollBackInsert(i)
  BY <1>2, CommitKeeps, RollBackKeeps
<1>3. CASE \E i \in DOMAIN matches, row \in Row : Replace(i, row)
  BY <1>3, ReplaceKeeps
<1>4. CASE LoseId
  <2>1. lastId' = lastId + 1 /\ matches' = matches /\ pending' = pending
    BY <1>4 DEF LoseId
  <2>2. TableTypeOK'
    BY <2>1, NewId DEF TableTypeOK, Row
  <2> QED
    BY <2>1, <2>2 DEF RowsStay
<1> QED
  BY <1>1, <1>2, <1>3, <1>4 DEF TableNext

-----------------------------------------------------------------------------
(* The invariants of the readers *)

\* Not after: the ids a walk has passed when it has got the id `last`.
Passed(i, last) == i = last \/ Precedes(i, last, reader.descending)

(***************************************************************************)
(* A walk.  What it has got lies before its last id, and what was there    *)
(* when it began and lies before that id it has got.                       *)
(***************************************************************************)
WalkInv ==
  reader.kind = "walk" =>
    /\ reader.pc \in {"reading", "done"}
    /\ reader.limit \in Nat /\ reader.after \in Nat
    /\ reader.start \subseteq DOMAIN matches /\ reader.seen \subseteq DOMAIN matches
    /\ \A i \in reader.start : Place[matches[i].record] \in reader.asked
    /\ reader.twice = {}
    /\ reader.pc = "reading" =>
         /\ reader.after = 0 => reader.seen = {}
         /\ reader.after # 0 =>
              /\ \A i \in reader.seen : Passed(i, reader.after)
              /\ \A i \in reader.start : Passed(i, reader.after) => i \in reader.seen
    /\ reader.pc = "done" => reader.start \subseteq reader.seen

(***************************************************************************)
(* The tool.  Its batch lies behind the saved id, has every row up to its  *)
(* end that was there from the beginning, and holds the verified contracts *)
(* of those rows; when it is about to save, it has written the first.      *)
(***************************************************************************)
Holds == reader.pc \in {"updating", "saving"}

BatchInv ==
  /\ DOMAIN reader.batch \subseteq Nat
  /\ \A i \in DOMAIN reader.batch : i > cursor
  /\ \A i \in DOMAIN reader.batch \cap reader.same : reader.batch[i] = matches[i].record
  /\ \A i \in reader.same, k \in DOMAIN reader.batch :
       i > cursor /\ i <= k => i \in DOMAIN reader.batch
  /\ reader.pc = "saving" => \A i \in DOMAIN reader.batch :
                               IsFirst(i) => reader.batch[i] \in backfilled

ToolInv ==
  /\ cursor \in Nat
  /\ reader.kind # "tool" => cursor = 0
  /\ reader.kind = "tool" =>
       /\ reader.same \subseteq DOMAIN matches
       /\ \A i \in reader.same : matches[i].level \in Similar
       /\ \A i \in reader.same : i <= cursor => matches[i].record \in backfilled
       /\ Holds => BatchInv

ListingInv ==
  /\ TableTypeOK
  /\ DOMAIN reader = Fields
  /\ WalkInv
  /\ ToolInv

LEMMA IdsAreNumbers == ASSUME TableTypeOK PROVE DOMAIN matches \subseteq Nat \ {0}
BY DEF TableTypeOK

LEMMA NoReaderFields == DOMAIN NoReader = Fields
BY DEF NoReader, Fields

LEMMA ListingInvInit == Init => ListingInv
<1> SUFFICES ASSUME Init PROVE ListingInv
  OBVIOUS
<1>1. TableTypeOK
  BY TableInitTypes DEF Init
<1>2. DOMAIN reader = Fields
  BY NoReaderFields DEF Init
<1>3. reader.kind = "none" /\ cursor = 0
  BY DEF Init, NoReader
<1> QED
  BY <1>1, <1>2, <1>3 DEF ListingInv, WalkInv, ToolInv

-----------------------------------------------------------------------------
(* The writers *)

LEMMA WriteKeeps ==
  ASSUME ListingInv, Write PROVE ListingInv'
<1>1. TableTypeOK' /\ RowsStay
  BY TableStep DEF ListingInv, Write
<1>2. reader' = [reader EXCEPT !.same = {i \in @ : matches'[i] = matches[i]}]
      /\ cursor' = cursor /\ backfilled' = backfilled
  BY DEF Write
<1>3. DOMAIN reader = Fields
  BY DEF ListingInv
<1>4. /\ DOMAIN reader' = Fields
      /\ reader'.kind = reader.kind /\ reader'.pc = reader.pc /\ reader'.limit = reader.limit
      /\ reader'.after = reader.after /\ reader'.start = reader.start /\ reader'.seen = reader.seen
      /\ reader'.asked = reader.asked /\ reader'.twice = reader.twice
      /\ reader'.descending = reader.descending /\ reader'.batch = reader.batch
  BY <1>2, <1>3 DEF Fields
<1>5. reader'.same = {i \in reader.same : matches'[i] = matches[i]}
  BY <1>2, <1>3 DEF Fields
<1>6. WalkInv'
  BY <1>1, <1>4 DEF ListingInv, WalkInv, RowsStay, Passed, Precedes
<1>7. ToolInv'
  <2>1. cursor' \in Nat /\ (reader'.kind # "tool" => cursor' = 0)
    BY <1>2, <1>4 DEF ListingInv, ToolInv
  <2>2. ASSUME reader.kind = "tool"
        PROVE  /\ reader'.same \subseteq DOMAIN matches'
               /\ \A i \in reader'.same : matches'[i].level \in Similar
               /\ \A i \in reader'.same : i <= cursor' => matches'[i].record \in backfilled'
    BY <1>1, <1>2, <1>5, <2>2 DEF ListingInv, ToolInv, RowsStay
  <2>3. ASSUME reader.kind = "tool", Holds PROVE BatchInv'
    BY <1>2, <1>4, <1>5, <2>3 DEF ListingInv, ToolInv, BatchInv, IsFirst
  <2> QED
    BY <2>1, <2>2, <2>3, <1>4 DEF ToolInv, Holds
<1> QED
  BY <1>1, <1>4, <1>6, <1>7 DEF ListingInv

-----------------------------------------------------------------------------
(* The steps of a walk *)

LEMMA StartWalkKeeps ==
  ASSUME ListingInv, NEW asked, NEW descending, NEW limit \in Limits,
         StartWalk(asked, descending, limit)
  PROVE  ListingInv'
<1> DEFINE rows == {i \in OfChain : Place[matches[i].record] \in asked}
<1>1. /\ reader.kind = "none"
      /\ reader' = [[NoReader EXCEPT !.kind = "walk", !.pc = "reading", !.asked = asked,
                      !.descending = descending, !.limit = limit]
                     EXCEPT !.start = rows, !.same = rows]
      /\ UNCHANGED <<matches, pending, lastId, cursor, backfilled>>
  BY DEF StartWalk, Starts, Reads
<1>2. /\ DOMAIN reader' = Fields
      /\ reader'.kind = "walk" /\ reader'.pc = "reading" /\ reader'.asked = asked
      /\ reader'.limit = limit /\ reader'.start = rows
      /\ reader'.after = 0 /\ reader'.seen = {} /\ reader'.twice = {}
  BY <1>1 DEF NoReader, Fields
<1>3. limit \in Nat
  BY ListingAssumption
<1>4. rows \subseteq DOMAIN matches
  BY DEF OfChain
<1>5. WalkInv'
  BY <1>1, <1>2, <1>3, <1>4 DEF WalkInv
<1>6. ToolInv'
  BY <1>1, <1>2 DEF ListingInv, ToolInv
<1> QED
  BY <1>1, <1>2, <1>5, <1>6 DEF ListingInv, TableTypeOK, Row

LEMMA WalkPageKeeps ==
  ASSUME ListingInv, WalkPage PROVE ListingInv'
<1> DEFINE desc == reader.descending
           after == reader.after
           rows == {i \in Listed : after = 0 \/ Precedes(after, i, desc)}
<1>1. reader.kind = "walk" /\ reader.pc = "reading" /\ DOMAIN reader = Fields
  BY DEF WalkPage, At, ListingInv
<1>2. PICK page \in Firsts(rows, ById, desc, reader.limit) :
        \/ /\ Cardinality(page) < reader.limit
           /\ Reads([Got(page) EXCEPT !.pc = "done"])
        \/ /\ Cardinality(page) = reader.limit
           /\ \E last \in page :
                /\ \A i \in page \ {last} : Precedes(i, last, desc)
                /\ Reads([Got(page) EXCEPT !.after = last])
  BY DEF WalkPage
<1>3. /\ page \subseteq rows
      /\ page # rows => Cardinality(page) = reader.limit
      /\ \A i \in page, k \in rows \ page : Precedes(i, k, desc)
  <2>1. rows \subseteq DOMAIN matches
    BY DEF Listed
  <2> QED
    BY <1>2, <2>1 DEF Firsts, ById
<1>4. /\ DOMAIN matches \subseteq Nat \ {0} /\ after \in Nat /\ reader.limit \in Nat
      /\ reader.start \subseteq DOMAIN matches /\ reader.seen \subseteq DOMAIN matches
      /\ reader.twice = {} /\ rows \subseteq DOMAIN matches
  BY <1>1, IdsAreNumbers DEF ListingInv, WalkInv, Listed
<1>5. \A i \in reader.start : i \in rows \/ (after # 0 /\ ~Precedes(after, i, desc))
  BY <1>1 DEF ListingInv, WalkInv, Listed
<1>6. \A i \in reader.start : after # 0 /\ ~Precedes(after, i, desc) => i \in reader.seen
  BY <1>1, <1>4 DEF ListingInv, WalkInv, Passed, Precedes
<1>7. reader.seen \cap page = {}
  <2>1. CASE after = 0
    BY <2>1, <1>1 DEF ListingInv, WalkInv
  <2>2. CASE after # 0
    <3>1. \A i \in reader.seen : Passed(i, after)
      BY <2>2, <1>1 DEF ListingInv, WalkInv
    <3>2. \A i \in page : Precedes(after, i, desc)
      BY <2>2, <1>3
    <3>3. \A i \in reader.seen : ~Precedes(after, i, desc)
      BY <3>1, <1>4 DEF Passed, Precedes
    <3> QED
      BY <3>2, <3>3
  <2> QED
    BY <2>1, <2>2
<1>8. /\ DOMAIN Got(page) = Fields
      /\ Got(page).kind = "walk" /\ Got(page).pc = "reading" /\ Got(page).limit = reader.limit
      /\ Got(page).after = after /\ Got(page).start = reader.start
      /\ Got(page).seen = reader.seen \cup page /\ Got(page).twice = {}
      /\ Got(page).asked = reader.asked /\ Got(page).descending = desc
  <2>1. /\ DOMAIN Got(page) = Fields
        /\ Got(page).kind = reader.kind /\ Got(page).pc = reader.pc /\ Got(page).limit = reader.limit
        /\ Got(page).after = after /\ Got(page).start = reader.start
        /\ Got(page).seen = reader.seen \cup page
        /\ Got(page).twice = reader.twice \cup (reader.seen \cap page)
        /\ Got(page).asked = reader.asked /\ Got(page).descending = desc
    BY <1>1 DEF Got, Fields
  <2> QED
    BY <2>1, <1>1, <1>4, <1>7
<1>9. CASE Cardinality(page) < reader.limit /\ Reads([Got(page) EXCEPT !.pc = "done"])
  <2>1. page = rows
    BY <1>9, <1>3, <1>4
  <2>2. /\ reader' = [Got(page) EXCEPT !.pc = "done"]
        /\ UNCHANGED <<matches, pending, lastId, cursor, backfilled>>
    BY <1>9 DEF Reads
  <2>3. /\ DOMAIN reader' = Fields
        /\ reader'.kind = "walk" /\ reader'.pc = "done" /\ reader'.limit = reader.limit
        /\ reader'.after = after /\ reader'.start = reader.start
        /\ reader'.seen = reader.seen \cup page /\ reader'.twice = {}
        /\ reader'.asked = reader.asked
    BY <2>2, <1>8 DEF Fields
  <2>4. reader.start \subseteq reader.seen \cup page
    BY <2>1, <1>5, <1>6
  <2>5. WalkInv'
    BY <2>2, <2>3, <2>4, <1>1, <1>3, <1>4 DEF WalkInv, ListingInv
  <2>6. ToolInv'
    BY <2>2, <2>3, <1>1 DEF ListingInv, ToolInv
  <2> QED
    BY <2>2, <2>3, <2>5, <2>6 DEF ListingInv, TableTypeOK, Row
<1>10. ASSUME NEW last \in page,
              \A i \in page \ {last} : Precedes(i, last, desc),
              Reads([Got(page) EXCEPT !.after = last])
       PROVE  ListingInv'
  <2>1. /\ reader' = [Got(page) EXCEPT !.after = last]
        /\ UNCHANGED <<matches, pending, lastId, cursor, backfilled>>
    BY <1>10 DEF Reads
  <2>2. /\ DOMAIN reader' = Fields
        /\ reader'.kind = "walk" /\ reader'.pc = "reading" /\ reader'.limit = reader.limit
        /\ reader'.after = last /\ reader'.start = reader.start
        /\ reader'.seen = reader.seen \cup page /\ reader'.twice = {}
        /\ reader'.asked = reader.asked /\ reader'.descending = desc
    BY <2>1, <1>8 DEF Fields
  <2>3. last \in Nat \ {0} /\ (after = 0 \/ Precedes(after, last, desc))
    BY <1>3, <1>4
  <2> DEFINE Before(i) == i = last \/ Precedes(i, last, desc)
  <2>4. \A i \in page : Before(i)
    BY <1>10
  <2>5. \A i \in reader.seen : Before(i)
    <3>1. CASE after = 0
      BY <3>1, <1>1 DEF ListingInv, WalkInv
    <3>2. CASE after # 0
      <4>1. \A i \in reader.seen : i = after \/ Precedes(i, after, desc)
        BY <3>2, <1>1 DEF ListingInv, WalkInv, Passed
      <4>2. Precedes(after, last, desc)
        BY <3>2, <2>3
      <4> QED
        BY <4>1, <4>2, <1>4, <2>3 DEF Precedes
    <3> QED
      BY <3>1, <3>2
  <2>6. \A i \in reader.start : Before(i) => i \in reader.seen \cup page
    <3> SUFFICES ASSUME NEW i \in reader.start, Before(i), i \in rows PROVE i \in page
      BY <1>5, <1>6
    <3>1. i \notin page => Precedes(last, i, desc)
      BY <1>3
    <3>2. ~Precedes(last, i, desc)
      BY <1>4, <2>3 DEF Precedes
    <3> QED
      BY <3>1, <3>2
  <2>7. WalkInv'
    <3>1. \A i : Passed(i, last)' <=> Before(i)
      BY <2>2 DEF Passed
    <3> QED
      BY <2>1, <2>2, <2>3, <2>4, <2>5, <2>6, <3>1, <1>1, <1>3, <1>4 DEF WalkInv, ListingInv, Passed
  <2>8. ToolInv'
    BY <2>1, <2>2, <1>1 DEF ListingInv, ToolInv
  <2> QED
    BY <2>1, <2>2, <2>7, <2>8 DEF ListingInv, TableTypeOK, Row
<1> QED
  BY <1>2, <1>9, <1>10

-----------------------------------------------------------------------------
(* The steps of the tool *)

\* The tool leaves the table and the walks alone.
LEMMA NotAWalk ==
  ASSUME ListingInv, UNCHANGED <<matches, pending, lastId>>,
         DOMAIN reader' = Fields, reader'.kind = "tool", ToolInv'
  PROVE  ListingInv'
BY DEF ListingInv, WalkInv, TableTypeOK, Row

LEMMA StartToolKeeps ==
  ASSUME ListingInv, StartTool PROVE ListingInv'
<1>1. /\ reader.kind = "none"
      /\ reader' = [[NoReader EXCEPT !.kind = "tool", !.pc = "selecting"]
                     EXCEPT !.start = Due, !.same = Due]
      /\ UNCHANGED <<matches, pending, lastId, cursor, backfilled>>
  BY DEF StartTool, Starts, Reads
<1>2. DOMAIN reader' = Fields /\ reader'.kind = "tool" /\ reader'.pc = "selecting" /\ reader'.same = Due
  BY <1>1 DEF NoReader, Fields
<1>3. cursor = 0 /\ cursor' = 0
  BY <1>1 DEF ListingInv, ToolInv
<1>4. \A i \in Due : i \in DOMAIN matches /\ matches[i].level \in Similar /\ ~(i <= 0)
  BY IdsAreNumbers DEF Due, ListingInv
<1>5. ToolInv'
  BY <1>1, <1>2, <1>3, <1>4 DEF ToolInv, Holds
<1> QED
  BY <1>1, <1>2, <1>5, NotAWalk

LEMMA SelectKeeps ==
  ASSUME ListingInv, Select PROVE ListingInv'
<1> DEFINE rows == {i \in Due : i > cursor}
<1>1. reader.kind = "tool" /\ reader.pc = "selecting" /\ DOMAIN reader = Fields
  BY DEF Select, At, ListingInv
<1>2. PICK page \in Firsts(rows, ById, FALSE, BatchSize) :
        Reads([reader EXCEPT !.batch = [i \in page |-> matches[i].record],
                             !.pc = IF page = {} THEN "done" ELSE "updating"])
  BY DEF Select
<1>3. /\ reader' = [reader EXCEPT !.batch = [i \in page |-> matches[i].record],
                                  !.pc = IF page = {} THEN "done" ELSE "updating"]
      /\ UNCHANGED <<matches, pending, lastId, cursor, backfilled>>
  BY <1>2 DEF Reads
<1>4. /\ DOMAIN reader' = Fields /\ reader'.kind = "tool"
      /\ reader'.pc = (IF page = {} THEN "done" ELSE "updating")
      /\ reader'.batch = [i \in page |-> matches[i].record] /\ reader'.same = reader.same
  BY <1>1, <1>3 DEF Fields
<1>5. rows \subseteq DOMAIN matches /\ DOMAIN matches \subseteq Nat
  BY IdsAreNumbers DEF Due, ListingInv
<1>6. page \subseteq rows /\ \A i \in page, k \in rows \ page : i < k
  BY <1>2, <1>5 DEF Firsts, ById, Precedes
<1>7. /\ reader.same \subseteq DOMAIN matches /\ cursor \in Nat
      /\ \A i \in reader.same : matches[i].level \in Similar
      /\ \A i \in reader.same : i <= cursor => matches[i].record \in backfilled
  BY <1>1 DEF ListingInv, ToolInv
<1>8. BatchInv'
  <2>1. DOMAIN reader'.batch = page
    BY <1>4
  <2>2. \A i \in page : reader'.batch[i] = matches[i].record
    BY <1>4
  <2>3. \A i \in reader.same, k \in page : i > cursor /\ i <= k => i \in page
    <3> SUFFICES ASSUME NEW i \in reader.same, NEW k \in page, i > cursor, i <= k, i \notin page
                 PROVE  FALSE
      OBVIOUS
    <3>1. i \in rows
      BY <1>7 DEF Due
    <3>2. k < i /\ k \in Nat /\ i \in Nat
      BY <3>1, <1>5, <1>6
    <3> QED
      BY <3>2
  <2>4. page \subseteq Nat /\ \A i \in page : i > cursor
    BY <1>5, <1>6
  <2>5. reader'.pc # "saving"
    BY <1>4
  <2> QED
    BY <2>1, <2>2, <2>3, <2>4, <2>5, <1>3, <1>4 DEF BatchInv
<1>9. ToolInv'
  BY <1>3, <1>4, <1>7, <1>8 DEF ToolInv
<1> QED
  BY <1>3, <1>4, <1>9, NotAWalk

LEMMA BackfillKeeps ==
  ASSUME ListingInv, Backfill PROVE ListingInv'
<1>1. reader.kind = "tool" /\ reader.pc = "updating" /\ DOMAIN reader = Fields
  BY DEF Backfill, At, ListingInv
<1>2. PICK f \in DOMAIN reader.batch : IsFirst(f) /\ backfilled' = backfilled \cup {reader.batch[f]}
  BY DEF Backfill
<1>3. reader' = [reader EXCEPT !.pc = "saving"] /\ UNCHANGED <<matches, pending, lastId, writes, cursor>>
  BY DEF Backfill
<1>4. /\ DOMAIN reader' = Fields /\ reader'.kind = "tool" /\ reader'.pc = "saving"
      /\ reader'.batch = reader.batch /\ reader'.same = reader.same
  BY <1>1, <1>3 DEF Fields
<1>5. BatchInv /\ cursor \in Nat
  BY <1>1 DEF ListingInv, ToolInv, Holds
<1>6. \A i \in DOMAIN reader.batch : IsFirst(i) => i = f
  BY <1>2, <1>5 DEF IsFirst, BatchInv
<1>7. \A i : IsFirst(i)' <=> IsFirst(i)
  BY <1>4 DEF IsFirst
<1>8. BatchInv'
  BY <1>2, <1>3, <1>4, <1>5, <1>6, <1>7 DEF BatchInv
<1>9. ToolInv'
  BY <1>1, <1>2, <1>3, <1>4, <1>5, <1>8 DEF ListingInv, ToolInv
<1> QED
  BY <1>3, <1>4, <1>9, NotAWalk

LEMMA SaveKeeps ==
  ASSUME ListingInv, Save PROVE ListingInv'
<1>1. reader.kind = "tool" /\ reader.pc = "saving" /\ DOMAIN reader = Fields
  BY DEF Save, At, ListingInv
<1>2. PICK f \in DOMAIN reader.batch :
        /\ IsFirst(f) /\ cursor' = f
        /\ reader' = [reader EXCEPT !.batch = Without(reader.batch, f),
                        !.pc = IF Without(reader.batch, f) = <<>> THEN "selecting" ELSE "updating"]
  BY DEF Save
<1>3. UNCHANGED <<matches, pending, lastId, writes, backfilled>>
  BY DEF Save
<1>4. /\ DOMAIN reader' = Fields /\ reader'.kind = "tool" /\ reader'.pc \in {"selecting", "updating"}
      /\ reader'.batch = Without(reader.batch, f) /\ reader'.same = reader.same
  BY <1>1, <1>2 DEF Fields
<1>5. BatchInv /\ cursor \in Nat
  BY <1>1 DEF ListingInv, ToolInv, Holds
<1>6. /\ DOMAIN reader'.batch = DOMAIN reader.batch \ {f}
      /\ \A i \in DOMAIN reader'.batch : reader'.batch[i] = reader.batch[i]
  <2>1. /\ DOMAIN Without(reader.batch, f) = DOMAIN reader.batch \ {f}
        /\ \A i \in DOMAIN reader.batch \ {f} : Without(reader.batch, f)[i] = reader.batch[i]
    BY WithoutRemoves
  <2> QED
    BY <2>1, <1>4
<1>7. /\ f \in Nat /\ f > cursor /\ DOMAIN reader.batch \subseteq Nat
      /\ \A i \in DOMAIN reader.batch : f <= i
      /\ reader.batch[f] \in backfilled
  BY <1>1, <1>2, <1>5 DEF BatchInv, IsFirst
<1>8. /\ reader.same \subseteq DOMAIN matches /\ DOMAIN matches \subseteq Nat
      /\ \A i \in reader.same : matches[i].level \in Similar
      /\ \A i \in reader.same : i <= cursor => matches[i].record \in backfilled
  BY <1>1, IdsAreNumbers DEF ListingInv, ToolInv
<1>9. \A i \in reader.same : i <= f => matches[i].record \in backfilled
  <2> SUFFICES ASSUME NEW i \in reader.same, i <= f, i > cursor
               PROVE  matches[i].record \in backfilled
    BY <1>5, <1>8
  <2>1. i \in DOMAIN reader.batch
    BY <1>5, <1>2 DEF BatchInv
  <2>2. i = f
    BY <2>1, <1>7, <1>8
  <2>3. reader.batch[f] = matches[f].record
    BY <2>1, <2>2, <1>5 DEF BatchInv
  <2> QED
    BY <2>2, <2>3, <1>7
<1>10. BatchInv'
  <2>1. \A i \in DOMAIN reader'.batch : i > f
    BY <1>6, <1>7
  <2>2. \A i \in reader.same, k \in DOMAIN reader'.batch :
          i > f /\ i <= k => i \in DOMAIN reader'.batch
    <3> SUFFICES ASSUME NEW i \in reader.same, NEW k \in DOMAIN reader'.batch, i > f, i <= k
                 PROVE  i \in DOMAIN reader'.batch
      OBVIOUS
    <3>1. i \in Nat /\ i > cursor /\ k \in DOMAIN reader.batch /\ i # f
      BY <1>5, <1>6, <1>7, <1>8
    <3>2. i \in DOMAIN reader.batch
      BY <3>1, <1>5 DEF BatchInv
    <3> QED
      BY <3>1, <3>2, <1>6
  <2>3. \A i \in DOMAIN reader'.batch \cap reader.same : reader'.batch[i] = matches[i].record
    BY <1>5, <1>6 DEF BatchInv
  <2> QED
    BY <2>1, <2>2, <2>3, <1>2, <1>3, <1>4, <1>6, <1>7 DEF BatchInv
<1>11. ToolInv'
  BY <1>2, <1>3, <1>4, <1>7, <1>8, <1>9, <1>10 DEF ToolInv
<1> QED
  BY <1>3, <1>4, <1>11, NotAWalk

\* An interrupted tool forgets its batch and keeps what it has saved.
LEMMA InterruptKeeps ==
  ASSUME ListingInv, Die \/ Restart PROVE ListingInv'
<1>1. reader.kind = "tool" /\ DOMAIN reader = Fields
  BY DEF Die, Restart, At, ListingInv
<1>2. UNCHANGED <<matches, pending, lastId, cursor, backfilled>>
  BY DEF Die, Restart, Reads
<1>3. \/ reader' = [reader EXCEPT !.pc = "dead", !.batch = <<>>]
      \/ reader' = [reader EXCEPT !.pc = "selecting"]
  BY DEF Die, Restart, Reads
<1>4. DOMAIN reader' = Fields /\ reader'.kind = "tool" /\ reader'.same = reader.same
      /\ reader'.pc \in {"dead", "selecting"}
  BY <1>1, <1>3 DEF Fields
<1>5. ToolInv'
  BY <1>1, <1>2, <1>4 DEF ListingInv, ToolInv, Holds
<1> QED
  BY <1>2, <1>4, <1>5, NotAWalk

LEMMA ListingInvStep ==
  ASSUME ListingInv, [Next]_vars PROVE ListingInv'
<1>1. CASE UNCHANGED vars
  BY <1>1 DEF vars, ListingInv, TableTypeOK, Row, WalkInv, Passed, ToolInv, Holds, BatchInv, IsFirst
<1>2. CASE Write
  BY <1>2, WriteKeeps
<1>3. CASE Walk
  BY <1>3, StartWalkKeeps, WalkPageKeeps DEF Walk
<1>4. CASE Tool
  BY <1>4, StartToolKeeps, SelectKeeps, BackfillKeeps, SaveKeeps, InterruptKeeps DEF Tool
<1> QED
  BY <1>1, <1>2, <1>3, <1>4 DEF Next

-----------------------------------------------------------------------------
(* Theorems *)

\* The inductive invariant of the readers.
THEOREM ListingInvariance == Spec => []ListingInv
<1> QED
  BY ListingInvInit, ListingInvStep, PTL DEF Spec

\* sourcify_matches: whatever is inserted, committed late, rolled back or
\* replaced, a row that has been seen stays, under its id and for its address.
THEOREM MatchesStay == Spec => [][RowsStay]_vars
<1>1. ListingInv /\ [Next]_vars => [RowsStay]_vars
  <2> SUFFICES ASSUME ListingInv, Next PROVE RowsStay
    OBVIOUS
  <2>1. CASE Write
    BY <2>1, TableStep DEF Write, ListingInv
  <2>2. CASE Walk \/ Tool
    <3>1. matches' = matches
      BY <2>2 DEF Walk, Tool, WalkPage, StartWalk, StartTool, Select, Backfill, Save,
             Die, Restart, Starts, Reads
    <3> QED
      BY <3>1 DEF RowsStay
  <2> QED
    BY <2>1, <2>2 DEF Next
<1> QED
  BY <1>1, ListingInvariance, PTL DEF Spec

\* A client of GET /contracts/{chain} who goes on from the last match it got
\* gets every match that was there when it began, and none twice, whatever
\* filter, order and page size it uses and whatever is written meanwhile.
THEOREM WalkIsComplete == Spec => []WalkSeesAll
<1>1. ListingInv => WalkSeesAll
  BY DEF ListingInv, WalkInv, WalkSeesAll
<1> QED
  BY <1>1, ListingInvariance, PTL

\* However often the backfill tool is interrupted: it never goes past a similar
\* match that was there when it was started, and not written since, without
\* having written its values.
THEOREM ToolIsComplete == Spec => []ToolSkipsNothing
<1>1. ListingInv => ToolSkipsNothing
  BY DEF ListingInv, ToolInv, ToolSkipsNothing
<1> QED
  BY <1>1, ListingInvariance, PTL
=============================================================================
