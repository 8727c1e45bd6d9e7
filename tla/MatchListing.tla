----------------------------- MODULE MatchListing -----------------------------
(***************************************************************************)
(* Those who read sourcify_matches page by page while it is written:       *)
(*   walk  a client of GET /contracts/{chain}, which gives the id of the   *)
(*         last match it got to get the next ones                          *)
(*   tool  backfill-data-tool, which goes through the similar matches and  *)
(*         keeps the last id in the config table                           *)
(* Each statement is a step, the writers of MatchTable run between them.   *)
(* One reader runs in a behaviour; they share nothing.                     *)
(***************************************************************************)
EXTENDS MatchTable, FiniteSets

CONSTANTS
  Chain,      (* the places of the chain                                   *)
  Filters,    (* the addresses a client may ask for: sets of places        *)
  Limits,     (* page sizes                                                *)
  Similar,    (* the levels of a match copied from another chain           *)
  BatchSize,  (* of the tool: limit 10                                     *)
  MaxIds,     (* bound on the ids                                          *)
  MaxWrites   (* bound on the writes after the reader has started          *)

Kinds == {"walk", "tool"}

ASSUME ListingAssumption ==
  /\ Records \subseteq Nat
  /\ Similar \subseteq Levels
  /\ Filters \subseteq SUBSET Chain
  /\ Limits \subseteq Nat \ {0}
  /\ BatchSize \in Nat \ {0}
  /\ MaxIds \in Nat
  /\ MaxWrites \in Nat

VARIABLES
  reader,     (* the reader, and what it has got                           *)
  writes,     (* writes since it started                                   *)
  cursor,     (* backfill_transformation_values_id in the config table     *)
  backfilled  (* the verified contracts whose values the tool has written  *)

vars == <<matches, pending, lastId, reader, writes, cursor, backfilled>>

-----------------------------------------------------------------------------
(* What a SELECT returns *)

Listed == {i \in DOMAIN matches : Place[matches[i].record] \in reader.asked}

OfChain == {i \in DOMAIN matches : Place[matches[i].record] \in Chain}

Precedes(x, y, descending) == IF descending THEN x > y ELSE x < y

\* ORDER BY key LIMIT size: the first rows, all of them if they are fewer.
Firsts(rows, key, descending, size) ==
  {page \in SUBSET rows :
     /\ Cardinality(page) <= size
     /\ page # rows => Cardinality(page) = size
     /\ \A i \in page, k \in rows \ page : Precedes(key[i], key[k], descending)}

ById == [i \in DOMAIN matches |-> i]
ByRecord == [i \in DOMAIN matches |-> matches[i].record]

-----------------------------------------------------------------------------

NoReader ==
  [kind |-> "none", pc |-> "none", asked |-> Chain, descending |-> FALSE, limit |-> 1,
   after |-> 0,      \* the last id a walk has got, 0: none
   seen |-> {},      \* the ids returned
   twice |-> {},     \* those returned more than once
   batch |-> <<>>,   \* verified_contract_id by id, as selected by the tool
   start |-> {},     \* what there was to return when the reader started
   same |-> {}]      \* those of start whose row has not been written since

Init ==
  /\ TableInit
  /\ reader = NoReader
  /\ writes = 0
  /\ cursor = 0
  /\ backfilled = {}

\* The statements of the writers.
Write ==
  /\ TableNext
  /\ lastId' <= MaxIds
  /\ \/ reader.kind = "none" /\ writes' = 0
     \/ /\ reader.kind # "none" /\ writes < MaxWrites
        /\ writes' = writes + 1
  /\ reader' = [reader EXCEPT !.same = {i \in @ : matches'[i] = matches[i]}]
  /\ UNCHANGED <<cursor, backfilled>>

Reads(r) ==
  /\ reader' = r
  /\ UNCHANGED <<matches, pending, lastId, writes, cursor, backfilled>>

Starts(r, rows) ==
  /\ reader.kind = "none"
  /\ Reads([r EXCEPT !.start = rows, !.same = rows])

At(kind, pc) == reader.kind = kind /\ reader.pc = pc

Got(page) == [reader EXCEPT !.seen = @ \cup page, !.twice = @ \cup (reader.seen \cap page)]

-----------------------------------------------------------------------------
(* listContractsEndpoint, getContractsByChainId, getSourcifyMatchesByChain *)

StartWalk(asked, descending, limit) ==
  Starts([NoReader EXCEPT !.kind = "walk", !.pc = "reading", !.asked = asked,
                          !.descending = descending, !.limit = limit],
         {i \in OfChain : Place[matches[i].record] \in asked})

\* A plausible slip: the rows in the order of the verified contracts, as in the
\* v1 listing that nothing calls.
WalkPageByRecord ==
  LET rows == {i \in Listed : \/ reader.after = 0
                              \/ Precedes(reader.after, matches[i].record, reader.descending)}
  IN
  /\ At("walk", "reading")
  /\ \E page \in Firsts(rows, ByRecord, reader.descending, reader.limit) :
       \/ /\ Cardinality(page) < reader.limit
          /\ Reads([Got(page) EXCEPT !.pc = "done"])
       \/ /\ Cardinality(page) = reader.limit
          /\ \E last \in page :
               /\ \A i \in page \ {last} : Precedes(matches[i].record, matches[last].record, reader.descending)
               /\ Reads([Got(page) EXCEPT !.after = matches[last].record])

\* The client goes on from the last match until a page is short.
WalkPage ==
  LET rows == {i \in Listed : \/ reader.after = 0
                              \/ Precedes(reader.after, i, reader.descending)}
  IN
  /\ At("walk", "reading")
  /\ \E page \in Firsts(rows, ById, reader.descending, reader.limit) :
       \/ /\ Cardinality(page) < reader.limit
          /\ Reads([Got(page) EXCEPT !.pc = "done"])
       \/ /\ Cardinality(page) = reader.limit
          /\ \E last \in page :
               /\ \A i \in page \ {last} : Precedes(i, last, reader.descending)
               /\ Reads([Got(page) EXCEPT !.after = last])

-----------------------------------------------------------------------------
(* backfillTransformationValues *)

Due == {i \in DOMAIN matches : matches[i].level \in Similar}

StartTool == Starts([NoReader EXCEPT !.kind = "tool", !.pc = "selecting"], Due)

Select ==
  /\ At("tool", "selecting")
  /\ \E page \in Firsts({i \in Due : i > cursor}, ById, FALSE, BatchSize) :
       Reads([reader EXCEPT !.batch = [i \in page |-> matches[i].record],
                            !.pc = IF page = {} THEN "done" ELSE "updating"])

IsFirst(i) == i \in DOMAIN reader.batch /\ \A k \in DOMAIN reader.batch : i <= k

\* updateVerifiedContract: the creation code of the chain, then the row.
Backfill ==
  /\ At("tool", "updating")
  /\ \E i \in DOMAIN reader.batch :
       IsFirst(i) /\ backfilled' = backfilled \cup {reader.batch[i]}
  /\ reader' = [reader EXCEPT !.pc = "saving"]
  /\ UNCHANGED <<matches, pending, lastId, writes, cursor>>

\* A plausible slip: the batch is saved as a whole, before its rows are written.
SaveTheLast ==
  /\ At("tool", "saving")
  /\ cursor' \in DOMAIN reader.batch
  /\ \A k \in DOMAIN reader.batch : k <= cursor'
  /\ reader' = [reader EXCEPT !.batch = <<>>, !.pc = "selecting"]
  /\ UNCHANGED <<matches, pending, lastId, writes, backfilled>>

\* KV.saveNumber
Save ==
  /\ At("tool", "saving")
  /\ \E i \in DOMAIN reader.batch :
       /\ IsFirst(i)
       /\ cursor' = i
       /\ LET left == Without(reader.batch, i)
          IN  reader' = [reader EXCEPT !.batch = left,
                           !.pc = IF left = <<>> THEN "selecting" ELSE "updating"]
  /\ UNCHANGED <<matches, pending, lastId, writes, backfilled>>

\* A creation code that cannot be found ends the process, as a signal does;
\* somebody starts it again.
Die ==
  /\ reader.kind = "tool" /\ reader.pc \in {"selecting", "updating", "saving"}
  /\ Reads([reader EXCEPT !.pc = "dead", !.batch = <<>>])

Restart == At("tool", "dead") /\ Reads([reader EXCEPT !.pc = "selecting"])

-----------------------------------------------------------------------------

Walk == WalkPage \/ \E f \in Filters, d \in BOOLEAN, n \in Limits : StartWalk(f, d, n)

Tool == StartTool \/ Select \/ Backfill \/ Save \/ Die \/ Restart

Next == Write \/ Walk \/ Tool

Spec == Init /\ [][Next]_vars

-----------------------------------------------------------------------------
(* Properties *)

\* The rows the tool has selected and not finished are those after the saved id.
TypeOK ==
  /\ TableTypeOK
  /\ reader.kind \in Kinds \cup {"none"}
  /\ reader.limit \in Nat \ {0}
  /\ reader.start \subseteq DOMAIN matches
  /\ reader.same \subseteq reader.start
  /\ reader.seen \subseteq DOMAIN matches
  /\ cursor \in 0..lastId
  /\ \A i \in DOMAIN reader.batch : i > cursor /\ i <= lastId
  /\ backfilled \subseteq Records

\* The walk of a client gives each match that was there when it began, and no
\* match twice, whatever is inserted and replaced meanwhile.
WalkSeesAll ==
  reader.kind = "walk" =>
    /\ reader.twice = {}
    /\ reader.pc = "done" => reader.start \subseteq reader.seen

\* The tool never goes past a similar match that was there when it was first
\* started and has not been written since without having written its values,
\* wherever it was interrupted.
ToolSkipsNothing ==
  reader.kind = "tool" =>
    \A i \in reader.same : i <= cursor => matches[i].record \in backfilled
=============================================================================
