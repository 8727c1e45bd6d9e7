------------------------------ MODULE MatchTable ------------------------------
(***************************************************************************)
(* What sourcify_matches promises to those who read it by id: ids grow     *)
(* with the order of the inserts, a row keeps its id when its match is     *)
(* replaced, no row ever disappears, and an id may show up after a larger  *)
(* one did, because it is taken at the insert and seen after the commit.   *)
(***************************************************************************)
EXTENDS Naturals, Functions

CONSTANTS Records,   (* what verified_contract_id may refer to             *)
          Place,     (* the chain and the address of each                  *)
          Levels     (* the statuses a match may have                      *)

VARIABLES matches,   (* the rows a reader sees, by id                      *)
          pending,   (* the rows of transactions that have not committed   *)
          lastId     (* AUTO_INCREMENT of the table                        *)

tableVars == <<matches, pending, lastId>>

Row == [record : Records, level : Levels]

\* verified_contract_id is unique, among the pending rows as well.
Taken(v) == \/ \E i \in DOMAIN matches : matches[i].record = v
            \/ \E i \in DOMAIN pending : pending[i].record = v

TableTypeOK ==
  /\ lastId \in Nat
  /\ DOMAIN matches \subseteq 1..lastId
  /\ DOMAIN pending \subseteq 1..lastId
  /\ DOMAIN matches \cap DOMAIN pending = {}
  /\ \A i \in DOMAIN matches : matches[i] \in Row
  /\ \A i \in DOMAIN pending : pending[i] \in Row

TableInit == /\ matches = <<>>
             /\ pending = <<>>
             /\ lastId = 0

-----------------------------------------------------------------------------

With(rows, i, row) == [k \in DOMAIN rows \cup {i} |-> IF k = i THEN row ELSE rows[k]]

Without(rows, i) == Restrict(rows, DOMAIN rows \ {i})

\* An INSERT that is its own transaction.
InsertNow(row) ==
  /\ ~Taken(row.record)
  /\ lastId' = lastId + 1
  /\ matches' = With(matches, lastId + 1, row)
  /\ UNCHANGED pending

\* An INSERT inside a transaction, which then commits or not.
InsertPending(row) ==
  /\ ~Taken(row.record)
  /\ lastId' = lastId + 1
  /\ pending' = With(pending, lastId + 1, row)
  /\ UNCHANGED matches

CommitInsert(i) ==
  /\ i \in DOMAIN pending
  /\ matches' = With(matches, i, pending[i])
  /\ pending' = Without(pending, i)
  /\ UNCHANGED lastId

RollBackInsert(i) ==
  /\ i \in DOMAIN pending
  /\ pending' = Without(pending, i)
  /\ UNCHANGED <<matches, lastId>>

\* The match becomes that of another verified contract of its address, or gets
\* another level.
Replace(i, row) ==
  /\ i \in DOMAIN matches
  /\ Place[row.record] = Place[matches[i].record]
  /\ row.record = matches[i].record \/ ~Taken(row.record)
  /\ matches' = [matches EXCEPT ![i] = row]
  /\ UNCHANGED <<pending, lastId>>

\* A refused INSERT has taken its id all the same.
LoseId ==
  /\ lastId' = lastId + 1
  /\ UNCHANGED <<matches, pending>>

TableNext ==
  \/ \E row \in Row : InsertNow(row) \/ InsertPending(row)
  \/ \E i \in DOMAIN pending : CommitInsert(i) \/ RollBackInsert(i)
  \/ \E i \in DOMAIN matches, row \in Row : Replace(i, row)
  \/ LoseId

TableSpec == TableInit /\ [][TableNext]_tableVars
=============================================================================
