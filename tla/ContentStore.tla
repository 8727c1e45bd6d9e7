----------------------------- MODULE ContentStore -----------------------------
(***************************************************************************)
(* The transactions of StoreBase on the content-addressed tables, one      *)
(* statement per step: insertNewVerifiedContract,                          *)
(* updateExistingVerifiedContract and insertNewSimilarContract, with the   *)
(* statements on sourcify_matches that follow them.                        *)
(*                                                                         *)
(* Every INSERT has ON DUPLICATE KEY UPDATE.  MySQL counts 1 row for an    *)
(* insert, 2 for a change and 0 for a row that already holds the values;   *)
(* Dao takes 0 as "exists" and SELECTs the row in the same transaction.    *)
(* The database is InnoDB at REPEATABLE READ, as Sequelize leaves it: a    *)
(* statement that writes waits for the row locks of other transactions and *)
(* works on the latest rows, a SELECT reads the snapshot that the first    *)
(* SELECT of its transaction took, and the transaction's own writes.       *)
(*                                                                         *)
(* The comparison with the match that is there is in VerificationJobs:     *)
(* here every export may be stored.  Rows are named by their unique key.   *)
(***************************************************************************)
EXTENDS Naturals, FiniteSets, Sequences, Functions

CONSTANTS
  Jobs,       (* calls of storeVerification or insertNewSimilarContract    *)
  Exports,    (* the VerificationExports there may be                      *)
  Addresses,  (* pairs of a chain and an address                           *)
  Deployed,   (* the runtime code at each address                          *)
  Codes, Sources, Paths,
  Versions,   (* compiler versions: of one compiler and language           *)
  Settings,   (* settings, names, artifacts: what compiled_contracts holds
                 beside its key                                            *)
  Transactions,
  None,
  MaxFailures (* bound on lost connections                                 *)

Statuses == {"perfect", "partial", None}

ExportType ==
  [address : Addresses, onCreation : Codes \cup {None}, onRuntime : Codes,
   creation : Codes, runtime : Codes, version : Versions,
   settings : Settings, files : UNION {[P -> Sources] : P \in (SUBSET Paths) \ {{}}},
   transaction : Transactions \cup {None},
   creationMatch : Statuses, runtimeMatch : Statuses,
   libraries : BOOLEAN]

ASSUME StoreAssumption ==
  /\ Exports \subseteq ExportType
  /\ Deployed \in [Addresses -> Codes]
  /\ \A e \in Exports : e.onRuntime = Deployed[e.address]
  /\ MaxFailures \in Nat

VARIABLES
  db,        (* the committed rows, by key                                 *)
  task,      (* the state of each job                                      *)
  lastId,    (* AUTO_INCREMENT of sourcify_matches                         *)
  failures

vars == <<db, task, lastId, failures>>

-----------------------------------------------------------------------------
(* The keys and the values of the rows *)

Code(c) == <<"code", c>>
\* A unique key does not compare NULLs: each job without a creation code
\* inserts a row of its own.
BareContract(j, e) == <<"contract", j, e.onRuntime>>
Contract(j, e) == IF e.onCreation = None THEN BareContract(j, e)
                  ELSE <<"contract", e.onCreation, e.onRuntime>>
Deployment(a) == <<"deployment", a>>
Compiled(e) == <<"compiled", e.version, e.creation, e.runtime>>
Source(s) == <<"source", s>>
File(comp, path) == <<"file", comp, path>>
Verified(comp, a) == <<"verified", comp, a>>
Match(v) == <<"match", v>>

IsRow(key, table) == key[1] = table

\* The columns of verified_contracts that getDatabaseColumnsFromVerification
\* makes of a status: the match, and whether the metadata matches.
Flags(status) == [match |-> status \in {"perfect", "partial"},
                  metadata |-> status = "perfect"]

Verdict(e) == [creation |-> Flags(e.creationMatch), runtime |-> Flags(e.runtimeMatch)]

Level(e) == [creation |-> e.creationMatch, runtime |-> e.runtimeMatch]

-----------------------------------------------------------------------------
(* What a transaction sees *)

\* Rows by key laid over others: those of the first prevail.
Over(rows, others) ==
  [k \in DOMAIN rows \cup DOMAIN others |-> IF k \in DOMAIN rows THEN rows[k] ELSE others[k]]

OneRow(key, value) == [k \in {key} |-> value]

\* The latest rows, with the transaction's own.
Latest(t) == Over(t.writes, db)

Open(t) == t.pc = "transaction"

\* Another transaction holds one of the rows.
Locked(j, keys) == \E k \in Jobs \ {j} : task[k].locks \cap keys # {}

\* The snapshot of the first SELECT stays that of the transaction.
Snapshot(t) == IF t.snapshot = None THEN db ELSE t.snapshot

\* A plausible slip, of which the code has one: the SELECT is not part of the
\* transaction.
VisibleElsewhere(t) == db

Visible(t) == Over(t.writes, Snapshot(t))

-----------------------------------------------------------------------------
(* The statements of the three transactions, in the order of the code *)

\* No creation code on the chain, no row for it.
OnCreation(e) == IF e.onCreation = None THEN <<>> ELSE <<"onCreation">>

InsertStatements(e) ==
  <<"creation", "runtime">> \o OnCreation(e) \o
  <<"onRuntime", "contract", "deployment", "compiled", "sources", "files", "verified">>

\* A plausible slip: the contract is taken to be there already.
UpdateStatementsShort(e) ==
  OnCreation(e) \o
  <<"onRuntime", "deployment", "creation", "runtime", "compiled", "sources", "files", "verified">>

UpdateStatements(e) ==
  OnCreation(e) \o
  <<"onRuntime", "contract", "deployment", "creation", "runtime", "compiled", "sources",
    "files", "verified">>

SimilarStatements == <<"deployment", "verified", "oldMatch", "match">>

\* Library placeholders are zeroed where a match recorded them; one that is
\* left is no hex string, and keccak256 throws.
Hashable(e) == e.libraries => e.creationMatch # None /\ e.runtimeMatch # None

\* The rows a statement inserts, or finds.
Rows(j, s) ==
  LET t == task[j]
      e == t.export
  IN CASE s = "creation"   -> OneRow(Code(e.creation), TRUE)
       [] s = "runtime"    -> OneRow(Code(e.runtime), TRUE)
       [] s = "onCreation" -> OneRow(Code(e.onCreation), TRUE)
       [] s = "onRuntime"  -> OneRow(Code(e.onRuntime), TRUE)
       [] s = "contract"   -> OneRow(t.contract, TRUE)
       [] s = "sources"    -> [k \in {Source(f) : f \in Range(e.files)} |-> TRUE]
       [] s = "files"      -> [k \in {File(t.comp, p) : p \in DOMAIN e.files} |-> e.files[k[3]]]
       [] s = "compiled"   -> OneRow(Compiled(e), e.settings)
       [] s = "verified"   -> OneRow(t.verified, t.verdict)
       [] s = "match"      -> OneRow(Match(t.verified), [id |-> lastId + 1, level |-> t.level])
       [] s = "deployment" -> OneRow(Deployment(e.address),
            [contract |-> t.contract,
             transaction |-> IF t.similar THEN None ELSE e.transaction])
       [] OTHER            -> <<>>

NextRows(j) == IF task[j].todo = <<>> THEN <<>> ELSE Rows(j, Head(task[j].todo))

-----------------------------------------------------------------------------
(* A job *)

NewTask == [pc |-> "new", export |-> None, similar |-> FALSE, todo |-> <<>>, writes |-> <<>>, locks |-> {},
            snapshot |-> None, contract |-> None, comp |-> None,
            verified |-> None, verdict |-> None, level |-> None,
            lacks |-> {}, old |-> None, found |-> FALSE, raced |-> FALSE, why |-> "none"]

Init ==
  /\ db = <<>>
  /\ task = [j \in Jobs |-> NewTask]
  /\ lastId = 0
  /\ failures = 0

\* A plausible slip: the connection goes back to the pool with its locks.
EndedLocked(t, pc, why) ==
  [t EXCEPT !.pc = pc, !.why = why, !.todo = <<>>, !.writes = <<>>, !.snapshot = None]

\* The task with its transaction ended.
Ended(t, pc, why) ==
  [t EXCEPT !.pc = pc, !.why = why, !.todo = <<>>, !.writes = <<>>,
            !.locks = {}, !.snapshot = None]

\* A plausible slip: the statements are not given the transaction.
ThrowsHalfway(j, why) ==
  /\ task' = [task EXCEPT ![j] = Ended(@, "failed", why)]
  /\ db' = Over(task[j].writes, db)
  /\ UNCHANGED <<lastId, failures>>

\* The transaction is rolled back and the call throws.
Throws(j, why) ==
  /\ task' = [task EXCEPT ![j] = Ended(@, "failed", why)]
  /\ UNCHANGED <<db, lastId, failures>>

Goes(j, t) ==
  /\ task' = [task EXCEPT ![j] = t]
  /\ UNCHANGED <<db, lastId, failures>>

Active(t) == t.pc \notin {"new", "stored", "failed"}

\* BEGIN; raced is a history variable: another call is or was under way.
Begins(j, t) ==
  LET others == {k \in Jobs \ {j} : Active(task[k])}
  IN  /\ task' = [k \in Jobs |->
                    IF k = j THEN [t EXCEPT !.pc = "transaction", !.raced = others # {}]
                    ELSE [task[k] EXCEPT !.raced = @ \/ k \in others]]
      /\ UNCHANGED <<db, lastId, failures>>

\* The statement is over: its rows are locked, those that are new or changed
\* are written.
Done(t, rows, written) ==
  [t EXCEPT !.todo = Tail(@), !.locks = @ \cup DOMAIN rows,
            !.writes = Over(Restrict(rows, written), @)]

-----------------------------------------------------------------------------
(* insertOrUpdateVerification and insertNewSimilarContract, up to BEGIN *)

VerifiedRows(a) == {v \in DOMAIN db : IsRow(v, "verified") /\ v[3] = a}

\* The update replaces the verified contract that was found, whichever is first.
BeginStore(j, e) ==
  LET existing == VerifiedRows(e.address)
      Begin(statements, old) ==
        Begins(j, [task[j] EXCEPT !.export = e,
                     !.todo = statements, !.contract = Contract(j, e),
                     !.verdict = Verdict(e), !.level = Level(e), !.old = old])
  IN
  /\ task[j].pc = "new"
  /\ \/ ~Hashable(e) /\ Throws(j, "unhashable")
     \/ Hashable(e) /\ existing = {} /\ Begin(InsertStatements(e), None)
     \/ Hashable(e) /\ \E v \in existing : Begin(UpdateStatements(e), v)

\* A plausible slip: any verified contract is similar.
BeginSimilarToAny(j, a) ==
  LET Begin(d, v) ==
        Begins(j, [task[j] EXCEPT !.similar = TRUE,
                   !.export = [address |-> a, onRuntime |-> Deployed[a]],
                   !.todo = SimilarStatements, !.contract = db[d].contract,
                   !.comp = v[2], !.verified = Verified(v[2], a),
                   !.verdict = db[v], !.level = db[Match(v)].level])
  IN
  /\ task[j].pc = "new"
  /\ \E d \in {k \in DOMAIN db : IsRow(k, "deployment")} : \E v \in VerifiedRows(d[2]) :
       Match(v) \in DOMAIN db /\ Begin(d, v)

\* The deployment with the smallest id among those with the code is any here.
BeginSimilar(j, a) ==
  LET code == Deployed[a]
      same == {d \in DOMAIN db : IsRow(d, "deployment") /\ db[d].contract[3] = code}
      Begin(d, v) ==
        Begins(j, [task[j] EXCEPT !.similar = TRUE,
                   !.export = [address |-> a, onRuntime |-> code],
                   !.todo = SimilarStatements, !.contract = db[d].contract,
                   !.comp = v[2], !.verified = Verified(v[2], a),
                   !.verdict = db[v], !.level = db[Match(v)].level])
  IN
  /\ task[j].pc = "new"
  /\ \/ same = {} /\ Throws(j, "notFound")
     \/ \E d \in same : \E v \in VerifiedRows(d[2]) :
          \/ Match(v) \in DOMAIN db /\ Begin(d, v)
          \/ Match(v) \notin DOMAIN db /\ Throws(j, "notFound")

-----------------------------------------------------------------------------
(* The statements *)

\* The rows that were not found and have been used as if they were.
Used(s) == CASE s = "compiled" -> {"creation", "runtime"}
             [] s = "verified" -> {"deployment"}
             [] OTHER -> {}

Lacking(t) == t.todo # <<>> /\ Used(Head(t.todo)) \cap t.lacks # {}

Statement(j, kinds) ==
  /\ Open(task[j])
  /\ task[j].todo # <<>>
  /\ ~Lacking(task[j])
  /\ Head(task[j].todo) \in kinds
  /\ ~Locked(j, DOMAIN NextRows(j))

\* A missing row is undefined until a statement uses it.  There is nothing that
\* uses the creation code: the contract is stored with NULL for it.
Without(j, t, s) ==
  [t EXCEPT !.lacks = @ \cup {s},
            !.contract = IF s = "onCreation" THEN BareContract(j, t.export) ELSE @]

\* insertCode, insertContract and the sources: the duplicate keeps its values,
\* the count is short, and the rows that are there are read.
Touch(j) ==
  LET t == task[j]
      s == Head(t.todo)
      rows == NextRows(j)
      new == DOMAIN rows \ DOMAIN Latest(t)
      after == Done(t, rows, new)
      read == [after EXCEPT !.snapshot = Snapshot(t)]
  IN
  /\ Statement(j, {"creation", "runtime", "onCreation", "onRuntime", "contract", "sources"})
  /\ \/ new = DOMAIN rows /\ Goes(j, after)
     \/ /\ new # DOMAIN rows
        /\ IF DOMAIN rows \subseteq DOMAIN Visible(after) THEN Goes(j, read)
           ELSE IF s \in {"creation", "runtime", "onCreation"} THEN Goes(j, Without(j, read, s))
           ELSE Throws(j, IF s = "sources" THEN "sourceNotFound" ELSE "missing")

\* compiled_contracts_sources: a path that is there keeps its source.
AddFiles(j) ==
  LET rows == NextRows(j)
  IN  /\ Statement(j, {"files"})
      /\ Goes(j, [Done(task[j], rows, DOMAIN rows \ DOMAIN Latest(task[j]))
                   EXCEPT !.verified = Verified(task[j].comp, task[j].export.address)])

\* The row holds the values already.  When it was also written in the current
\* second, which is left open here, the statement changes nothing.
Unchanged(t, rows) == \A k \in DOMAIN rows : k \in DOMAIN Latest(t) /\ Latest(t)[k] = rows[k]

InsertDeployment(j) ==
  LET t == task[j]
      rows == NextRows(j)
      k == Deployment(task[j].export.address)
      after == Done(t, rows, DOMAIN rows)
      read == [after EXCEPT !.snapshot = Snapshot(t)]
  IN
  /\ Statement(j, {"deployment"})
  /\ \/ Goes(j, after)
     \/ /\ Unchanged(t, rows)
        /\ IF /\ k \in DOMAIN Visible(t)
              /\ Visible(t)[k].contract = rows[k].contract
              /\ rows[k].transaction \in {None, Visible(t)[k].transaction}
           THEN Goes(j, read)
           ELSE Goes(j, Without(j, read, "deployment"))

\* The SELECT for an unchanged row does not ask for the version.
InsertCompiled(j) ==
  LET t == task[j]
      rows == NextRows(j)
      e == t.export
      after == Done(t, rows, DOMAIN rows)
      same == {k \in DOMAIN Visible(t) : IsRow(k, "compiled") /\ k[3] = e.creation /\ k[4] = e.runtime}
  IN
  /\ Statement(j, {"compiled"})
  /\ \/ Goes(j, [after EXCEPT !.comp = Compiled(e)])
     \/ /\ Unchanged(t, rows)
        /\ \/ \E k \in same :
                Goes(j, [after EXCEPT !.comp = k, !.snapshot = Snapshot(t)])
           \/ same = {} /\ Throws(j, "missing")

InsertVerified(j) ==
  LET rows == NextRows(j)
  IN  /\ Statement(j, {"verified"})
      /\ \/ Goes(j, Done(task[j], rows, DOMAIN rows))
         \/ Unchanged(task[j], rows) /\ Throws(j, "conflict")

\* A hash or an id of undefined: the next statement is not made.
LacksRow(j) ==
  /\ Open(task[j]) /\ Lacking(task[j])
  /\ Throws(j, "missing")

-----------------------------------------------------------------------------
(* sourcify_matches *)

\* Not in the transaction: the committed match is read.
ReadOldMatch(j) ==
  /\ Statement(j, {"oldMatch"})
  /\ Goes(j, [task[j] EXCEPT !.todo = Tail(@),
                !.found = Match(task[j].verified) \in DOMAIN db])

MatchOf(j) == Match(task[j].verified)

\* A refused INSERT has used its id.
Refused(j) ==
  /\ task' = [task EXCEPT ![j] = Ended(@, "failed", "taken")]
  /\ lastId' = lastId + 1
  /\ UNCHANGED <<db, failures>>

\* The UPDATE changes nothing when the match has gone to another verified
\* contract since it was read; nobody looks.
WriteMatch(j) ==
  LET t == task[j]
      k == MatchOf(j)
  IN
  /\ Statement(j, {"match"})
  /\ \/ /\ t.found
        /\ IF k \in DOMAIN db
           THEN Goes(j, Done(t, OneRow(k, [db[k] EXCEPT !.level = t.level]), {k}))
           ELSE Goes(j, [t EXCEPT !.todo = Tail(@)])
     \/ ~t.found /\ k \in DOMAIN db /\ Refused(j)
     \/ /\ ~t.found /\ k \notin DOMAIN db
        /\ task' = [task EXCEPT ![j] = Done(t, NextRows(j), {k})]
        /\ lastId' = lastId + 1
        /\ UNCHANGED <<db, failures>>

\* After COMMIT insertOrUpdateVerification has returned, and _storeVerification
\* goes on with statements of their own.
NextStep(j) == IF task[j].similar THEN "stored"
               ELSE IF task[j].old = None THEN "insertMatch" ELSE "updateMatch"

Committed(j, pc, why) ==
  /\ Open(task[j]) /\ task[j].todo = <<>>
  /\ db' = Over(task[j].writes, db)
  /\ task' = [task EXCEPT ![j] = Ended(@, pc, why)]

Commit(j) ==
  /\ Committed(j, NextStep(j), "none")
  /\ UNCHANGED <<lastId, failures>>

Stored(j) == task' = [task EXCEPT ![j].pc = "stored"]

\* Plausible slips: the statuses of the match stay, or the match is deleted and
\* inserted anew.
UpdateMatchKeepingLevel(j) ==
  LET t == task[j]
      from == Match(t.old)
      to == MatchOf(j)
  IN
  /\ t.pc = "updateMatch" /\ ~Locked(j, {from, to})
  /\ from \in DOMAIN db
  /\ from = to \/ to \notin DOMAIN db
  /\ db' = Over(OneRow(to, db[from]), Restrict(db, DOMAIN db \ {from}))
  /\ Stored(j)
  /\ UNCHANGED <<lastId, failures>>

UpdateMatchAnew(j) ==
  LET t == task[j]
      from == Match(t.old)
  IN
  /\ t.pc = "updateMatch" /\ ~Locked(j, {from, MatchOf(j)})
  /\ db' = Restrict(db, DOMAIN db \ {from})
  /\ task' = [task EXCEPT ![j].pc = "insertMatch"]
  /\ UNCHANGED <<lastId, failures>>

UpdateMatch(j) ==
  LET t == task[j]
      from == Match(t.old)
      to == MatchOf(j)
      moved == Over(OneRow(to, [db[from] EXCEPT !.level = t.level]),
                    Restrict(db, DOMAIN db \ {from}))
  IN
  /\ t.pc = "updateMatch" /\ ~Locked(j, {from, to})
  /\ \/ /\ from \in DOMAIN db => db = moved
        /\ Goes(j, [t EXCEPT !.pc = "insertMatch"])
     \/ from # to /\ from \in DOMAIN db /\ to \in DOMAIN db /\ Throws(j, "taken")
     \/ /\ from \in DOMAIN db /\ db # moved
        /\ from = to \/ to \notin DOMAIN db
        /\ db' = moved
        /\ Stored(j)
        /\ UNCHANGED <<lastId, failures>>

InsertMatch(j) ==
  LET k == MatchOf(j)
  IN  /\ task[j].pc = "insertMatch" /\ ~Locked(j, {k})
      /\ \/ k \in DOMAIN db /\ Refused(j)
         \/ /\ k \notin DOMAIN db
            /\ db' = Over(OneRow(k, [id |-> lastId + 1, level |-> task[j].level]), db)
            /\ lastId' = lastId + 1
            /\ Stored(j)
            /\ UNCHANGED failures

-----------------------------------------------------------------------------
(* The database: lost connections and deadlocks *)

\* The connection is lost in the transaction; at COMMIT the rows may have been
\* stored all the same.
LoseConnection(j) ==
  /\ failures < MaxFailures
  /\ failures' = failures + 1
  /\ UNCHANGED lastId
  /\ \/ /\ Open(task[j])
        /\ task' = [task EXCEPT ![j] = Ended(@, "failed", "fault")]
        /\ UNCHANGED db
     \/ Committed(j, "failed", "fault")

WaitsFor(j, k) ==
  /\ j # k /\ Open(task[j]) /\ ~Lacking(task[j])
  /\ task[k].locks \cap DOMAIN NextRows(j) # {}

\* A set of jobs each of which waits for another of the set, and none smaller.
Circle(S) ==
  LET Closed(T) == T # {} /\ \A j \in T : \E k \in T : WaitsFor(j, k)
  IN  Closed(S) /\ \A T \in SUBSET S : Closed(T) => T = S

\* InnoDB rolls one of a circle back.
Deadlock(j) ==
  /\ \E S \in SUBSET Jobs : j \in S /\ Circle(S)
  /\ Throws(j, "deadlock")

-----------------------------------------------------------------------------

Step(j) ==
  \/ Touch(j) \/ AddFiles(j) \/ InsertDeployment(j) \/ InsertCompiled(j)
  \/ InsertVerified(j) \/ LacksRow(j) \/ ReadOldMatch(j) \/ WriteMatch(j) \/ Commit(j)
  \/ UpdateMatch(j) \/ InsertMatch(j)

HasEnded(j) == task[j].pc \in {"stored", "failed"}

Finished == (\A j \in Jobs : HasEnded(j)) /\ UNCHANGED vars

Next ==
  \/ \E j \in Jobs :
       \/ \E e \in Exports : BeginStore(j, e)
       \/ \E a \in Addresses : BeginSimilar(j, a)
       \/ Step(j) \/ LoseConnection(j) \/ Deadlock(j)
  \/ Finished

Spec == Init /\ [][Next]_vars

-----------------------------------------------------------------------------
(* Properties *)

Whys == {"none", "unhashable", "notFound", "missing", "sourceNotFound",
         "conflict", "taken", "deadlock", "fault"}

\* Each job holds the locks of the rows it has written, and none after its
\* transaction; no row is locked twice.
TypeOK ==
  /\ lastId \in Nat
  /\ failures \in 0..MaxFailures
  /\ \A j \in Jobs :
       /\ task[j].pc \in {"new", "transaction", "updateMatch", "insertMatch", "stored", "failed"}
       /\ task[j].why \in Whys
       /\ DOMAIN task[j].writes \subseteq task[j].locks
       /\ ~Open(task[j]) => task[j].locks = {}
       /\ ~Locked(j, task[j].locks)

Present(k) == k \in DOMAIN db

MatchKeys == {k \in DOMAIN db : IsRow(k, "match")}

FilesOf(comp) == {k \in DOMAIN db : IsRow(k, "file") /\ k[2] = comp}

\* Every match can be read: the inner joins of getSourcifyMatchByChainAddress
\* find the verified contract, its deployment with the contract and the codes,
\* and the compilation with its codes, its files and their sources, whatever
\* transaction failed or was interrupted.
MatchIsReadable ==
  \A m \in MatchKeys :
    LET v == m[2]
        comp == v[2]
        contract == db[Deployment(v[3])].contract
    IN  /\ Present(v) /\ Present(comp) /\ Present(Deployment(v[3]))
        /\ Present(contract) /\ Present(Code(contract[3]))
        /\ contract[2] \notin Jobs => Present(Code(contract[2]))
        /\ Present(Code(comp[3])) /\ Present(Code(comp[4]))
        /\ FilesOf(comp) # {}
        /\ \A f \in FilesOf(comp) : Present(Source(db[f]))

\* A compilation is shared by all who verify with it and may gain files from
\* each, but one of the inputs it was verified with is always there as a whole.
OneInputIsWhole ==
  \A comp \in {k \in DOMAIN db : IsRow(k, "compiled")} :
    \E e \in Exports :
      /\ Compiled(e) = comp
      /\ \A p \in DOMAIN e.files : Present(File(comp, p)) /\ db[File(comp, p)] = e.files[p]

\* What verified_contracts says of a compilation and an address was found by a
\* comparison of these codes with the code that is there, also when it was
\* copied from another chain, and the deployment is stored with that code.
VerdictIsEarned ==
  \A v \in {k \in DOMAIN db : IsRow(k, "verified")} :
    /\ db[Deployment(v[3])].contract[3] = Deployed[v[3]]
    /\ \E e \in Exports :
         /\ Verdict(e) = db[v]
         /\ e.creation = v[2][3] /\ e.runtime = v[2][4]
         /\ e.onRuntime = Deployed[v[3]]

\* A store beside which nothing else ran never misses a row that it was told
\* exists, so does not fail for one and does not store a contract without the
\* creation code that it has, and is no victim of a deadlock.
AbortNeedsRace ==
  \A j \in Jobs :
    task[j].lacks # {} \/ task[j].why \in {"missing", "sourceNotFound", "deadlock"}
      => task[j].raced

Quiet == \A j \in Jobs : /\ ~task[j].raced /\ ~Active(task[j])
                         /\ task[j].why \notin {"fault", "taken"}

\* verified_contracts and sourcify_matches are written by different statements;
\* when no two stores overlapped and no statement failed between them, they
\* agree on what matched.
LevelsAgree ==
  Quiet => \A m \in MatchKeys :
             db[m[2]] = [creation |-> Flags(db[m].level.creation),
                                 runtime |-> Flags(db[m].level.runtime)]

-----------------------------------------------------------------------------
(* The table of matches, as its readers may rely on it *)

MatchRow(k, row) == [record |-> k[2], level |-> row.level]

Pending == {j \in Jobs : MatchOf(j) \in DOMAIN task[j].writes \ DOMAIN db}

PendingRow(j) == task[j].writes[MatchOf(j)]

Records == {Verified(Compiled(e), a) : e \in Exports, a \in Addresses}

\* The rows by id, as a reader sees them, and those of open transactions.
SeenRows ==
  [i \in {db[k].id : k \in MatchKeys} |->
     LET k == CHOOSE k \in MatchKeys : db[k].id = i IN MatchRow(k, db[k])]

PendingRows ==
  [i \in {PendingRow(j).id : j \in Pending} |->
     LET j == CHOOSE j \in Pending : PendingRow(j).id = i IN MatchRow(MatchOf(j), PendingRow(j))]

Table == INSTANCE MatchTable
           WITH Records <- Records,
                Place <- [v \in Records |-> v[3]],
                Levels <- {Level(e) : e \in Exports},
                matches <- SeenRows,
                pending <- PendingRows,
                lastId <- lastId

\* The matches keep what MatchTable promises to those who read it by id.
ImplementsMatchTable == Table!TableSpec
=============================================================================
