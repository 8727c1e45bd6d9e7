-------------------------- MODULE ContentStoreProofs --------------------------
(***************************************************************************)
(* Theorems about ContentStore, for every set of jobs, exports, addresses  *)
(* and codes and every number of lost connections.                         *)
(*                                                                         *)
(* The invariant has five parts: the locks and what a task holds           *)
(* (LockInv), that a store with no other beside it sees what is there      *)
(* (SoloInv), what the committed rows refer to and what an open            *)
(* transaction has done for them (DbInv, TaskInv), whose the ids of the    *)
(* matches are (TableInv), and how matches and verified contracts agree    *)
(* while nothing overlaps or fails (CalmInv).                              *)
(***************************************************************************)
EXTENDS ContentStore, TLAPS

-----------------------------------------------------------------------------
(* The parts of the inductive invariant *)

Field == {"pc", "export", "similar", "todo", "writes", "locks", "snapshot", "contract",
          "comp", "verified", "verdict", "level", "lacks", "old", "found", "raced", "why"}

IsTask(t) == DOMAIN t = Field /\ t = [x \in Field |-> t[x]]

LockInv ==
  /\ DOMAIN task = Jobs /\ task = [j \in Jobs |-> task[j]]
  /\ \A j \in Jobs : /\ IsTask(task[j]) /\ task[j].raced \in BOOLEAN
                     /\ task[j].pc = "new" => task[j] = NewTask
  /\ TypeOK

\* While no other call is or was under way, a job's snapshot is what is there.
SoloInv ==
  \A j \in Jobs :
    /\ task[j].lacks # {} \/ task[j].why \in {"missing", "sourceNotFound", "deadlock"}
         => task[j].raced
    /\ Active(task[j]) /\ ~task[j].raced =>
         /\ \A k \in Jobs \ {j} : ~Active(task[k])
         /\ Open(task[j]) => task[j].snapshot \in {None, db}

Earned(verdict, comp, a) ==
  \E e \in Exports :
    /\ Verdict(e) = verdict
    /\ e.creation = comp[3] /\ e.runtime = comp[4]
    /\ e.onRuntime = Deployed[a]

Whole(comp) ==
  \E e \in Exports :
    /\ Compiled(e) = comp
    /\ \A p \in DOMAIN e.files : Present(File(comp, p)) /\ db[File(comp, p)] = e.files[p]

\* What each committed row refers to is there.
DbInv ==
  \A k \in DOMAIN db :
    /\ IsRow(k, "contract") =>
         /\ Present(Code(k[3]))
         /\ k[2] \notin Jobs => Present(Code(k[2]))
    /\ IsRow(k, "deployment") =>
         /\ k = Deployment(k[2])
         /\ IsRow(db[k].contract, "contract") /\ Present(db[k].contract)
         /\ db[k].contract[3] = Deployed[k[2]]
    /\ IsRow(k, "compiled") =>
         /\ Present(Code(k[3])) /\ Present(Code(k[4]))
         /\ Whole(k)
    /\ IsRow(k, "file") =>
         /\ k = File(k[2], k[3])
         /\ Present(k[2]) /\ IsRow(k[2], "compiled") /\ Present(Source(db[k]))
    /\ IsRow(k, "verified") =>
         /\ k = Verified(k[2], k[3])
         /\ Present(k[2]) /\ IsRow(k[2], "compiled")
         /\ k[3] \in Addresses /\ Present(Deployment(k[3]))
         /\ Earned(db[k], k[2], k[3])
    /\ IsRow(k, "match") =>
         /\ k = Match(k[2])
         /\ Present(k[2]) /\ IsRow(k[2], "verified")

\* The statement is still to come.
Has(t, s) == \E i \in 1..Len(t.todo) : t.todo[i] = s

\* The order of the statements that depend on one another.
Rank(s) == CASE s = "onCreation" -> 1 [] s = "contract" -> 2 [] s = "deployment" -> 3
             [] s = "compiled" -> 4 [] s = "files" -> 5 [] s = "verified" -> 6
             [] s = "oldMatch" -> 7 [] s = "match" -> 8 [] OTHER -> 0

Kinds == {"creation", "runtime", "onCreation", "onRuntime", "contract", "sources", "deployment",
          "compiled", "files", "verified", "oldMatch", "match"}

InOrder(q) ==
  /\ q \in Seq(Kinds)
  /\ \A i, k \in 1..Len(q) :
       i < k /\ Rank(q[i]) > 0 /\ Rank(q[k]) > 0 => Rank(q[i]) < Rank(q[k])

\* The rows that a transaction has to write or find.
Written(t, k) == k \in DOMAIN t.writes

InLatest(t, k) == Written(t, k) \/ Present(k)

\* A store: the rows of the statements that are over,
RowsInv(t) ==
  /\ ~Has(t, "creation") => InLatest(t, Code(t.export.creation))
  /\ ~Has(t, "runtime") => InLatest(t, Code(t.export.runtime))
  /\ ~Has(t, "onCreation") /\ t.export.onCreation # None =>
       InLatest(t, Code(t.export.onCreation))
  /\ ~Has(t, "onRuntime") => InLatest(t, Code(t.export.onRuntime))
  /\ ~Has(t, "contract") => InLatest(t, t.contract)
  /\ ~Has(t, "sources") => \A s \in Range(t.export.files) : InLatest(t, Source(s))

\* the compilation, whose row has been inserted or found,
CompInv(t) ==
  ~Has(t, "compiled") =>
    /\ IsRow(t.comp, "compiled")
    /\ t.comp[3] = t.export.creation /\ t.comp[4] = t.export.runtime
    /\ InLatest(t, t.comp)

\* and its files, which are all its own when the compilation is.
FilesInv(t) ==
  ~Has(t, "files") =>
    /\ ~Has(t, "compiled")
    /\ t.verified = Verified(t.comp, t.export.address)
    /\ t.comp \notin DOMAIN db =>
         \A p \in DOMAIN t.export.files :
           /\ Written(t, File(t.comp, p))
           /\ t.writes[File(t.comp, p)] = t.export.files[p]

StoreInv(j, t) ==
  /\ t.export \in Exports
  /\ t.contract \in {Contract(j, t.export), BareContract(j, t.export)}
  /\ t.verdict = Verdict(t.export) /\ t.level = Level(t.export)
  /\ t.old = None \/ (IsRow(t.old, "verified") /\ t.old[3] = t.export.address)
  /\ Open(t) => /\ ~Has(t, "oldMatch") /\ ~Has(t, "match")
                /\ RowsInv(t) /\ CompInv(t) /\ FilesInv(t)

\* A copy of a match, which knows everything from the start.
SimilarInv(t) ==
  /\ t.export.address \in Addresses
  /\ IsRow(t.contract, "contract") /\ Present(t.contract)
  /\ t.contract[3] = Deployed[t.export.address]
  /\ IsRow(t.comp, "compiled") /\ Present(t.comp)
  /\ t.verified = Verified(t.comp, t.export.address)
  /\ Earned(t.verdict, t.comp, t.export.address)
  /\ Open(t) => \A s \in {"creation", "runtime", "onCreation", "onRuntime", "contract",
                          "sources", "compiled", "files"} : ~Has(t, s)

\* What a transaction may have written.
WriteOK(t, k) ==
  /\ \E kind \in {"code", "source", "contract", "deployment", "compiled", "file", "verified",
                  "match"} : IsRow(k, kind)
  /\ IsRow(k, "contract") => ~t.similar /\ ~Has(t, "contract") /\ k = t.contract
  /\ IsRow(k, "deployment") =>
       /\ ~Has(t, "deployment")
       /\ k = Deployment(t.export.address) /\ t.writes[k].contract = t.contract
  /\ IsRow(k, "compiled") =>
       /\ ~t.similar /\ ~Has(t, "compiled")
       /\ k = Compiled(t.export)
       /\ k \notin DOMAIN db => t.comp = k
  /\ IsRow(k, "file") =>
       /\ ~t.similar /\ ~Has(t, "compiled")
       /\ k = File(t.comp, k[3]) /\ k[3] \in DOMAIN t.export.files
       /\ t.writes[k] = t.export.files[k[3]]
       /\ k \notin DOMAIN db
  /\ IsRow(k, "verified") =>
       /\ ~Has(t, "compiled") /\ ~Has(t, "files")
       /\ k = t.verified /\ t.writes[k] = t.verdict
  /\ IsRow(k, "match") => t.similar /\ ~Has(t, "match") /\ k = Match(t.verified)

OpenInv(t) ==
  /\ InOrder(t.todo)
  /\ t.snapshot # None => \A k \in DOMAIN t.snapshot : ~IsRow(k, "match") => Present(k)
  /\ ~Has(t, "deployment") => InLatest(t, Deployment(t.export.address))
  /\ ~Has(t, "verified") => Written(t, t.verified)
  /\ Has(t, "files") => Has(t, "verified")
  /\ Has(t, "onCreation") => Has(t, "contract") /\ Has(t, "deployment")
  /\ \A k \in DOMAIN t.writes : WriteOK(t, k)

AfterCommit(t) == t.pc \in {"updateMatch", "insertMatch"}

\* The statements that are over have done what the commit needs, and after it
\* the match is all that is missing.
JobInv(j, t) ==
  /\ Active(t) /\ ~t.similar => StoreInv(j, t)
  /\ Active(t) /\ t.similar => SimilarInv(t)
  /\ Open(t) => OpenInv(t)
  /\ AfterCommit(t) => /\ ~t.similar
                       /\ Present(t.verified) /\ IsRow(t.verified, "verified")
                       /\ t.verified[3] = t.export.address
  /\ t.pc = "updateMatch" => t.old # None

TaskInv == \A j \in Jobs : JobInv(j, task[j])

-----------------------------------------------------------------------------
(* The ids of the matches *)

MatchLevels == {Level(e) : e \in Exports}

IsMatch(row) ==
  /\ row = [id |-> row.id, level |-> row.level]
  /\ row.id \in 1..lastId
  /\ row.level \in MatchLevels

\* A match that a transaction has written keeps the id of the row it replaces,
\* or has one that no other row has.
OwnId(j, k) ==
  LET row == task[j].writes[k]
  IN  /\ IsMatch(row)
      /\ \A m \in MatchKeys : db[m].id = row.id <=> m = k
      /\ \A i \in Jobs \ {j} : \A n \in DOMAIN task[i].writes :
           IsRow(n, "match") => task[i].writes[n].id # row.id

TableInv ==
  /\ \A m \in MatchKeys : IsMatch(db[m])
  /\ \A m, n \in MatchKeys : db[m].id = db[n].id => m = n
  /\ \A j \in Jobs : Active(task[j]) => task[j].level \in MatchLevels
  /\ \A j \in Jobs : \A k \in DOMAIN task[j].writes : IsRow(k, "match") => OwnId(j, k)

-----------------------------------------------------------------------------
(* Calm *)

Calm == \A j \in Jobs : ~task[j].raced /\ task[j].why \notin {"fault", "taken"}

SameLevel(verdict, level) ==
  verdict = [creation |-> Flags(level.creation), runtime |-> Flags(level.runtime)]

Agrees(m) == SameLevel(db[m[2]], db[m].level)

\* Only the match that the job is about to write differs from its verified
\* contract.
CalmMatch(m) ==
  Agrees(m) \/ \E j \in Jobs : AfterCommit(task[j]) /\ task[j].verified = m[2]

CalmJob(t) ==
  /\ Active(t) => SameLevel(t.verdict, t.level)
  /\ AfterCommit(t) => db[t.verified] = t.verdict
  /\ Open(t) /\ t.similar =>
       /\ ~Has(t, "oldMatch") /\ Has(t, "match") => (t.found <=> Present(Match(t.verified)))
       /\ ~Has(t, "match") =>
            \/ Written(t, Match(t.verified)) /\ t.writes[Match(t.verified)].level = t.level
            \/ ~Present(Match(t.verified)) /\ ~Written(t, Match(t.verified))

WhyInv == \A j \in Jobs : Active(task[j]) => task[j].why = "none"

CalmInv ==
  /\ WhyInv
  /\ Calm => /\ \A m \in MatchKeys : CalmMatch(m)
             /\ \A j \in Jobs : CalmJob(task[j])


-----------------------------------------------------------------------------
(* Keys, rows and tasks *)

LEMMA KeyParts ==
  /\ \A c : Code(c)[1] = "code" /\ Code(c)[2] = c
  /\ \A j, e : /\ Contract(j, e)[1] = "contract"
               /\ Contract(j, e)[2] = IF e.onCreation = None THEN j ELSE e.onCreation
               /\ Contract(j, e)[3] = e.onRuntime
  /\ \A j, e : /\ BareContract(j, e)[1] = "contract" /\ BareContract(j, e)[2] = j
               /\ BareContract(j, e)[3] = e.onRuntime
  /\ \A a : Deployment(a)[1] = "deployment" /\ Deployment(a)[2] = a
  /\ \A e : /\ Compiled(e)[1] = "compiled" /\ Compiled(e)[2] = e.version
            /\ Compiled(e)[3] = e.creation /\ Compiled(e)[4] = e.runtime
  /\ \A s : Source(s)[1] = "source" /\ Source(s)[2] = s
  /\ \A c, p : File(c, p)[1] = "file" /\ File(c, p)[2] = c /\ File(c, p)[3] = p
  /\ \A c, a : Verified(c, a)[1] = "verified" /\ Verified(c, a)[2] = c /\ Verified(c, a)[3] = a
  /\ \A v : Match(v)[1] = "match" /\ Match(v)[2] = v
BY DEF Code, Contract, BareContract, Deployment, Compiled, Source, File, Verified, Match

LEMMA OverKeys ==
  \A rows, others : \A k : k \in DOMAIN Over(rows, others) <=> k \in DOMAIN rows \/ k \in DOMAIN others
BY DEF Over

LEMMA OverFirst == \A rows, others : \A k \in DOMAIN rows : Over(rows, others)[k] = rows[k]
BY DEF Over

LEMMA OverSecond ==
  \A rows, others : \A k \in DOMAIN others \ DOMAIN rows : Over(rows, others)[k] = others[k]
BY DEF Over

LEMMA OverSomeKeys ==
  \A rows, S, others : \A k :
    k \in DOMAIN Over(Restrict(rows, S), others) <=> k \in S \/ k \in DOMAIN others
BY DEF Over, Restrict

LEMMA OverSomeFirst ==
  \A rows, S, others : \A k \in S : Over(Restrict(rows, S), others)[k] = rows[k]
BY DEF Over, Restrict

LEMMA OverSomeSecond ==
  \A rows, S, others : \A k \in DOMAIN others \ S : Over(Restrict(rows, S), others)[k] = others[k]
BY DEF Over, Restrict

LEMMA OneRowParts ==
  \A k, value : DOMAIN OneRow(k, value) = {k} /\ OneRow(k, value)[k] = value
BY DEF OneRow

LEMMA RestrictParts ==
  \A rows, S : (\A k : k \in DOMAIN Restrict(rows, S) <=> k \in S) /\ \A k \in S : Restrict(rows, S)[k] = rows[k]
BY DEF Restrict

LEMMA NextRowsAre ==
  ASSUME NEW j, task[j].todo # <<>>
  PROVE  NextRows(j) = Rows(j, Head(task[j].todo))
BY DEF NextRows

LEMMA RowsAre ==
  ASSUME NEW j
  PROVE  LET t == task[j]
             e == t.export
         IN  /\ Rows(j, "creation") = OneRow(Code(e.creation), TRUE)
             /\ Rows(j, "runtime") = OneRow(Code(e.runtime), TRUE)
             /\ Rows(j, "onCreation") = OneRow(Code(e.onCreation), TRUE)
             /\ Rows(j, "onRuntime") = OneRow(Code(e.onRuntime), TRUE)
             /\ Rows(j, "contract") = OneRow(t.contract, TRUE)
             /\ Rows(j, "sources") = [k \in {Source(f) : f \in Range(e.files)} |-> TRUE]
             /\ Rows(j, "files") =
                  [k \in {File(t.comp, p) : p \in DOMAIN e.files} |-> e.files[k[3]]]
             /\ Rows(j, "compiled") = OneRow(Compiled(e), e.settings)
             /\ Rows(j, "verified") = OneRow(t.verified, t.verdict)
             /\ Rows(j, "match") = OneRow(Match(t.verified), [id |-> lastId + 1, level |-> t.level])
             /\ Rows(j, "deployment") =
                  OneRow(Deployment(e.address),
                         [contract |-> t.contract,
                          transaction |-> IF t.similar THEN None ELSE e.transaction])
BY DEF Rows

LEMMA NextCreation ==
  ASSUME NEW j, task[j].todo # <<>>, Head(task[j].todo) = "creation"
  PROVE  /\ DOMAIN NextRows(j) = {Code(task[j].export.creation)}
<1>1. NextRows(j) = Rows(j, "creation")
  BY NextRowsAre
<1>2. Rows(j, "creation") = OneRow(Code(task[j].export.creation), TRUE)
  BY RowsAre
<1>3. DOMAIN OneRow(Code(task[j].export.creation), TRUE) = {Code(task[j].export.creation)} /\ OneRow(Code(task[j].export.creation), TRUE)[Code(task[j].export.creation)] = TRUE
  BY OneRowParts
<1> QED BY <1>1, <1>2, <1>3

LEMMA NextRuntime ==
  ASSUME NEW j, task[j].todo # <<>>, Head(task[j].todo) = "runtime"
  PROVE  /\ DOMAIN NextRows(j) = {Code(task[j].export.runtime)}
<1>1. NextRows(j) = Rows(j, "runtime")
  BY NextRowsAre
<1>2. Rows(j, "runtime") = OneRow(Code(task[j].export.runtime), TRUE)
  BY RowsAre
<1>3. DOMAIN OneRow(Code(task[j].export.runtime), TRUE) = {Code(task[j].export.runtime)} /\ OneRow(Code(task[j].export.runtime), TRUE)[Code(task[j].export.runtime)] = TRUE
  BY OneRowParts
<1> QED BY <1>1, <1>2, <1>3

LEMMA NextOnCreation ==
  ASSUME NEW j, task[j].todo # <<>>, Head(task[j].todo) = "onCreation"
  PROVE  /\ DOMAIN NextRows(j) = {Code(task[j].export.onCreation)}
<1>1. NextRows(j) = Rows(j, "onCreation")
  BY NextRowsAre
<1>2. Rows(j, "onCreation") = OneRow(Code(task[j].export.onCreation), TRUE)
  BY RowsAre
<1>3. DOMAIN OneRow(Code(task[j].export.onCreation), TRUE) = {Code(task[j].export.onCreation)} /\ OneRow(Code(task[j].export.onCreation), TRUE)[Code(task[j].export.onCreation)] = TRUE
  BY OneRowParts
<1> QED BY <1>1, <1>2, <1>3

LEMMA NextOnRuntime ==
  ASSUME NEW j, task[j].todo # <<>>, Head(task[j].todo) = "onRuntime"
  PROVE  /\ DOMAIN NextRows(j) = {Code(task[j].export.onRuntime)}
<1>1. NextRows(j) = Rows(j, "onRuntime")
  BY NextRowsAre
<1>2. Rows(j, "onRuntime") = OneRow(Code(task[j].export.onRuntime), TRUE)
  BY RowsAre
<1>3. DOMAIN OneRow(Code(task[j].export.onRuntime), TRUE) = {Code(task[j].export.onRuntime)} /\ OneRow(Code(task[j].export.onRuntime), TRUE)[Code(task[j].export.onRuntime)] = TRUE
  BY OneRowParts
<1> QED BY <1>1, <1>2, <1>3

LEMMA NextContract ==
  ASSUME NEW j, task[j].todo # <<>>, Head(task[j].todo) = "contract"
  PROVE  /\ DOMAIN NextRows(j) = {task[j].contract}
<1>1. NextRows(j) = Rows(j, "contract")
  BY NextRowsAre
<1>2. Rows(j, "contract") = OneRow(task[j].contract, TRUE)
  BY RowsAre
<1>3. DOMAIN OneRow(task[j].contract, TRUE) = {task[j].contract} /\ OneRow(task[j].contract, TRUE)[task[j].contract] = TRUE
  BY OneRowParts
<1> QED BY <1>1, <1>2, <1>3

LEMMA NextCompiled ==
  ASSUME NEW j, task[j].todo # <<>>, Head(task[j].todo) = "compiled"
  PROVE  /\ DOMAIN NextRows(j) = {Compiled(task[j].export)}
         /\ NextRows(j)[Compiled(task[j].export)] = task[j].export.settings
<1>1. NextRows(j) = Rows(j, "compiled")
  BY NextRowsAre
<1>2. Rows(j, "compiled") = OneRow(Compiled(task[j].export), task[j].export.settings)
  BY RowsAre
<1>3. DOMAIN OneRow(Compiled(task[j].export), task[j].export.settings) = {Compiled(task[j].export)} /\ OneRow(Compiled(task[j].export), task[j].export.settings)[Compiled(task[j].export)] = task[j].export.settings
  BY OneRowParts
<1> QED BY <1>1, <1>2, <1>3

LEMMA NextVerified ==
  ASSUME NEW j, task[j].todo # <<>>, Head(task[j].todo) = "verified"
  PROVE  /\ DOMAIN NextRows(j) = {task[j].verified}
         /\ NextRows(j)[task[j].verified] = task[j].verdict
<1>1. NextRows(j) = Rows(j, "verified")
  BY NextRowsAre
<1>2. Rows(j, "verified") = OneRow(task[j].verified, task[j].verdict)
  BY RowsAre
<1>3. DOMAIN OneRow(task[j].verified, task[j].verdict) = {task[j].verified} /\ OneRow(task[j].verified, task[j].verdict)[task[j].verified] = task[j].verdict
  BY OneRowParts
<1> QED BY <1>1, <1>2, <1>3

LEMMA NextMatch ==
  ASSUME NEW j, task[j].todo # <<>>, Head(task[j].todo) = "match"
  PROVE  /\ DOMAIN NextRows(j) = {Match(task[j].verified)}
         /\ NextRows(j)[Match(task[j].verified)] = [id |-> lastId + 1, level |-> task[j].level]
<1>1. NextRows(j) = Rows(j, "match")
  BY NextRowsAre
<1>2. Rows(j, "match") = OneRow(Match(task[j].verified), [id |-> lastId + 1, level |-> task[j].level])
  BY RowsAre
<1>3. DOMAIN OneRow(Match(task[j].verified), [id |-> lastId + 1, level |-> task[j].level]) = {Match(task[j].verified)} /\ OneRow(Match(task[j].verified), [id |-> lastId + 1, level |-> task[j].level])[Match(task[j].verified)] = [id |-> lastId + 1, level |-> task[j].level]
  BY OneRowParts
<1> QED BY <1>1, <1>2, <1>3

LEMMA NextDeployment ==
  ASSUME NEW j, task[j].todo # <<>>, Head(task[j].todo) = "deployment"
  PROVE  LET k == Deployment(task[j].export.address)
         IN  DOMAIN NextRows(j) = {k} /\ NextRows(j)[k].contract = task[j].contract
<1> DEFINE k == Deployment(task[j].export.address)
           row == [contract |-> task[j].contract,
                   transaction |-> IF task[j].similar THEN None ELSE task[j].export.transaction]
<1>1. NextRows(j) = Rows(j, "deployment")
  BY NextRowsAre
<1>2. Rows(j, "deployment") = OneRow(k, row)
  BY RowsAre
<1>3. row.contract = task[j].contract
  OBVIOUS
<1> HIDE DEF k, row
<1>4. DOMAIN NextRows(j) = {k} /\ NextRows(j)[k] = row
  BY <1>1, <1>2, OneRowParts
<1> QED BY <1>3, <1>4 DEF k

LEMMA NextSources ==
  ASSUME NEW j, task[j].todo # <<>>, Head(task[j].todo) = "sources"
  PROVE  DOMAIN NextRows(j) = {Source(f) : f \in Range(task[j].export.files)}
<1>1. NextRows(j) = Rows(j, "sources")
  BY NextRowsAre
<1>2. Rows(j, "sources") = [k \in {Source(f) : f \in Range(task[j].export.files)} |-> TRUE]
  BY RowsAre
<1> QED BY <1>1, <1>2

LEMMA NextFiles ==
  ASSUME NEW j, task[j].todo # <<>>, Head(task[j].todo) = "files"
  PROVE  /\ DOMAIN NextRows(j) = {File(task[j].comp, p) : p \in DOMAIN task[j].export.files}
         /\ \A k \in DOMAIN NextRows(j) : NextRows(j)[k] = task[j].export.files[k[3]]
<1>1. NextRows(j) = Rows(j, "files")
  BY NextRowsAre
<1>2. Rows(j, "files") = [k \in {File(task[j].comp, p) : p \in DOMAIN task[j].export.files} |->
                            task[j].export.files[k[3]]]
  BY RowsAre
<1> QED BY <1>1, <1>2

\* What stays of a task while it has its transaction or its last statements,
KeepsMost(t, u) ==
  /\ u.export = t.export /\ u.similar = t.similar
  /\ u.verdict = t.verdict /\ u.level = t.level /\ u.old = t.old /\ u.raced = t.raced

\* and what stays of it as long as it sees the rows that it finds.
Keeps(t, u) ==
  /\ u.export = t.export /\ u.similar = t.similar /\ u.contract = t.contract
  /\ u.verdict = t.verdict /\ u.level = t.level /\ u.old = t.old /\ u.raced = t.raced
  /\ u.lacks = t.lacks

KeepsPlace(t, u) == u.comp = t.comp /\ u.verified = t.verified /\ u.found = t.found

LEMMA EndedTask ==
  ASSUME NEW t, IsTask(t), NEW pc, NEW why
  PROVE  LET u == Ended(t, pc, why)
         IN  /\ IsTask(u)
             /\ u.pc = pc /\ u.why = why /\ u.todo = <<>> /\ u.writes = <<>>
             /\ u.locks = {} /\ u.snapshot = None
             /\ Keeps(t, u) /\ KeepsPlace(t, u)
BY DEF Ended, IsTask, Field, Keeps, KeepsPlace

LEMMA DoneTask ==
  ASSUME NEW t, IsTask(t), NEW rows, NEW written
  PROVE  LET u == Done(t, rows, written)
         IN  /\ IsTask(u)
             /\ u.pc = t.pc /\ u.why = t.why /\ u.todo = Tail(t.todo)
             /\ u.locks = t.locks \cup DOMAIN rows
             /\ u.writes = Over(Restrict(rows, written), t.writes)
             /\ u.snapshot = t.snapshot
             /\ Keeps(t, u) /\ KeepsPlace(t, u)
BY DEF Done, IsTask, Field, Keeps, KeepsPlace

LEMMA PutTask ==
  ASSUME DOMAIN task = Jobs, NEW j \in Jobs, NEW u, task' = [task EXCEPT ![j] = u]
  PROVE  /\ DOMAIN task' = Jobs /\ task' = [k \in Jobs |-> task'[k]]
         /\ task'[j] = u
         /\ \A k \in Jobs \ {j} : task'[k] = task[k]
OBVIOUS

-----------------------------------------------------------------------------
(* What each step does *)

\* There are rows that a job does not see in its snapshot, or others beside it.
Blind(j) ==
  /\ Open(task[j])
  /\ Visible(task[j]) # Latest(task[j]) \/ \E k \in Jobs \ {j} : Open(task[k])

\* The job goes on without a row that is there.
Overlooks(j, u) ==
  LET t == task[j]
  IN  /\ Blind(j)
      /\ \/ u.contract = t.contract
         \/ Head(t.todo) = "onCreation" /\ u.contract = BareContract(j, t.export)

\* A statement of j's transaction: these rows are locked, these of them written.
Executes(j, rows, written) ==
  LET t == task[j]
      u == task'[j]
  IN  /\ Open(t) /\ t.todo # <<>>
      /\ ~Locked(j, DOMAIN rows) /\ written \subseteq DOMAIN rows
      /\ DOMAIN task' = Jobs /\ task' = [k \in Jobs |-> task'[k]]
      /\ \A k \in Jobs \ {j} : task'[k] = task[k]
      /\ IsTask(u) /\ KeepsMost(t, u) /\ (Keeps(t, u) \/ Overlooks(j, u))
      /\ u.pc = t.pc /\ u.why = t.why /\ u.todo = Tail(t.todo)
      /\ u.locks = t.locks \cup DOMAIN rows
      /\ DOMAIN u.writes = DOMAIN t.writes \cup written
      /\ \A k \in written : u.writes[k] = rows[k]
      /\ \A k \in DOMAIN t.writes \ written : u.writes[k] = t.writes[k]
      /\ u.snapshot \in {t.snapshot, Snapshot(t)}
      /\ UNCHANGED <<db, failures>>

\* The transaction, or the statement after it, ends without a trace.
Aborts(j, why) ==
  LET t == task[j]
      u == task'[j]
  IN  /\ DOMAIN task' = Jobs /\ task' = [k \in Jobs |-> task'[k]]
      /\ \A k \in Jobs \ {j} : task'[k] = task[k]
      /\ IsTask(u) /\ Keeps(t, u) /\ KeepsPlace(t, u)
      /\ u.pc = "failed" /\ u.why = why
      /\ u.todo = <<>> /\ u.writes = <<>> /\ u.locks = {} /\ u.snapshot = None
      /\ db' = db

LEMMA ThrowsAborts ==
  ASSUME LockInv, NEW j \in Jobs, NEW why, Throws(j, why)
  PROVE  Aborts(j, why) /\ UNCHANGED <<lastId, failures>>
<1>1. /\ DOMAIN task = Jobs /\ IsTask(task[j])
      /\ task' = [task EXCEPT ![j] = Ended(task[j], "failed", why)]
      /\ UNCHANGED <<db, lastId, failures>>
  BY DEF LockInv, Throws
<1>2. task'[j] = Ended(task[j], "failed", why)
  BY <1>1
<1>3. /\ DOMAIN task' = Jobs /\ task' = [k \in Jobs |-> task'[k]]
      /\ \A k \in Jobs \ {j} : task'[k] = task[k]
  BY <1>1, PutTask
<1> QED BY <1>1, <1>2, <1>3, EndedTask DEF Aborts

LEMMA RefusedAborts ==
  ASSUME LockInv, NEW j \in Jobs, Refused(j)
  PROVE  Aborts(j, "taken") /\ lastId' = lastId + 1 /\ UNCHANGED failures
<1>1. /\ DOMAIN task = Jobs /\ IsTask(task[j])
      /\ task' = [task EXCEPT ![j] = Ended(task[j], "failed", "taken")]
      /\ UNCHANGED <<db, failures>> /\ lastId' = lastId + 1
  BY DEF LockInv, Refused
<1>2. task'[j] = Ended(task[j], "failed", "taken")
  BY <1>1
<1>3. /\ DOMAIN task' = Jobs /\ task' = [k \in Jobs |-> task'[k]]
      /\ \A k \in Jobs \ {j} : task'[k] = task[k]
  BY <1>1, PutTask
<1> QED BY <1>1, <1>2, <1>3, EndedTask DEF Aborts

\* A task that is Done, but for the columns a statement sets beside.
LEMMA DoneParts ==
  ASSUME NEW t, IsTask(t), NEW rows, NEW written, NEW u,
         LET d == Done(t, rows, written)
         IN  /\ u.pc = d.pc /\ u.why = d.why /\ u.todo = d.todo /\ u.locks = d.locks
             /\ u.writes = d.writes
  PROVE  /\ u.pc = t.pc /\ u.why = t.why /\ u.todo = Tail(t.todo)
         /\ u.locks = t.locks \cup DOMAIN rows
         /\ DOMAIN u.writes = DOMAIN t.writes \cup written
         /\ \A k \in written : u.writes[k] = rows[k]
         /\ \A k \in DOMAIN t.writes \ written : u.writes[k] = t.writes[k]
<1> DEFINE w == t.writes
<1>1. /\ u.pc = t.pc /\ u.why = t.why /\ u.todo = Tail(t.todo)
      /\ u.locks = t.locks \cup DOMAIN rows
      /\ u.writes = Over(Restrict(rows, written), w)
  BY DoneTask
<1>2. \A k : k \in DOMAIN u.writes <=> k \in written \/ k \in DOMAIN w
  BY <1>1, OverSomeKeys
<1>3. \A k \in written : u.writes[k] = rows[k]
  BY <1>1, OverSomeFirst
<1>4. \A k \in DOMAIN w \ written : u.writes[k] = w[k]
  BY <1>1, OverSomeSecond
<1> QED BY <1>1, <1>2, <1>3, <1>4

LEMMA OverlookExecutes ==
  ASSUME LockInv, NEW j \in Jobs, Open(task[j]), task[j].todo # <<>>,
         NEW rows, NEW written \in SUBSET DOMAIN rows, ~Locked(j, DOMAIN rows),
         NEW u, task' = [task EXCEPT ![j] = u], UNCHANGED <<db, failures>>,
         IsTask(u),
         LET d == Done(task[j], rows, written)
         IN  /\ u.pc = d.pc /\ u.why = d.why /\ u.todo = d.todo /\ u.locks = d.locks
             /\ u.writes = d.writes /\ KeepsMost(d, u) /\ (Keeps(d, u) \/ Overlooks(j, u)),
         u.snapshot \in {task[j].snapshot, Snapshot(task[j])}
  PROVE  Executes(j, rows, written) /\ task'[j] = u
<1>1. DOMAIN task = Jobs /\ IsTask(task[j])
  BY DEF LockInv
<1>2. /\ DOMAIN task' = Jobs /\ task' = [k \in Jobs |-> task'[k]]
      /\ task'[j] = u
      /\ \A k \in Jobs \ {j} : task'[k] = task[k]
  BY <1>1, PutTask
<1>3. Keeps(task[j], Done(task[j], rows, written))
  BY <1>1, DoneTask
<1>4. KeepsMost(task[j], u) /\ (Keeps(task[j], u) \/ Overlooks(j, u))
  BY <1>3 DEF Keeps, KeepsMost
<1>5. /\ u.pc = task[j].pc /\ u.why = task[j].why /\ u.todo = Tail(task[j].todo)
      /\ u.locks = task[j].locks \cup DOMAIN rows
      /\ DOMAIN u.writes = DOMAIN task[j].writes \cup written
      /\ \A k \in written : u.writes[k] = rows[k]
      /\ \A k \in DOMAIN task[j].writes \ written : u.writes[k] = task[j].writes[k]
  BY <1>1, DoneParts
<1> QED BY <1>2, <1>4, <1>5 DEF Executes

LEMMA DoneExecutes ==
  ASSUME LockInv, NEW j \in Jobs, Open(task[j]), task[j].todo # <<>>,
         NEW rows, NEW written \in SUBSET DOMAIN rows, ~Locked(j, DOMAIN rows),
         NEW u, task' = [task EXCEPT ![j] = u], UNCHANGED <<db, failures>>,
         IsTask(u),
         LET d == Done(task[j], rows, written)
         IN  /\ u.pc = d.pc /\ u.why = d.why /\ u.todo = d.todo /\ u.locks = d.locks
             /\ u.writes = d.writes /\ Keeps(d, u),
         u.snapshot \in {task[j].snapshot, Snapshot(task[j])}
  PROVE  Executes(j, rows, written) /\ task'[j] = u
<1>1. DOMAIN task = Jobs /\ IsTask(task[j])
  BY DEF LockInv
<1>2. /\ DOMAIN task' = Jobs /\ task' = [k \in Jobs |-> task'[k]]
      /\ task'[j] = u
      /\ \A k \in Jobs \ {j} : task'[k] = task[k]
  BY <1>1, PutTask
<1>3. Keeps(task[j], Done(task[j], rows, written))
  BY <1>1, DoneTask
<1>4. KeepsMost(task[j], u) /\ Keeps(task[j], u)
  BY <1>3 DEF Keeps, KeepsMost
<1>5. /\ u.pc = task[j].pc /\ u.why = task[j].why /\ u.todo = Tail(task[j].todo)
      /\ u.locks = task[j].locks \cup DOMAIN rows
      /\ DOMAIN u.writes = DOMAIN task[j].writes \cup written
      /\ \A k \in written : u.writes[k] = rows[k]
      /\ \A k \in DOMAIN task[j].writes \ written : u.writes[k] = task[j].writes[k]
  BY <1>1, DoneParts
<1> QED BY <1>2, <1>4, <1>5 DEF Executes

\* The row that s names has not been found.
LEMMA SetWithout ==
  ASSUME NEW d, IsTask(d), NEW j, NEW s
  PROVE  LET u == Without(j, d, s)
         IN  /\ IsTask(u) /\ KeepsMost(d, u) /\ KeepsPlace(d, u)
             /\ u.pc = d.pc /\ u.why = d.why /\ u.todo = d.todo /\ u.locks = d.locks
             /\ u.writes = d.writes /\ u.snapshot = d.snapshot
             /\ u.contract = IF s = "onCreation" THEN BareContract(j, d.export) ELSE d.contract
<1> DEFINE c == IF s = "onCreation" THEN BareContract(j, d.export) ELSE d.contract
           x == d.lacks \cup {s}
           u == [d EXCEPT !.lacks = x, !.contract = c]
<1>1. Without(j, d, s) = u
  BY DEF Without
<1> HIDE DEF c, x
<1>2. /\ IsTask(u) /\ KeepsMost(d, u) /\ KeepsPlace(d, u)
      /\ u.pc = d.pc /\ u.why = d.why /\ u.todo = d.todo /\ u.locks = d.locks
      /\ u.writes = d.writes /\ u.snapshot = d.snapshot /\ u.contract = c
  BY DEF IsTask, Field, KeepsMost, KeepsPlace
<1> QED BY <1>1, <1>2 DEF c

LEMMA SetSnapshot ==
  ASSUME NEW d, IsTask(d), NEW x
  PROVE  LET u == [d EXCEPT !.snapshot = x]
         IN  IsTask(u) /\ u.snapshot = x /\ Keeps(d, u) /\ KeepsPlace(d, u)
             /\ u.pc = d.pc /\ u.why = d.why /\ u.todo = d.todo /\ u.locks = d.locks
             /\ u.writes = d.writes
BY DEF IsTask, Field, Keeps, KeepsPlace

LEMMA SetComp ==
  ASSUME NEW d, IsTask(d), NEW y
  PROVE  LET u == [d EXCEPT !.comp = y]
         IN  IsTask(u) /\ u.comp = y /\ Keeps(d, u) /\ u.verified = d.verified /\ u.found = d.found
             /\ u.pc = d.pc /\ u.why = d.why /\ u.todo = d.todo /\ u.locks = d.locks
             /\ u.writes = d.writes /\ u.snapshot = d.snapshot
BY DEF IsTask, Field, Keeps, KeepsPlace

LEMMA SetCompSnapshot ==
  ASSUME NEW d, IsTask(d), NEW x, NEW y
  PROVE  LET u == [d EXCEPT !.comp = y, !.snapshot = x]
         IN  IsTask(u) /\ u.comp = y /\ u.snapshot = x /\ Keeps(d, u)
             /\ u.verified = d.verified /\ u.found = d.found
             /\ u.pc = d.pc /\ u.why = d.why /\ u.todo = d.todo /\ u.locks = d.locks
             /\ u.writes = d.writes
BY DEF IsTask, Field, Keeps, KeepsPlace

LEMMA SetVerified ==
  ASSUME NEW d, IsTask(d), NEW y
  PROVE  LET u == [d EXCEPT !.verified = y]
         IN  IsTask(u) /\ u.verified = y /\ Keeps(d, u) /\ u.comp = d.comp /\ u.found = d.found
             /\ u.pc = d.pc /\ u.why = d.why /\ u.todo = d.todo /\ u.locks = d.locks
             /\ u.writes = d.writes /\ u.snapshot = d.snapshot
BY DEF IsTask, Field, Keeps, KeepsPlace

LEMMA SetPc ==
  ASSUME NEW d, IsTask(d), NEW y
  PROVE  LET u == [d EXCEPT !.pc = y]
         IN  IsTask(u) /\ u.pc = y /\ Keeps(d, u) /\ KeepsPlace(d, u)
             /\ u.why = d.why /\ u.todo = d.todo /\ u.locks = d.locks
             /\ u.writes = d.writes /\ u.snapshot = d.snapshot
BY DEF IsTask, Field, Keeps, KeepsPlace

LEMMA SetFound ==
  ASSUME NEW d, IsTask(d), NEW x, NEW y
  PROVE  LET u == [d EXCEPT !.todo = x, !.found = y]
         IN  IsTask(u) /\ u.todo = x /\ u.found = y /\ Keeps(d, u)
             /\ u.comp = d.comp /\ u.verified = d.verified
             /\ u.pc = d.pc /\ u.why = d.why /\ u.locks = d.locks
             /\ u.writes = d.writes /\ u.snapshot = d.snapshot
BY DEF IsTask, Field, Keeps, KeepsPlace

LEMMA SetTodo ==
  ASSUME NEW d, IsTask(d), NEW x
  PROVE  LET u == [d EXCEPT !.todo = x]
         IN  IsTask(u) /\ u.todo = x /\ Keeps(d, u) /\ KeepsPlace(d, u)
             /\ u.pc = d.pc /\ u.why = d.why /\ u.locks = d.locks
             /\ u.writes = d.writes /\ u.snapshot = d.snapshot
BY DEF IsTask, Field, Keeps, KeepsPlace

Touched == {"creation", "runtime", "onCreation", "onRuntime", "contract", "sources"}

LEMMA TouchEffect ==
  ASSUME LockInv, NEW j \in Jobs, Touch(j)
  PROVE  LET t == task[j]
             rows == NextRows(j)
             new == DOMAIN rows \ DOMAIN Latest(t)
         IN  /\ Open(t) /\ t.todo # <<>> /\ Head(t.todo) \in Touched
             /\ UNCHANGED lastId
             /\ \/ Executes(j, rows, new) /\ KeepsPlace(t, task'[j])
                \/ /\ \E why \in {"missing", "sourceNotFound"} : Aborts(j, why)
                   /\ UNCHANGED failures
                   /\ \E k \in DOMAIN rows : k \in DOMAIN Latest(t) \ DOMAIN Visible(t)
<1> DEFINE t == task[j]
           rows == NextRows(j)
           new == DOMAIN rows \ DOMAIN Latest(t)
           after == Done(t, rows, new)
           seen == [after EXCEPT !.snapshot = Snapshot(t)]
<1>1. /\ Open(t) /\ t.todo # <<>> /\ Head(t.todo) \in Touched
      /\ ~Locked(j, DOMAIN rows)
      /\ IsTask(t) /\ DOMAIN task = Jobs
  BY DEF Touch, Statement, Touched, LockInv
<1>2. IsTask(after) /\ Keeps(after, after) /\ after.snapshot = t.snapshot /\ KeepsPlace(t, after)
  BY <1>1, DoneTask DEF Keeps
<1>3. /\ IsTask(seen) /\ seen.snapshot = Snapshot(t) /\ Keeps(after, seen) /\ KeepsPlace(after, seen)
      /\ seen.pc = after.pc /\ seen.why = after.why /\ seen.todo = after.todo
      /\ seen.locks = after.locks /\ seen.writes = after.writes
  BY <1>2, SetSnapshot
<1> DEFINE lost(s) == Without(j, seen, s)
<1>4. \/ Goes(j, after)
      \/ Goes(j, seen)
      \/ /\ ~(DOMAIN rows \subseteq DOMAIN Visible(after))
         /\ \/ Goes(j, lost(Head(t.todo)))
            \/ Throws(j, "missing") \/ Throws(j, "sourceNotFound")
  BY DEF Touch
<1> HIDE DEF seen, lost
<1>5. CASE Goes(j, after)
  <2>1. task' = [task EXCEPT ![j] = after] /\ UNCHANGED <<db, lastId, failures>>
    BY <1>5 DEF Goes
  <2>2. Executes(j, rows, new) /\ task'[j] = after
    BY <1>1, <1>2, <2>1, DoneExecutes
  <2> QED BY <1>1, <1>2, <2>1, <2>2
<1>6. CASE Goes(j, seen)
  <2>1. task' = [task EXCEPT ![j] = seen] /\ UNCHANGED <<db, lastId, failures>>
    BY <1>6 DEF Goes
  <2>2. Executes(j, rows, new) /\ task'[j] = seen
    BY <1>1, <1>3, <2>1, DoneExecutes
  <2> QED BY <1>1, <1>2, <1>3, <2>1, <2>2 DEF KeepsPlace
<1>7. ASSUME ~(DOMAIN rows \subseteq DOMAIN Visible(after))
      PROVE  \E k \in DOMAIN rows : k \in DOMAIN Latest(t) \ DOMAIN Visible(t)
  <2>2. PICK k \in DOMAIN rows : k \notin DOMAIN Visible(after)
    BY <1>7
  <2>3. after.writes = Over(Restrict(rows, new), t.writes)
    BY <1>1, DoneTask
  <2>4. DOMAIN Visible(after) = new \cup DOMAIN t.writes \cup DOMAIN Snapshot(t)
    <3>1. Snapshot(after) = Snapshot(t)
      BY <1>2 DEF Snapshot
    <3>2. DOMAIN after.writes = DOMAIN t.writes \cup new
      <4> HIDE DEF new, after
      <4> QED BY <2>3, OverSomeKeys
    <3>3. DOMAIN Visible(after) = DOMAIN after.writes \cup DOMAIN Snapshot(after)
      BY OverKeys DEF Visible
    <3> QED BY <3>1, <3>2, <3>3
  <2>5. DOMAIN Visible(t) = DOMAIN t.writes \cup DOMAIN Snapshot(t)
    BY OverKeys DEF Visible
  <2>6. k \in DOMAIN Latest(t) \ DOMAIN Visible(t)
    BY <2>2, <2>4, <2>5
  <2> QED BY <2>2, <2>6
<1>8. CASE /\ ~(DOMAIN rows \subseteq DOMAIN Visible(after))
           /\ \/ Throws(j, "missing") \/ Throws(j, "sourceNotFound")
  <2>1. /\ \E why \in {"missing", "sourceNotFound"} : Aborts(j, why)
        /\ UNCHANGED <<lastId, failures>>
    BY <1>8, ThrowsAborts
  <2> QED BY <1>1, <1>7, <1>8, <2>1
<1>9. CASE /\ ~(DOMAIN rows \subseteq DOMAIN Visible(after))
           /\ Goes(j, lost(Head(t.todo)))
  <2>1. PICK h, u : h = Head(t.todo) /\ u = lost(h)
    OBVIOUS
  <2>2. task' = [task EXCEPT ![j] = u] /\ UNCHANGED <<db, lastId, failures>>
    BY <1>9, <2>1 DEF Goes
  <2>3. /\ IsTask(u) /\ KeepsMost(seen, u) /\ KeepsPlace(seen, u)
        /\ u.pc = seen.pc /\ u.why = seen.why /\ u.todo = seen.todo /\ u.locks = seen.locks
        /\ u.writes = seen.writes /\ u.snapshot = seen.snapshot
        /\ u.contract = IF h = "onCreation" THEN BareContract(j, seen.export) ELSE seen.contract
    BY <1>3, <2>1, SetWithout DEF lost
  <2>4. Keeps(t, after)
    BY <1>1, DoneTask
  <2>5. Blind(j)
    BY <1>1, <1>7, <1>9 DEF Blind
  <2>6. KeepsMost(after, u)
    BY <1>3, <2>3 DEF Keeps, KeepsMost
  <2>7. Overlooks(j, u)
    BY <1>3, <2>1, <2>3, <2>4, <2>5 DEF Overlooks, Keeps
  <2>8. /\ u.pc = after.pc /\ u.why = after.why /\ u.todo = after.todo
        /\ u.locks = after.locks /\ u.writes = after.writes
        /\ u.snapshot \in {task[j].snapshot, Snapshot(task[j])}
    BY <1>3, <2>3
  <2>9. Executes(j, rows, new) /\ task'[j] = u
    BY <1>1, <2>2, <2>3, <2>6, <2>7, <2>8, OverlookExecutes
  <2> QED BY <1>1, <1>2, <1>3, <2>2, <2>3, <2>9 DEF KeepsPlace
<1> QED BY <1>4, <1>5, <1>6, <1>8, <1>9

LEMMA AddFilesEffect ==
  ASSUME LockInv, NEW j \in Jobs, AddFiles(j)
  PROVE  LET t == task[j]
             u == task'[j]
             rows == NextRows(j)
         IN  /\ Open(t) /\ t.todo # <<>> /\ Head(t.todo) = "files"
             /\ UNCHANGED lastId
             /\ Executes(j, rows, DOMAIN rows \ DOMAIN Latest(t))
             /\ u.comp = t.comp /\ u.found = t.found
             /\ u.verified = Verified(t.comp, t.export.address)
<1> DEFINE t == task[j]
           rows == NextRows(j)
           new == DOMAIN rows \ DOMAIN Latest(t)
           d == Done(t, rows, new)
           v == Verified(t.comp, t.export.address)
           after == [d EXCEPT !.verified = v]
<1>1. /\ Open(t) /\ t.todo # <<>> /\ Head(t.todo) = "files"
      /\ ~Locked(j, DOMAIN rows)
      /\ IsTask(t) /\ DOMAIN task = Jobs
      /\ Goes(j, after)
  BY DEF AddFiles, Statement, LockInv
<1>2. IsTask(d) /\ d.snapshot = t.snapshot /\ KeepsPlace(t, d)
  BY <1>1, DoneTask
<1>3. /\ IsTask(after) /\ after.verified = v /\ after.comp = d.comp /\ after.found = d.found
      /\ after.pc = d.pc /\ after.why = d.why /\ after.todo = d.todo /\ after.locks = d.locks
      /\ after.writes = d.writes /\ after.snapshot = d.snapshot /\ Keeps(d, after)
  BY <1>2, SetVerified
<1> HIDE DEF after
<1>4. task' = [task EXCEPT ![j] = after] /\ UNCHANGED <<db, lastId, failures>>
  BY <1>1 DEF Goes
<1>5. Executes(j, rows, new) /\ task'[j] = after
  BY <1>1, <1>2, <1>3, <1>4, DoneExecutes
<1> QED BY <1>1, <1>2, <1>3, <1>4, <1>5 DEF KeepsPlace

LEMMA MissesDeployment ==
  ASSUME NEW j \in Jobs, task[j].todo # <<>>, Head(task[j].todo) = "deployment",
         Unchanged(task[j], NextRows(j)),
         LET t == task[j]
             rows == NextRows(j)
             k == Deployment(t.export.address)
         IN  ~ /\ k \in DOMAIN Visible(t)
               /\ Visible(t)[k].contract = rows[k].contract
               /\ rows[k].transaction \in {None, Visible(t)[k].transaction}
  PROVE  Visible(task[j]) # Latest(task[j])
<1> DEFINE k == Deployment(task[j].export.address)
           rows == NextRows(j)
<1>1. k \in DOMAIN rows
  BY NextDeployment
<1> HIDE DEF k, rows
<1>2. k \in DOMAIN Latest(task[j]) /\ Latest(task[j])[k] = rows[k]
  BY <1>1 DEF Unchanged, rows
<1>3. ~ /\ k \in DOMAIN Visible(task[j])
        /\ Visible(task[j])[k].contract = rows[k].contract
        /\ rows[k].transaction \in {None, Visible(task[j])[k].transaction}
  BY DEF k, rows
<1> QED BY <1>2, <1>3

LEMMA InsertDeploymentEffect ==
  ASSUME LockInv, NEW j \in Jobs, InsertDeployment(j)
  PROVE  LET t == task[j]
             rows == NextRows(j)
         IN  /\ Open(t) /\ t.todo # <<>> /\ Head(t.todo) = "deployment"
             /\ UNCHANGED lastId
             /\ Executes(j, rows, DOMAIN rows) /\ KeepsPlace(t, task'[j])
<1> DEFINE t == task[j]
           rows == NextRows(j)
           k == Deployment(t.export.address)
           after == Done(t, rows, DOMAIN rows)
           seen == [after EXCEPT !.snapshot = Snapshot(t)]
           found == /\ k \in DOMAIN Visible(t)
                    /\ Visible(t)[k].contract = rows[k].contract
                    /\ rows[k].transaction \in {None, Visible(t)[k].transaction}
<1>1. /\ Open(t) /\ t.todo # <<>> /\ Head(t.todo) = "deployment"
      /\ ~Locked(j, DOMAIN rows)
      /\ IsTask(t) /\ DOMAIN task = Jobs
  BY DEF InsertDeployment, Statement, LockInv
<1>2. IsTask(after) /\ Keeps(after, after) /\ after.snapshot = t.snapshot /\ KeepsPlace(t, after)
  BY <1>1, DoneTask DEF Keeps
<1>3. /\ IsTask(seen) /\ seen.snapshot = Snapshot(t) /\ Keeps(after, seen) /\ KeepsPlace(after, seen)
      /\ seen.pc = after.pc /\ seen.why = after.why /\ seen.todo = after.todo
      /\ seen.locks = after.locks /\ seen.writes = after.writes
  BY <1>2, SetSnapshot
<1> DEFINE lost == Without(j, seen, "deployment")
<1>4. \/ Goes(j, after)
      \/ Goes(j, seen)
      \/ Unchanged(t, rows) /\ ~found /\ Goes(j, lost)
  BY DEF InsertDeployment
<1> HIDE DEF seen, lost
<1>5. CASE Goes(j, after)
  <2>1. task' = [task EXCEPT ![j] = after] /\ UNCHANGED <<db, lastId, failures>>
    BY <1>5 DEF Goes
  <2>2. Executes(j, rows, DOMAIN rows) /\ task'[j] = after
    BY <1>1, <1>2, <2>1, DoneExecutes
  <2> QED BY <1>1, <1>2, <2>1, <2>2
<1>6. CASE Goes(j, seen)
  <2>1. task' = [task EXCEPT ![j] = seen] /\ UNCHANGED <<db, lastId, failures>>
    BY <1>6 DEF Goes
  <2>2. Executes(j, rows, DOMAIN rows) /\ task'[j] = seen
    BY <1>1, <1>3, <2>1, DoneExecutes
  <2> QED BY <1>1, <1>2, <1>3, <2>1, <2>2 DEF KeepsPlace
<1>7. CASE Unchanged(t, rows) /\ ~found /\ Goes(j, lost)
  <2>1. PICK u : u = lost
    OBVIOUS
  <2>2. task' = [task EXCEPT ![j] = u] /\ UNCHANGED <<db, lastId, failures>>
    BY <1>7, <2>1 DEF Goes
  <2>3. /\ IsTask(u) /\ KeepsMost(seen, u) /\ KeepsPlace(seen, u)
        /\ u.pc = seen.pc /\ u.why = seen.why /\ u.todo = seen.todo /\ u.locks = seen.locks
        /\ u.writes = seen.writes /\ u.snapshot = seen.snapshot
        /\ u.contract = seen.contract
    BY <1>3, <2>1, SetWithout DEF lost
  <2>4. Keeps(t, after)
    BY <1>1, DoneTask
  <2>5. Blind(j)
    <3>1. Visible(task[j]) # Latest(task[j])
      BY <1>1, <1>7, MissesDeployment
    <3> QED BY <1>1, <3>1 DEF Blind
  <2>6. KeepsMost(after, u)
    BY <1>3, <2>3 DEF Keeps, KeepsMost
  <2>7. Overlooks(j, u)
    BY <1>3, <2>3, <2>4, <2>5 DEF Overlooks, Keeps
  <2>8. /\ u.pc = after.pc /\ u.why = after.why /\ u.todo = after.todo
        /\ u.locks = after.locks /\ u.writes = after.writes
        /\ u.snapshot \in {task[j].snapshot, Snapshot(task[j])}
    BY <1>3, <2>3
  <2>9. Executes(j, rows, DOMAIN rows) /\ task'[j] = u
    BY <1>1, <2>2, <2>3, <2>6, <2>7, <2>8, OverlookExecutes
  <2> QED BY <1>1, <1>2, <1>3, <2>2, <2>3, <2>9 DEF KeepsPlace
<1> QED BY <1>4, <1>5, <1>6, <1>7

LEMMA InsertCompiledEffect ==
  ASSUME LockInv, NEW j \in Jobs, InsertCompiled(j)
  PROVE  LET t == task[j]
             u == task'[j]
             rows == NextRows(j)
             e == t.export
             same == {k \in DOMAIN Visible(t) :
                        IsRow(k, "compiled") /\ k[3] = e.creation /\ k[4] = e.runtime}
         IN  /\ Open(t) /\ t.todo # <<>> /\ Head(t.todo) = "compiled"
             /\ UNCHANGED lastId
             /\ \/ /\ Executes(j, rows, DOMAIN rows)
                   /\ u.verified = t.verified /\ u.found = t.found
                   /\ \/ u.comp = Compiled(e)
                      \/ u.comp \in same /\ Unchanged(t, rows)
                \/ /\ Aborts(j, "missing") /\ UNCHANGED failures
                   /\ Unchanged(t, rows) /\ same = {}
<1> DEFINE t == task[j]
           rows == NextRows(j)
           e == t.export
           after == Done(t, rows, DOMAIN rows)
           same == {k \in DOMAIN Visible(t) :
                      IsRow(k, "compiled") /\ k[3] = e.creation /\ k[4] = e.runtime}
           own == [after EXCEPT !.comp = Compiled(e)]
           other(k) == [after EXCEPT !.comp = k, !.snapshot = Snapshot(t)]
<1>1. /\ Open(t) /\ t.todo # <<>> /\ Head(t.todo) = "compiled"
      /\ ~Locked(j, DOMAIN rows)
      /\ IsTask(t) /\ DOMAIN task = Jobs
  <2>1. Statement(j, {"compiled"})
    BY DEF InsertCompiled
  <2> QED BY <2>1 DEF Statement, LockInv
<1>2. IsTask(after) /\ after.snapshot = t.snapshot /\ KeepsPlace(t, after)
  BY <1>1, DoneTask
<1>3. /\ IsTask(own) /\ own.comp = Compiled(e) /\ own.snapshot = after.snapshot /\ Keeps(after, own)
      /\ own.verified = after.verified /\ own.found = after.found
      /\ own.pc = after.pc /\ own.why = after.why /\ own.todo = after.todo
      /\ own.locks = after.locks /\ own.writes = after.writes
  BY <1>2, SetComp
<1>4. ASSUME NEW k
      PROVE  /\ IsTask(other(k)) /\ other(k).comp = k /\ other(k).snapshot = Snapshot(t)
             /\ Keeps(after, other(k))
             /\ other(k).verified = after.verified /\ other(k).found = after.found
             /\ other(k).pc = after.pc /\ other(k).why = after.why /\ other(k).todo = after.todo
             /\ other(k).locks = after.locks /\ other(k).writes = after.writes
  <2> HIDE DEF after
  <2> QED BY <1>2 DEF other, IsTask, Field, Keeps, KeepsPlace
<1>5. \/ Goes(j, own)
      \/ Unchanged(t, rows) /\ \E k \in same : Goes(j, other(k))
      \/ Unchanged(t, rows) /\ same = {} /\ Throws(j, "missing")
  BY DEF InsertCompiled
<1> HIDE DEF own, other
<1>6. CASE Goes(j, own)
  <2>1. task' = [task EXCEPT ![j] = own] /\ UNCHANGED <<db, lastId, failures>>
    BY <1>6 DEF Goes
  <2>2. Executes(j, rows, DOMAIN rows) /\ task'[j] = own
    BY <1>1, <1>2, <1>3, <2>1, DoneExecutes
  <2> QED BY <1>1, <1>2, <1>3, <2>1, <2>2 DEF KeepsPlace
<1>7. CASE Unchanged(t, rows) /\ \E k \in same : Goes(j, other(k))
  <2>1. PICK k \in same : Goes(j, other(k))
    BY <1>7
  <2>2. task' = [task EXCEPT ![j] = other(k)] /\ UNCHANGED <<db, lastId, failures>>
    BY <2>1 DEF Goes
  <2>3. /\ IsTask(other(k)) /\ other(k).comp = k /\ other(k).snapshot = Snapshot(t)
        /\ Keeps(after, other(k))
        /\ other(k).verified = after.verified /\ other(k).found = after.found
        /\ other(k).pc = after.pc /\ other(k).why = after.why /\ other(k).todo = after.todo
        /\ other(k).locks = after.locks /\ other(k).writes = after.writes
    BY <1>4
  <2>4. Executes(j, rows, DOMAIN rows) /\ task'[j] = other(k)
    BY <1>1, <2>2, <2>3, DoneExecutes
  <2> QED BY <1>1, <1>2, <1>7, <2>2, <2>3, <2>4 DEF KeepsPlace
<1>8. CASE Unchanged(t, rows) /\ same = {} /\ Throws(j, "missing")
  <2>1. Aborts(j, "missing") /\ UNCHANGED <<lastId, failures>>
    BY <1>8, ThrowsAborts
  <2> QED BY <1>1, <1>8, <2>1
<1> QED BY <1>5, <1>6, <1>7, <1>8

LEMMA InsertVerifiedEffect ==
  ASSUME LockInv, NEW j \in Jobs, InsertVerified(j)
  PROVE  LET t == task[j]
             rows == NextRows(j)
         IN  /\ Open(t) /\ t.todo # <<>> /\ Head(t.todo) = "verified"
             /\ UNCHANGED lastId
             /\ \/ Executes(j, rows, DOMAIN rows) /\ KeepsPlace(t, task'[j])
                \/ Aborts(j, "conflict") /\ UNCHANGED failures
<1> DEFINE t == task[j]
           rows == NextRows(j)
           after == Done(t, rows, DOMAIN rows)
<1>1. /\ Open(t) /\ t.todo # <<>> /\ Head(t.todo) = "verified"
      /\ ~Locked(j, DOMAIN rows)
      /\ IsTask(t) /\ DOMAIN task = Jobs
      /\ Goes(j, after) \/ Throws(j, "conflict")
  BY DEF InsertVerified, Statement, LockInv
<1>2. IsTask(after) /\ Keeps(after, after) /\ after.snapshot = t.snapshot /\ KeepsPlace(t, after)
  BY <1>1, DoneTask DEF Keeps
<1>3. CASE Goes(j, after)
  <2>1. task' = [task EXCEPT ![j] = after] /\ UNCHANGED <<db, lastId, failures>>
    BY <1>3 DEF Goes
  <2>2. Executes(j, rows, DOMAIN rows) /\ task'[j] = after
    BY <1>1, <1>2, <2>1, DoneExecutes
  <2> QED BY <1>1, <1>2, <2>1, <2>2
<1>4. CASE Throws(j, "conflict")
  <2>1. Aborts(j, "conflict") /\ UNCHANGED <<lastId, failures>>
    BY <1>4, ThrowsAborts
  <2> QED BY <1>1, <2>1
<1> QED BY <1>1, <1>3, <1>4

\* A statement that neither locks nor writes a row.
LEMMA NothingExecutes ==
  ASSUME LockInv, NEW j \in Jobs, Open(task[j]), task[j].todo # <<>>,
         NEW u, task' = [task EXCEPT ![j] = u], UNCHANGED <<db, failures>>,
         IsTask(u), Keeps(task[j], u),
         u.pc = task[j].pc, u.why = task[j].why, u.todo = Tail(task[j].todo),
         u.locks = task[j].locks, u.writes = task[j].writes, u.snapshot = task[j].snapshot
  PROVE  Executes(j, <<>>, {}) /\ task'[j] = u
<1>1. DOMAIN task = Jobs
  BY DEF LockInv
<1>2. /\ DOMAIN task' = Jobs /\ task' = [k \in Jobs |-> task'[k]]
      /\ task'[j] = u
      /\ \A k \in Jobs \ {j} : task'[k] = task[k]
  BY <1>1, PutTask
<1>3. DOMAIN <<>> = {}
  OBVIOUS
<1>4. ~Locked(j, {})
  BY DEF Locked
<1>5. KeepsMost(task[j], u)
  BY DEF Keeps, KeepsMost
<1> QED BY <1>2, <1>3, <1>4, <1>5 DEF Executes

\* A row that was not found is needed.
LEMMA LacksRowEffect ==
  ASSUME LockInv, NEW j \in Jobs, LacksRow(j)
  PROVE  /\ Open(task[j]) /\ task[j].lacks # {}
         /\ Aborts(j, "missing") /\ UNCHANGED <<lastId, failures>>
<1>1. Open(task[j]) /\ task[j].lacks # {}
  BY DEF LacksRow, Lacking
<1>2. Aborts(j, "missing") /\ UNCHANGED <<lastId, failures>>
  BY ThrowsAborts DEF LacksRow
<1> QED BY <1>1, <1>2

LEMMA ReadOldMatchEffect ==
  ASSUME LockInv, NEW j \in Jobs, ReadOldMatch(j)
  PROVE  LET t == task[j]
             u == task'[j]
         IN  /\ Open(t) /\ t.todo # <<>> /\ Head(t.todo) = "oldMatch"
             /\ UNCHANGED lastId
             /\ Executes(j, <<>>, {})
             /\ u.comp = t.comp /\ u.verified = t.verified
             /\ u.found = (Match(t.verified) \in DOMAIN db)
             /\ u.snapshot = t.snapshot
<1> DEFINE t == task[j]
           is == Match(t.verified) \in DOMAIN db
           rest == Tail(t.todo)
           after == [t EXCEPT !.todo = rest, !.found = is]
<1>1. Statement(j, {"oldMatch"}) /\ Goes(j, [task[j] EXCEPT !.todo = Tail(@),
                !.found = Match(task[j].verified) \in DOMAIN db])
  BY DEF ReadOldMatch
<1>2. /\ Open(t) /\ t.todo # <<>> /\ Head(t.todo) = "oldMatch"
      /\ IsTask(t) /\ DOMAIN task = Jobs
      /\ task' = [task EXCEPT ![j] = after] /\ UNCHANGED <<db, lastId, failures>>
  BY <1>1 DEF Statement, LockInv, Goes
<1> HIDE DEF is, rest
<1>3. /\ IsTask(after) /\ after.todo = rest /\ after.found = is /\ Keeps(t, after)
      /\ after.comp = t.comp /\ after.verified = t.verified
      /\ after.pc = t.pc /\ after.why = t.why /\ after.locks = t.locks
      /\ after.writes = t.writes /\ after.snapshot = t.snapshot
  BY <1>2 DEF IsTask, Field, Keeps
<1> HIDE DEF after
<1>4. Executes(j, <<>>, {}) /\ task'[j] = after
  BY <1>2, <1>3, NothingExecutes DEF rest
<1> QED BY <1>2, <1>3, <1>4 DEF is

LEMMA WriteMatchEffect ==
  ASSUME LockInv, NEW j \in Jobs, WriteMatch(j)
  PROVE  LET t == task[j]
             u == task'[j]
             k == MatchOf(j)
             row == [db[k] EXCEPT !.level = t.level]
         IN  /\ Open(t) /\ t.todo # <<>> /\ Head(t.todo) = "match"
             /\ \/ /\ t.found /\ k \in DOMAIN db /\ UNCHANGED lastId
                   /\ Executes(j, OneRow(k, row), {k}) /\ KeepsPlace(t, u)
                   /\ u.snapshot = t.snapshot
                \/ /\ t.found /\ k \notin DOMAIN db /\ UNCHANGED lastId
                   /\ Executes(j, <<>>, {}) /\ KeepsPlace(t, u)
                   /\ u.snapshot = t.snapshot
                \/ /\ ~t.found /\ k \in DOMAIN db
                   /\ Aborts(j, "taken") /\ lastId' = lastId + 1 /\ UNCHANGED failures
                \/ /\ ~t.found /\ k \notin DOMAIN db /\ lastId' = lastId + 1
                   /\ Executes(j, NextRows(j), {k}) /\ KeepsPlace(t, u)
                   /\ u.snapshot = t.snapshot
<1> DEFINE t == task[j]
           k == MatchOf(j)
           row == [db[k] EXCEPT !.level = t.level]
           up == Done(t, OneRow(k, row), {k})
           new == Done(t, NextRows(j), {k})
           not == [t EXCEPT !.todo = Tail(@)]
<1>1. /\ Open(t) /\ t.todo # <<>> /\ Head(t.todo) = "match"
      /\ ~Locked(j, DOMAIN NextRows(j))
      /\ IsTask(t) /\ DOMAIN task = Jobs
  <2>1. Statement(j, {"match"})
    BY DEF WriteMatch
  <2> QED BY <2>1 DEF Statement, LockInv
<1>2. DOMAIN NextRows(j) = {k}
  BY <1>1, OneRowParts DEF NextRows, Rows, MatchOf
<1>3. DOMAIN OneRow(k, row) = {k}
  BY OneRowParts
<1>4. \/ t.found /\ k \in DOMAIN db /\ Goes(j, up)
      \/ t.found /\ k \notin DOMAIN db /\ Goes(j, not)
      \/ ~t.found /\ k \in DOMAIN db /\ Refused(j)
      \/ /\ ~t.found /\ k \notin DOMAIN db
         /\ task' = [task EXCEPT ![j] = new] /\ lastId' = lastId + 1 /\ UNCHANGED <<db, failures>>
  BY DEF WriteMatch
<1>5. CASE t.found /\ k \in DOMAIN db /\ Goes(j, up)
  <2>1. /\ IsTask(up) /\ Keeps(up, up) /\ KeepsPlace(t, up) /\ up.snapshot = t.snapshot
    BY <1>1, DoneTask DEF Keeps
  <2>2. task' = [task EXCEPT ![j] = up] /\ UNCHANGED <<db, lastId, failures>>
    BY <1>5 DEF Goes
  <2>3. Executes(j, OneRow(k, row), {k}) /\ task'[j] = up
    <3> HIDE DEF k, row
    <3> QED BY <1>1, <1>2, <1>3, <2>1, <2>2, DoneExecutes
  <2> QED BY <1>1, <1>5, <2>1, <2>2, <2>3
<1>6. CASE t.found /\ k \notin DOMAIN db /\ Goes(j, not)
  <2>1. /\ IsTask(not) /\ not.todo = Tail(t.todo) /\ Keeps(t, not) /\ KeepsPlace(t, not)
        /\ not.pc = t.pc /\ not.why = t.why /\ not.locks = t.locks
        /\ not.writes = t.writes /\ not.snapshot = t.snapshot
    BY <1>1, SetTodo
  <2> HIDE DEF not
  <2>2. task' = [task EXCEPT ![j] = not] /\ UNCHANGED <<db, lastId, failures>>
    BY <1>6 DEF Goes
  <2>3. Executes(j, <<>>, {}) /\ task'[j] = not
    BY <1>1, <2>1, <2>2, NothingExecutes
  <2> QED BY <1>1, <1>6, <2>1, <2>2, <2>3
<1>7. CASE ~t.found /\ k \in DOMAIN db /\ Refused(j)
  <2>1. Aborts(j, "taken") /\ lastId' = lastId + 1 /\ UNCHANGED failures
    BY <1>7, RefusedAborts
  <2> QED BY <1>1, <1>7, <2>1
<1>8. CASE /\ ~t.found /\ k \notin DOMAIN db
           /\ task' = [task EXCEPT ![j] = new] /\ lastId' = lastId + 1 /\ UNCHANGED <<db, failures>>
  <2>1. /\ IsTask(new) /\ Keeps(new, new) /\ KeepsPlace(t, new) /\ new.snapshot = t.snapshot
    BY <1>1, DoneTask DEF Keeps
  <2>2. Executes(j, NextRows(j), {k}) /\ task'[j] = new
    <3> HIDE DEF k
    <3> QED BY <1>1, <1>2, <1>8, <2>1, DoneExecutes
  <2> QED BY <1>1, <1>8, <2>1, <2>2
<1> QED BY <1>4, <1>5, <1>6, <1>7, <1>8

\* The rows of the transaction become those of the database.
Commits(j, pc, why) ==
  LET t == task[j]
      u == task'[j]
  IN  /\ Open(t) /\ t.todo = <<>>
      /\ DOMAIN task' = Jobs /\ task' = [k \in Jobs |-> task'[k]]
      /\ \A k \in Jobs \ {j} : task'[k] = task[k]
      /\ IsTask(u) /\ Keeps(t, u) /\ KeepsPlace(t, u)
      /\ u.pc = pc /\ u.why = why
      /\ u.todo = <<>> /\ u.writes = <<>> /\ u.locks = {} /\ u.snapshot = None
      /\ DOMAIN db' = DOMAIN t.writes \cup DOMAIN db
      /\ \A k \in DOMAIN t.writes : db'[k] = t.writes[k]
      /\ \A k \in DOMAIN db \ DOMAIN t.writes : db'[k] = db[k]

LEMMA CommittedEffect ==
  ASSUME LockInv, NEW j \in Jobs, NEW pc, NEW why, Committed(j, pc, why)
  PROVE  Commits(j, pc, why) /\ db' = Over(task[j].writes, db)
<1>1. /\ Open(task[j]) /\ task[j].todo = <<>>
      /\ DOMAIN task = Jobs /\ IsTask(task[j])
      /\ task' = [task EXCEPT ![j] = Ended(task[j], pc, why)]
      /\ db' = Over(task[j].writes, db)
  BY DEF LockInv, Committed
<1>2. task'[j] = Ended(task[j], pc, why)
  BY <1>1
<1>3. /\ DOMAIN task' = Jobs /\ task' = [k \in Jobs |-> task'[k]]
      /\ \A k \in Jobs \ {j} : task'[k] = task[k]
  BY <1>1, PutTask
<1>4. DOMAIN db' = DOMAIN task[j].writes \cup DOMAIN db
  <2>1. \A k : k \in DOMAIN db' <=> k \in DOMAIN task[j].writes \/ k \in DOMAIN db
    BY <1>1, OverKeys
  <2> QED BY <2>1
<1>5. \A k \in DOMAIN task[j].writes : db'[k] = task[j].writes[k]
  BY <1>1, OverFirst
<1>6. \A k \in DOMAIN db \ DOMAIN task[j].writes : db'[k] = db[k]
  BY <1>1, OverSecond
<1> QED BY <1>1, <1>2, <1>3, <1>4, <1>5, <1>6, EndedTask DEF Commits

\* Only the place of one task changes.
Turns(j, pc) ==
  LET t == task[j]
      u == task'[j]
  IN  /\ DOMAIN task' = Jobs /\ task' = [k \in Jobs |-> task'[k]]
      /\ \A k \in Jobs \ {j} : task'[k] = task[k]
      /\ IsTask(u) /\ Keeps(t, u) /\ KeepsPlace(t, u)
      /\ u.pc = pc /\ u.why = t.why
      /\ u.todo = t.todo /\ u.writes = t.writes /\ u.locks = t.locks /\ u.snapshot = t.snapshot

LEMMA TurnsEffect ==
  ASSUME LockInv, NEW j \in Jobs, NEW pc, task' = [task EXCEPT ![j] = [task[j] EXCEPT !.pc = pc]]
  PROVE  Turns(j, pc)
<1> DEFINE u == [task[j] EXCEPT !.pc = pc]
<1>1. DOMAIN task = Jobs /\ IsTask(task[j])
  BY DEF LockInv
<1>2. /\ IsTask(u) /\ u.pc = pc /\ Keeps(task[j], u) /\ KeepsPlace(task[j], u)
      /\ u.why = task[j].why /\ u.todo = task[j].todo /\ u.locks = task[j].locks
      /\ u.writes = task[j].writes /\ u.snapshot = task[j].snapshot
  BY <1>1, SetPc
<1>3. task' = [task EXCEPT ![j] = u]
  OBVIOUS
<1> HIDE DEF u
<1>4. /\ DOMAIN task' = Jobs /\ task' = [k \in Jobs |-> task'[k]]
      /\ task'[j] = u
      /\ \A k \in Jobs \ {j} : task'[k] = task[k]
  BY <1>1, <1>3, PutTask
<1> QED BY <1>2, <1>4 DEF Turns

\* A match has become that of another verified contract, or has another level.
Moves(j) ==
  LET t == task[j]
      from == Match(t.old)
      to == MatchOf(j)
  IN  /\ t.pc = "updateMatch" /\ ~Locked(j, {from, to})
      /\ from \in DOMAIN db
      /\ from = to \/ to \notin DOMAIN db
      /\ DOMAIN db' = (DOMAIN db \ {from}) \cup {to}
      /\ db'[to] = [db[from] EXCEPT !.level = t.level]
      /\ \A k \in DOMAIN db \ {from, to} : db'[k] = db[k]
      /\ Turns(j, "stored")
      /\ UNCHANGED <<lastId, failures>>

LEMMA UpdateMatchEffect ==
  ASSUME LockInv, NEW j \in Jobs, UpdateMatch(j)
  PROVE  /\ task[j].pc = "updateMatch"
         /\ \/ Turns(j, "insertMatch") /\ UNCHANGED <<db, lastId, failures>>
            \/ Aborts(j, "taken") /\ UNCHANGED <<lastId, failures>>
            \/ Moves(j)
<1> DEFINE t == task[j]
           from == Match(t.old)
           to == MatchOf(j)
           row == [db[from] EXCEPT !.level = t.level]
           moved == Over(OneRow(to, row), Restrict(db, DOMAIN db \ {from}))
<1>1. /\ t.pc = "updateMatch" /\ ~Locked(j, {from, to})
      /\ \/ Goes(j, [t EXCEPT !.pc = "insertMatch"])
         \/ Throws(j, "taken")
         \/ /\ from \in DOMAIN db
            /\ from = to \/ to \notin DOMAIN db
            /\ db' = moved
            /\ Stored(j)
            /\ UNCHANGED <<lastId, failures>>
  BY DEF UpdateMatch
<1>2. CASE Goes(j, [t EXCEPT !.pc = "insertMatch"])
  <2>1. /\ task' = [task EXCEPT ![j] = [task[j] EXCEPT !.pc = "insertMatch"]]
        /\ UNCHANGED <<db, lastId, failures>>
    BY <1>2 DEF Goes
  <2>2. Turns(j, "insertMatch")
    BY <2>1, TurnsEffect
  <2> QED BY <1>1, <2>1, <2>2
<1>3. CASE Throws(j, "taken")
  <2>1. Aborts(j, "taken") /\ UNCHANGED <<lastId, failures>>
    BY <1>3, ThrowsAborts
  <2> QED BY <1>1, <2>1
<1>4. CASE /\ from \in DOMAIN db
           /\ from = to \/ to \notin DOMAIN db
           /\ db' = moved
           /\ Stored(j)
           /\ UNCHANGED <<lastId, failures>>
  <2>1. task' = [task EXCEPT ![j] = [task[j] EXCEPT !.pc = "stored"]]
    BY <1>4 DEF Stored
  <2>2. Turns(j, "stored")
    BY <2>1, TurnsEffect
  <2> DEFINE one == OneRow(to, row)
             rest == Restrict(db, DOMAIN db \ {from})
  <2>3. db' = Over(one, rest)
    BY <1>4
  <2>4. DOMAIN one = {to} /\ one[to] = row
    BY OneRowParts
  <2>5. DOMAIN rest = DOMAIN db \ {from} /\ \A k \in DOMAIN db \ {from} : rest[k] = db[k]
    BY DEF Restrict
  <2> HIDE DEF one, rest, to, row
  <2>6. DOMAIN db' = (DOMAIN db \ {from}) \cup {to}
    <3>1. \A k : k \in DOMAIN db' <=> k \in DOMAIN one \/ k \in DOMAIN rest
      BY <2>3, OverKeys
    <3> QED BY <3>1, <2>4, <2>5
  <2>7. db'[to] = row
    <3>1. db'[to] = one[to]
      BY <2>3, <2>4, OverFirst
    <3> QED BY <3>1, <2>4
  <2>8. \A k \in DOMAIN db \ {from, to} : db'[k] = db[k]
    <3> SUFFICES ASSUME NEW k \in DOMAIN db \ {from, to} PROVE db'[k] = db[k]
      OBVIOUS
    <3>1. k \in DOMAIN rest \ DOMAIN one
      BY <2>4, <2>5
    <3>2. db'[k] = rest[k]
      BY <2>3, <3>1, OverSecond
    <3> QED BY <2>5, <3>2
  <2> QED BY <1>1, <1>4, <2>2, <2>6, <2>7, <2>8 DEF Moves, to, row
<1> QED BY <1>1, <1>2, <1>3, <1>4

\* A match is inserted in a statement of its own.
Inserts(j) ==
  LET t == task[j]
      k == MatchOf(j)
  IN  /\ t.pc = "insertMatch" /\ ~Locked(j, {k})
      /\ k \notin DOMAIN db
      /\ DOMAIN db' = DOMAIN db \cup {k}
      /\ db'[k] = [id |-> lastId + 1, level |-> t.level]
      /\ \A x \in DOMAIN db : db'[x] = db[x]
      /\ lastId' = lastId + 1
      /\ Turns(j, "stored")
      /\ UNCHANGED failures

LEMMA InsertMatchEffect ==
  ASSUME LockInv, NEW j \in Jobs, InsertMatch(j)
  PROVE  /\ task[j].pc = "insertMatch"
         /\ \/ /\ Aborts(j, "taken") /\ MatchOf(j) \in DOMAIN db
               /\ lastId' = lastId + 1 /\ UNCHANGED failures
            \/ Inserts(j)
<1> DEFINE t == task[j]
           k == MatchOf(j)
           row == [id |-> lastId + 1, level |-> t.level]
           one == OneRow(k, row)
<1>1. /\ t.pc = "insertMatch" /\ ~Locked(j, {k})
      /\ \/ Refused(j) /\ k \in DOMAIN db
         \/ /\ k \notin DOMAIN db
            /\ db' = Over(one, db)
            /\ lastId' = lastId + 1
            /\ Stored(j)
            /\ UNCHANGED failures
  BY DEF InsertMatch
<1>2. CASE Refused(j) /\ k \in DOMAIN db
  BY <1>1, <1>2, RefusedAborts
<1>3. CASE /\ k \notin DOMAIN db
           /\ db' = Over(one, db)
           /\ lastId' = lastId + 1
           /\ Stored(j)
           /\ UNCHANGED failures
  <2>1. task' = [task EXCEPT ![j] = [task[j] EXCEPT !.pc = "stored"]]
    BY <1>3 DEF Stored
  <2>2. Turns(j, "stored")
    BY <2>1, TurnsEffect
  <2>3. DOMAIN one = {k} /\ one[k] = row
    BY OneRowParts
  <2> HIDE DEF one, k, row
  <2>4. DOMAIN db' = DOMAIN db \cup {k}
    <3>1. \A x : x \in DOMAIN db' <=> x \in DOMAIN one \/ x \in DOMAIN db
      BY <1>3, OverKeys
    <3> QED BY <3>1, <2>3
  <2>5. db'[k] = row
    <3>1. db'[k] = one[k]
      BY <1>3, <2>3, OverFirst
    <3> QED BY <3>1, <2>3
  <2>6. \A x \in DOMAIN db : db'[x] = db[x]
    BY <1>3, <2>3, OverSecond
  <2> QED BY <1>1, <1>3, <2>2, <2>4, <2>5, <2>6 DEF Inserts, k, row
<1> QED BY <1>1, <1>2, <1>3

LEMMA LoseConnectionEffect ==
  ASSUME LockInv, NEW j \in Jobs, LoseConnection(j)
  PROVE  /\ Open(task[j]) /\ UNCHANGED lastId
         /\ failures < MaxFailures /\ failures' = failures + 1
         /\ Aborts(j, "fault") \/ Commits(j, "failed", "fault")
<1>1. /\ UNCHANGED lastId /\ failures < MaxFailures /\ failures' = failures + 1
      /\ \/ /\ Open(task[j])
            /\ task' = [task EXCEPT ![j] = Ended(task[j], "failed", "fault")]
            /\ UNCHANGED db
         \/ Committed(j, "failed", "fault")
  BY DEF LoseConnection
<1>2. CASE /\ Open(task[j])
           /\ task' = [task EXCEPT ![j] = Ended(task[j], "failed", "fault")]
           /\ UNCHANGED db
  <2>1. DOMAIN task = Jobs /\ IsTask(task[j])
    BY DEF LockInv
  <2>2. task'[j] = Ended(task[j], "failed", "fault")
    BY <1>2, <2>1
  <2>3. /\ DOMAIN task' = Jobs /\ task' = [k \in Jobs |-> task'[k]]
        /\ \A k \in Jobs \ {j} : task'[k] = task[k]
    BY <1>2, <2>1, PutTask
  <2>4. Aborts(j, "fault")
    BY <1>2, <2>1, <2>2, <2>3, EndedTask DEF Aborts
  <2> QED BY <1>1, <1>2, <2>4
<1>3. CASE Committed(j, "failed", "fault")
  <2>1. Commits(j, "failed", "fault")
    BY <1>3, CommittedEffect
  <2>2. Open(task[j])
    BY <2>1 DEF Commits
  <2> QED BY <1>1, <2>1, <2>2
<1> QED BY <1>1, <1>2, <1>3

LEMMA DeadlockEffect ==
  ASSUME LockInv, NEW j \in Jobs, Deadlock(j)
  PROVE  /\ Open(task[j]) /\ \E k \in Jobs \ {j} : Open(task[k])
         /\ Aborts(j, "deadlock") /\ UNCHANGED <<lastId, failures>>
<1>1. Aborts(j, "deadlock") /\ UNCHANGED <<lastId, failures>>
  BY ThrowsAborts DEF Deadlock
<1>2. PICK S \in SUBSET Jobs : j \in S /\ \A i \in S : \E k \in S : WaitsFor(i, k)
  BY DEF Deadlock, Circle
<1>3. PICK k \in S : WaitsFor(j, k)
  BY <1>2
<1>4. k \in Jobs \ {j} /\ Open(task[j]) /\ task[k].locks # {}
  BY <1>2, <1>3 DEF WaitsFor
<1>5. Open(task[k])
  BY <1>4 DEF LockInv, TypeOK
<1> QED BY <1>1, <1>4, <1>5

\* The transaction begins, with these columns of the task set before.
Starts(j, t) ==
  /\ task[j].pc = "new"
  /\ DOMAIN task' = Jobs /\ task' = [k \in Jobs |-> task'[k]]
  /\ LET u == task'[j]
     IN  /\ IsTask(u) /\ u.pc = "transaction"
         /\ u.raced = (\E k \in Jobs \ {j} : Active(task[k]))
         /\ u.export = t.export /\ u.similar = t.similar /\ u.todo = t.todo
         /\ u.contract = t.contract /\ u.verdict = t.verdict /\ u.level = t.level
         /\ u.old = t.old /\ KeepsPlace(t, u) /\ u.lacks = {}
         /\ u.why = "none" /\ u.writes = <<>> /\ u.locks = {} /\ u.snapshot = None
  /\ \A k \in Jobs \ {j} :
       LET u == task'[k]
           x == task[k]
       IN  /\ IsTask(u)
           /\ u.raced = (x.raced \/ Active(x))
           /\ u.export = x.export /\ u.similar = x.similar /\ u.contract = x.contract
           /\ u.verdict = x.verdict /\ u.level = x.level /\ u.old = x.old
           /\ KeepsPlace(x, u) /\ u.lacks = x.lacks
           /\ u.pc = x.pc /\ u.why = x.why /\ u.todo = x.todo /\ u.writes = x.writes
           /\ u.locks = x.locks /\ u.snapshot = x.snapshot
           /\ x.pc = "new" => u = x
  /\ UNCHANGED <<db, lastId, failures>>

LEMMA NewTaskFields ==
  /\ IsTask(NewTask) /\ NewTask.pc = "new" /\ NewTask.why = "none" /\ NewTask.similar = FALSE
  /\ NewTask.todo = <<>> /\ NewTask.writes = <<>> /\ NewTask.locks = {} /\ NewTask.snapshot = None
  /\ NewTask.raced = FALSE /\ NewTask.lacks = {}
BY DEF NewTask, IsTask, Field

LEMMA BeginsStarts ==
  ASSUME LockInv, NEW j \in Jobs, task[j].pc = "new", NEW t, IsTask(t), Begins(j, t),
         t.why = "none", t.writes = <<>>, t.locks = {}, t.snapshot = None, t.lacks = {}
  PROVE  Starts(j, t)
<1> DEFINE others == {k \in Jobs \ {j} : Active(task[k])}
           one == others # {}
<1>1. /\ task' = [k \in Jobs |-> IF k = j THEN [t EXCEPT !.pc = "transaction", !.raced = one]
                                 ELSE [task[k] EXCEPT !.raced = @ \/ k \in others]]
      /\ UNCHANGED <<db, lastId, failures>>
  BY DEF Begins
<1>2. DOMAIN task' = Jobs /\ task' = [k \in Jobs |-> task'[k]]
  BY <1>1
<1>3. LET u == task'[j]
      IN  /\ IsTask(u) /\ u.pc = "transaction"
          /\ u.raced = (\E k \in Jobs \ {j} : Active(task[k]))
          /\ u.export = t.export /\ u.similar = t.similar /\ u.todo = t.todo
          /\ u.contract = t.contract /\ u.verdict = t.verdict /\ u.level = t.level
          /\ u.old = t.old /\ KeepsPlace(t, u) /\ u.lacks = {}
          /\ u.why = "none" /\ u.writes = <<>> /\ u.locks = {} /\ u.snapshot = None
  <2>1. one = (\E k \in Jobs \ {j} : Active(task[k]))
    OBVIOUS
  <2>2. task'[j] = [t EXCEPT !.pc = "transaction", !.raced = one]
    BY <1>1
  <2> HIDE DEF one
  <2>3. KeepsPlace(t, task'[j])
    BY <2>2 DEF IsTask, Field, KeepsPlace
  <2> QED BY <2>1, <2>2, <2>3 DEF IsTask, Field
<1>4. ASSUME NEW k \in Jobs \ {j}
      PROVE  LET u == task'[k]
                 x == task[k]
             IN  /\ IsTask(u)
                 /\ u.raced = (x.raced \/ Active(x))
                 /\ u.export = x.export /\ u.similar = x.similar /\ u.contract = x.contract
                 /\ u.verdict = x.verdict /\ u.level = x.level /\ u.old = x.old
                 /\ KeepsPlace(x, u) /\ u.lacks = x.lacks
                 /\ u.pc = x.pc /\ u.why = x.why /\ u.todo = x.todo /\ u.writes = x.writes
                 /\ u.locks = x.locks /\ u.snapshot = x.snapshot
                 /\ x.pc = "new" => u = x
  <2> DEFINE also == task[k].raced \/ k \in others
  <2>1. task'[k] = [task[k] EXCEPT !.raced = also]
    BY <1>1
  <2>2. also = (task[k].raced \/ Active(task[k]))
    OBVIOUS
  <2>3. IsTask(task[k]) /\ task[k].raced \in BOOLEAN
    BY DEF LockInv
  <2>4. task[k].pc = "new" => also = task[k].raced
    BY <2>2, <2>3 DEF Active
  <2> HIDE DEF also
  <2>5. KeepsPlace(task[k], task'[k])
    BY <2>1, <2>3 DEF IsTask, Field, KeepsPlace
  <2> QED BY <2>1, <2>2, <2>3, <2>4, <2>5 DEF IsTask, Field
<1> QED BY <1>1, <1>2, <1>3, <1>4 DEF Starts

\* The columns of a store and of a copy.
StoreStarts(j, e) ==
  LET u == task'[j]
  IN  /\ Starts(j, u)
      /\ u.export = e /\ u.similar = FALSE /\ u.contract = Contract(j, e)
      /\ u.verdict = Verdict(e) /\ u.level = Level(e)
      /\ \/ u.todo = InsertStatements(e) /\ u.old = None
         \/ u.todo = UpdateStatements(e) /\ u.old \in VerifiedRows(e.address)

SimilarStarts(j, a) ==
  LET u == task'[j]
  IN  /\ Starts(j, u)
      /\ u.export = [address |-> a, onRuntime |-> Deployed[a]]
      /\ u.similar = TRUE /\ u.todo = SimilarStatements
      /\ \E d \in DOMAIN db : \E v \in VerifiedRows(d[2]) :
           /\ IsRow(d, "deployment") /\ db[d].contract[3] = Deployed[a]
           /\ Match(v) \in DOMAIN db
           /\ u.contract = db[d].contract
           /\ u.comp = v[2] /\ u.verified = Verified(v[2], a)
           /\ u.verdict = db[v] /\ u.level = db[Match(v)].level

LEMMA StartsAsIs ==
  ASSUME NEW j \in Jobs, NEW t, Starts(j, t)
  PROVE  Starts(j, task'[j])
BY DEF Starts, KeepsPlace

LEMMA BeginStoreEffect ==
  ASSUME LockInv, NEW j \in Jobs, NEW e \in Exports, BeginStore(j, e)
  PROVE  /\ task[j].pc = "new"
         /\ \/ Aborts(j, "unhashable") /\ UNCHANGED <<lastId, failures>>
            \/ StoreStarts(j, e)
<1> DEFINE t(q, o) == [task[j] EXCEPT !.export = e, !.todo = q, !.contract = Contract(j, e),
                                      !.verdict = Verdict(e), !.level = Level(e), !.old = o]
<1>1. /\ task[j].pc = "new"
      /\ \/ Throws(j, "unhashable")
         \/ Begins(j, t(InsertStatements(e), None))
         \/ \E v \in VerifiedRows(e.address) : Begins(j, t(UpdateStatements(e), v))
  BY DEF BeginStore
<1>2. task[j] = NewTask
  BY <1>1 DEF LockInv
<1>3. ASSUME NEW q, NEW o, Begins(j, t(q, o))
      PROVE  LET u == task'[j]
             IN  /\ Starts(j, u)
                 /\ u.export = e /\ u.similar = FALSE /\ u.contract = Contract(j, e)
                 /\ u.verdict = Verdict(e) /\ u.level = Level(e)
                 /\ u.todo = q /\ u.old = o
  <2> DEFINE x == t(q, o)
  <2>1. /\ IsTask(x) /\ x.export = e /\ x.todo = q /\ x.contract = Contract(j, e)
        /\ x.verdict = Verdict(e) /\ x.level = Level(e) /\ x.old = o
        /\ x.similar = FALSE /\ x.why = "none" /\ x.writes = <<>>
        /\ x.locks = {} /\ x.snapshot = None /\ x.lacks = {}
    BY <1>2, NewTaskFields DEF IsTask, Field
  <2> HIDE DEF x
  <2>2. Begins(j, x)
    BY <1>3 DEF x
  <2>3. Starts(j, x)
    BY <1>1, <2>1, <2>2, BeginsStarts
  <2>4. Starts(j, task'[j])
    BY <2>3, StartsAsIs
  <2> QED BY <2>1, <2>3, <2>4 DEF Starts
<1>4. CASE Throws(j, "unhashable")
  BY <1>1, <1>4, ThrowsAborts
<1>5. CASE Begins(j, t(InsertStatements(e), None))
  <2> HIDE DEF t
  <2>1. LET u == task'[j]
        IN  /\ Starts(j, u)
            /\ u.export = e /\ u.similar = FALSE /\ u.contract = Contract(j, e)
            /\ u.verdict = Verdict(e) /\ u.level = Level(e)
            /\ u.todo = InsertStatements(e) /\ u.old = None
    BY <1>3, <1>5
  <2> QED BY <1>1, <2>1 DEF StoreStarts
<1>6. ASSUME NEW v \in VerifiedRows(e.address), Begins(j, t(UpdateStatements(e), v))
      PROVE  StoreStarts(j, e)
  <2> HIDE DEF t
  <2>1. LET u == task'[j]
        IN  /\ Starts(j, u)
            /\ u.export = e /\ u.similar = FALSE /\ u.contract = Contract(j, e)
            /\ u.verdict = Verdict(e) /\ u.level = Level(e)
            /\ u.todo = UpdateStatements(e) /\ u.old = v
    BY <1>3, <1>6
  <2> QED BY <1>6, <2>1 DEF StoreStarts
<1> QED BY <1>1, <1>4, <1>5, <1>6

LEMMA BeginSimilarEffect ==
  ASSUME LockInv, NEW j \in Jobs, NEW a \in Addresses, BeginSimilar(j, a)
  PROVE  /\ task[j].pc = "new"
         /\ \/ Aborts(j, "notFound") /\ UNCHANGED <<lastId, failures>>
            \/ SimilarStarts(j, a)
<1> DEFINE same == {d \in DOMAIN db : IsRow(d, "deployment") /\ db[d].contract[3] = Deployed[a]}
           t(d, v) == [task[j] EXCEPT !.similar = TRUE,
                         !.export = [address |-> a, onRuntime |-> Deployed[a]],
                         !.todo = SimilarStatements, !.contract = db[d].contract,
                         !.comp = v[2], !.verified = Verified(v[2], a),
                         !.verdict = db[v], !.level = db[Match(v)].level]
<1>1. /\ task[j].pc = "new"
      /\ \/ Throws(j, "notFound")
         \/ \E d \in same : \E v \in VerifiedRows(d[2]) : Match(v) \in DOMAIN db /\ Begins(j, t(d, v))
  BY DEF BeginSimilar
<1>2. task[j] = NewTask
  BY <1>1 DEF LockInv
<1>3. CASE Throws(j, "notFound")
  BY <1>1, <1>3, ThrowsAborts
<1>4. ASSUME NEW d \in same, NEW v \in VerifiedRows(d[2]), Match(v) \in DOMAIN db, Begins(j, t(d, v))
      PROVE  SimilarStarts(j, a)
  <2> DEFINE x == t(d, v)
  <2>1. /\ IsTask(x) /\ x.export = [address |-> a, onRuntime |-> Deployed[a]]
        /\ x.todo = SimilarStatements /\ x.contract = db[d].contract
        /\ x.comp = v[2] /\ x.verified = Verified(v[2], a)
        /\ x.verdict = db[v] /\ x.level = db[Match(v)].level
        /\ x.similar = TRUE /\ x.why = "none" /\ x.writes = <<>>
        /\ x.locks = {} /\ x.snapshot = None /\ x.lacks = {}
    <3> DEFINE y == task[j]
               ex == [address |-> a, onRuntime |-> Deployed[a]]
               c == db[d].contract
               w == Verified(v[2], a)
               r == db[v]
               l == db[Match(v)].level
    <3>1. IsTask(y) /\ y.why = "none" /\ y.writes = <<>> /\ y.locks = {} /\ y.snapshot = None
          /\ y.lacks = {}
      BY <1>2, NewTaskFields
    <3>2. x = [y EXCEPT !.similar = TRUE, !.export = ex, !.todo = SimilarStatements, !.contract = c,
                        !.comp = v[2], !.verified = w, !.verdict = r, !.level = l]
      OBVIOUS
    <3> HIDE DEF x, y, ex, c, w, r, l
    <3>3. /\ IsTask(x) /\ x.similar = TRUE /\ x.export = ex /\ x.todo = SimilarStatements
          /\ x.contract = c /\ x.comp = v[2] /\ x.verified = w /\ x.verdict = r /\ x.level = l
          /\ x.why = y.why /\ x.writes = y.writes /\ x.locks = y.locks /\ x.snapshot = y.snapshot
          /\ x.lacks = y.lacks
      BY <3>1, <3>2 DEF IsTask, Field
    <3> QED BY <3>1, <3>3 DEF ex, c, w, r, l
  <2> HIDE DEF x
  <2>2. Begins(j, x)
    BY <1>4 DEF x
  <2>3. Starts(j, x)
    BY <1>1, <2>1, <2>2, BeginsStarts
  <2>4. Starts(j, task'[j])
    BY <2>3, StartsAsIs
  <2>5. LET u == task'[j]
        IN  /\ u.export = [address |-> a, onRuntime |-> Deployed[a]]
            /\ u.similar = TRUE /\ u.todo = SimilarStatements
            /\ u.contract = db[d].contract
            /\ u.comp = v[2] /\ u.verified = Verified(v[2], a)
            /\ u.verdict = db[v] /\ u.level = db[Match(v)].level
    BY <2>1, <2>3 DEF Starts, KeepsPlace
  <2> QED BY <1>4, <2>4, <2>5 DEF SimilarStarts
<1> QED BY <1>1, <1>3, <1>4

-----------------------------------------------------------------------------
(* Locks *)

LEMMA LockInit == Init => LockInv
<1> SUFFICES ASSUME Init PROVE LockInv
  OBVIOUS
<1>1. DOMAIN task = Jobs /\ task = [j \in Jobs |-> task[j]] /\ \A j \in Jobs : task[j] = NewTask
  BY DEF Init
<1>2. lastId \in Nat /\ failures \in 0..MaxFailures
  BY StoreAssumption DEF Init
<1>3. DOMAIN <<>> = {}
  OBVIOUS
<1>4. \A j \in Jobs : ~Locked(j, task[j].locks)
  BY <1>1, NewTaskFields DEF Locked
<1> QED BY <1>1, <1>2, <1>3, <1>4, NewTaskFields DEF LockInv, TypeOK, Whys, Open

Counted == lastId' \in {lastId, lastId + 1} /\ failures' \in {failures} \cup 0..MaxFailures

\* Rows that a job does not see, or another it waits for, end it.
Unseen == {"missing", "sourceNotFound", "deadlock"}

Falls(j, why) == Aborts(j, why) /\ (why \in Unseen => Blind(j) \/ task[j].lacks # {})

LEMMA MissesCompiled ==
  ASSUME NEW j \in Jobs, task[j].todo # <<>>, Head(task[j].todo) = "compiled",
         Unchanged(task[j], NextRows(j)),
         {k \in DOMAIN Visible(task[j]) :
            /\ IsRow(k, "compiled")
            /\ k[3] = task[j].export.creation /\ k[4] = task[j].export.runtime} = {}
  PROVE  Visible(task[j]) # Latest(task[j])
<1> DEFINE k == Compiled(task[j].export)
           rows == NextRows(j)
<1>1. k \in DOMAIN rows
  BY NextCompiled
<1>2. k[1] = "compiled" /\ k[3] = task[j].export.creation /\ k[4] = task[j].export.runtime
  BY KeyParts
<1> HIDE DEF k, rows
<1>3. k \in DOMAIN Latest(task[j])
  BY <1>1 DEF Unchanged, rows
<1> QED BY <1>2, <1>3 DEF IsRow

\* What any step is.
LEMMA NextCases ==
  ASSUME LockInv, [Next]_vars
  PROVE  \/ UNCHANGED vars
         \/ /\ Counted
            /\ \E j \in Jobs :
                 \/ \E rows, written : Executes(j, rows, written)
                 \/ \E why \in Whys : Falls(j, why)
                 \/ Commits(j, NextStep(j), "none") \/ Commits(j, "failed", "fault")
                 \/ /\ task[j].pc = "updateMatch" /\ Turns(j, "insertMatch")
                    /\ UNCHANGED <<db, lastId, failures>>
                 \/ Moves(j)
                 \/ Inserts(j)
                 \/ Starts(j, task'[j])
<1> USE DEF Counted
<1>0. \A j \in Jobs, why \in Whys \ Unseen : Aborts(j, why) => Falls(j, why)
  BY DEF Falls
<1>1. failures \in Nat /\ failures \in 0..MaxFailures /\ MaxFailures \in Nat
  BY StoreAssumption DEF LockInv, TypeOK
<1>2. CASE UNCHANGED vars \/ Finished
  BY <1>2 DEF Finished
<1>3. ASSUME NEW j \in Jobs, NEW e \in Exports, BeginStore(j, e)
      PROVE  \/ \E why \in Whys : Falls(j, why) /\ Counted
             \/ Starts(j, task'[j]) /\ Counted
  BY <1>0, <1>3, BeginStoreEffect DEF StoreStarts, Starts, Whys, Unseen
<1>4. ASSUME NEW j \in Jobs, NEW a \in Addresses, BeginSimilar(j, a)
      PROVE  \/ \E why \in Whys : Falls(j, why) /\ Counted
             \/ Starts(j, task'[j]) /\ Counted
  BY <1>0, <1>4, BeginSimilarEffect DEF SimilarStarts, Starts, Whys, Unseen
<1>5. ASSUME NEW j \in Jobs, LoseConnection(j)
      PROVE  Counted /\ (Falls(j, "fault") \/ Commits(j, "failed", "fault"))
  BY <1>1, <1>5, LoseConnectionEffect DEF Falls, Unseen
<1>6. ASSUME NEW j \in Jobs, Deadlock(j)
      PROVE  Counted /\ Falls(j, "deadlock")
  BY <1>6, DeadlockEffect DEF Falls, Blind
<1>7. ASSUME NEW j \in Jobs,
             Touch(j) \/ AddFiles(j) \/ InsertDeployment(j) \/ InsertCompiled(j)
               \/ InsertVerified(j) \/ LacksRow(j) \/ ReadOldMatch(j)
      PROVE  Counted /\ \/ \E rows, written : Executes(j, rows, written)
                        \/ \E why \in Whys : Falls(j, why)
  <2>1. CASE Touch(j)
    <3>1. /\ UNCHANGED lastId /\ Open(task[j])
          /\ \/ Executes(j, NextRows(j), DOMAIN NextRows(j) \ DOMAIN Latest(task[j]))
             \/ /\ \E why \in {"missing", "sourceNotFound"} : Aborts(j, why)
                /\ UNCHANGED failures
                /\ \E k \in DOMAIN NextRows(j) : k \in DOMAIN Latest(task[j]) \ DOMAIN Visible(task[j])
      BY <2>1, TouchEffect
    <3>2. \A rows, written : Executes(j, rows, written) => UNCHANGED failures
      BY DEF Executes
    <3> QED BY <3>1, <3>2 DEF Falls, Blind, Whys
  <2>2. CASE AddFiles(j)
    <3>1. /\ Executes(j, NextRows(j), DOMAIN NextRows(j) \ DOMAIN Latest(task[j]))
          /\ UNCHANGED lastId
      BY <2>2, AddFilesEffect
    <3>2. UNCHANGED failures
      BY <3>1 DEF Executes
    <3> QED BY <3>1, <3>2
  <2>3. CASE InsertDeployment(j)
    <3>1. UNCHANGED lastId /\ Executes(j, NextRows(j), DOMAIN NextRows(j))
      BY <2>3, InsertDeploymentEffect
    <3>2. UNCHANGED failures
      BY <3>1 DEF Executes
    <3> QED BY <3>1, <3>2
  <2>4. CASE InsertCompiled(j)
    <3>1. /\ UNCHANGED lastId /\ Open(task[j])
          /\ \/ Executes(j, NextRows(j), DOMAIN NextRows(j))
             \/ /\ Aborts(j, "missing") /\ UNCHANGED failures
                /\ Visible(task[j]) # Latest(task[j])
      BY <2>4, InsertCompiledEffect, MissesCompiled
    <3>2. \A rows, written : Executes(j, rows, written) => UNCHANGED failures
      BY DEF Executes
    <3> QED BY <3>1, <3>2 DEF Falls, Blind, Whys
  <2>5. CASE InsertVerified(j)
    BY <1>0, <2>5, InsertVerifiedEffect DEF Executes, Whys, Unseen
  <2>6. CASE ReadOldMatch(j)
    <3>1. Executes(j, <<>>, {}) /\ UNCHANGED lastId
      BY <2>6, ReadOldMatchEffect
    <3>2. UNCHANGED failures
      BY <3>1 DEF Executes
    <3> QED BY <3>1, <3>2
  <2>7. CASE LacksRow(j)
    BY <2>7, LacksRowEffect DEF Falls, Whys
  <2> QED BY <1>7, <2>1, <2>2, <2>3, <2>4, <2>5, <2>6, <2>7
<1>8. ASSUME NEW j \in Jobs, WriteMatch(j)
      PROVE  Counted /\ \/ \E rows, written : Executes(j, rows, written)
                        \/ \E why \in Whys : Falls(j, why)
  <2>1. \/ \E rows, written : Executes(j, rows, written) /\ lastId' \in {lastId, lastId + 1}
        \/ Aborts(j, "taken") /\ lastId' = lastId + 1 /\ UNCHANGED failures
    BY <1>8, WriteMatchEffect
  <2>2. ASSUME NEW rows, NEW written, Executes(j, rows, written) PROVE UNCHANGED failures
    BY <2>2 DEF Executes
  <2> QED BY <1>0, <2>1, <2>2 DEF Whys, Unseen
<1>9. ASSUME NEW j \in Jobs, Commit(j)
      PROVE  Counted /\ Commits(j, NextStep(j), "none")
  BY <1>9, CommittedEffect DEF Commit
<1>10. ASSUME NEW j \in Jobs, UpdateMatch(j)
       PROVE  Counted /\ \/ \E why \in Whys : Falls(j, why)
                         \/ /\ task[j].pc = "updateMatch" /\ Turns(j, "insertMatch")
                            /\ UNCHANGED <<db, lastId, failures>>
                         \/ Moves(j)
  BY <1>0, <1>10, UpdateMatchEffect DEF Moves, Whys, Unseen
<1>11. ASSUME NEW j \in Jobs, InsertMatch(j)
       PROVE  Counted /\ \/ \E why \in Whys : Falls(j, why)
                         \/ Inserts(j)
  BY <1>0, <1>11, InsertMatchEffect DEF Inserts, Whys, Unseen
<1>12. CASE Next /\ ~Finished
  <2> PICK j \in Jobs : \/ \E e \in Exports : BeginStore(j, e)
                        \/ \E a \in Addresses : BeginSimilar(j, a)
                        \/ Step(j) \/ LoseConnection(j) \/ Deadlock(j)
    BY <1>12 DEF Next
  <2> HIDE DEF Counted
  <2>1. CASE \/ \E e \in Exports : BeginStore(j, e)
             \/ \E a \in Addresses : BeginSimilar(j, a)
    BY <2>1, <1>3, <1>4
  <2>2. CASE LoseConnection(j) \/ Deadlock(j)
    <3>1. {"fault", "deadlock"} \subseteq Whys /\ "fault" \notin Unseen
      BY DEF Whys, Unseen
    <3> QED BY <2>2, <3>1, <1>5, <1>6
  <2>3. CASE Touch(j) \/ AddFiles(j) \/ InsertDeployment(j) \/ InsertCompiled(j)
               \/ InsertVerified(j) \/ LacksRow(j) \/ ReadOldMatch(j)
    BY <2>3, <1>7
  <2>4. CASE WriteMatch(j)
    BY <2>4, <1>8
  <2>5. CASE Commit(j)
    BY <2>5, <1>9
  <2>6. CASE UpdateMatch(j) \/ InsertMatch(j)
    BY <2>6, <1>10, <1>11
  <2>7. Step(j) => \/ Touch(j) \/ AddFiles(j) \/ InsertDeployment(j) \/ InsertCompiled(j)
                      \/ InsertVerified(j) \/ LacksRow(j) \/ ReadOldMatch(j)
                   \/ WriteMatch(j) \/ Commit(j) \/ UpdateMatch(j) \/ InsertMatch(j)
    BY DEF Step
  <2> QED BY <2>1, <2>2, <2>3, <2>4, <2>5, <2>6, <2>7
<1> QED BY <1>2, <1>12

LEMMA LockNext == LockInv /\ [Next]_vars => LockInv'
<1> SUFFICES ASSUME LockInv, [Next]_vars PROVE LockInv'
  OBVIOUS
<1> DEFINE Rest(i) ==
      LET u == task'[i]
      IN  /\ IsTask(u) /\ u.raced \in BOOLEAN
          /\ u.pc = "new" => u = NewTask
          /\ u.pc \in {"new", "transaction", "updateMatch", "insertMatch", "stored", "failed"}
          /\ u.why \in Whys
          /\ DOMAIN u.writes \subseteq u.locks
          /\ ~Open(u) => u.locks = {}
<1>1. \A i \in Jobs :
        LET t == task[i]
        IN  /\ IsTask(t) /\ t.raced \in BOOLEAN
            /\ t.pc = "new" => t = NewTask
            /\ t.pc \in {"new", "transaction", "updateMatch", "insertMatch", "stored", "failed"}
            /\ t.why \in Whys
            /\ DOMAIN t.writes \subseteq t.locks
            /\ ~Open(t) => t.locks = {}
  BY DEF LockInv, TypeOK
<1>2. \A i, k \in Jobs : i # k => task[i].locks \cap task[k].locks = {}
  BY DEF LockInv, TypeOK, Locked
<1>3. lastId \in Nat /\ failures \in 0..MaxFailures
  BY DEF LockInv, TypeOK
<1>4. ASSUME Counted PROVE lastId' \in Nat /\ failures' \in 0..MaxFailures
  BY <1>3, <1>4 DEF Counted
<1>5. ASSUME DOMAIN task' = Jobs, task' = [k \in Jobs |-> task'[k]], Counted,
             \A i \in Jobs : Rest(i),
             \A i, k \in Jobs : i # k => task'[i].locks \cap task'[k].locks = {}
      PROVE  LockInv'
  <2>1. \A i \in Jobs : ~Locked(i, task[i].locks)'
    BY <1>5 DEF Locked
  <2>2. TypeOK'
    BY <1>4, <1>5, <2>1 DEF TypeOK
  <2> QED BY <1>5, <2>2 DEF LockInv
<1>6. DOMAIN <<>> = {}
  OBVIOUS
<1>7. CASE UNCHANGED vars
  BY <1>7 DEF vars, LockInv, TypeOK, Open, Locked
<1>8. ASSUME Counted, NEW j \in Jobs, NEW rows, NEW written, Executes(j, rows, written)
      PROVE  LockInv'
  <2>1. Rest(j)
    BY <1>1, <1>8 DEF Executes, KeepsMost, Open
  <2>2. \A i \in Jobs : Rest(i)
    BY <1>1, <1>8, <2>1 DEF Executes
  <2>3. \A i \in Jobs \ {j} : task'[j].locks \cap task'[i].locks = {}
    BY <1>2, <1>8 DEF Executes, Locked
  <2>4. \A i, k \in Jobs : i # k => task'[i].locks \cap task'[k].locks = {}
    BY <1>2, <1>8, <2>3 DEF Executes
  <2> QED BY <1>5, <1>8, <2>2, <2>4 DEF Executes
<1>9. ASSUME Counted, NEW j \in Jobs, Rest(j), task'[j].locks = {},
             DOMAIN task' = Jobs, task' = [k \in Jobs |-> task'[k]],
             \A i \in Jobs \ {j} : Rest(i) /\ task'[i].locks = task[i].locks
      PROVE  LockInv'
  <2>1. \A i, k \in Jobs : i # k => task'[i].locks \cap task'[k].locks = {}
    BY <1>2, <1>9
  <2> QED BY <1>5, <1>9, <2>1
<1>10. ASSUME Counted, NEW j \in Jobs, NEW why \in Whys, Falls(j, why)
       PROVE  LockInv'
  <2>1. Rest(j) /\ task'[j].locks = {}
    BY <1>1, <1>6, <1>10 DEF Falls, Aborts, Keeps, Open
  <2>2. \A i \in Jobs \ {j} : Rest(i) /\ task'[i].locks = task[i].locks
    BY <1>1, <1>10 DEF Falls, Aborts
  <2> QED BY <1>9, <1>10, <2>1, <2>2 DEF Falls, Aborts
<1>11. ASSUME Counted, NEW j \in Jobs, Commits(j, NextStep(j), "none") \/ Commits(j, "failed", "fault")
       PROVE  LockInv'
  <2>0. PICK pc \in {"updateMatch", "insertMatch", "stored", "failed"}, why \in Whys : Commits(j, pc, why)
    BY <1>11 DEF NextStep, Whys
  <2>1. Rest(j) /\ task'[j].locks = {}
    BY <1>1, <1>6, <2>0 DEF Commits, Keeps, Open
  <2>2. \A i \in Jobs \ {j} : Rest(i) /\ task'[i].locks = task[i].locks
    BY <1>1, <2>0 DEF Commits
  <2> QED BY <1>9, <1>11, <2>0, <2>1, <2>2 DEF Commits
<1>12. ASSUME Counted, NEW j \in Jobs, task[j].pc \in {"updateMatch", "insertMatch"},
              NEW pc \in {"insertMatch", "stored"}, Turns(j, pc)
       PROVE  LockInv'
  <2>1. Rest(j) /\ task'[j].locks = {}
    BY <1>1, <1>12 DEF Turns, Keeps, Open
  <2>2. \A i \in Jobs \ {j} : Rest(i) /\ task'[i].locks = task[i].locks
    BY <1>1, <1>12 DEF Turns
  <2> QED BY <1>9, <1>12, <2>1, <2>2 DEF Turns
<1>13. ASSUME Counted, NEW j \in Jobs, Starts(j, task'[j])
       PROVE  LockInv'
  <2>1. task'[j].raced \in BOOLEAN
    BY <1>13 DEF Starts
  <2>2. Rest(j) /\ task'[j].locks = {}
    BY <1>6, <1>13, <2>1 DEF Starts, Whys, Open
  <2>3. ASSUME NEW i \in Jobs \ {j} PROVE Rest(i) /\ task'[i].locks = task[i].locks
    <3>1. task'[i].raced \in BOOLEAN
      BY <1>13 DEF Starts
    <3> QED BY <1>1, <1>13, <3>1 DEF Starts, Open
  <2> QED BY <1>9, <1>13, <2>2, <2>3 DEF Starts
<1>14. ASSUME Counted, NEW j \in Jobs, Moves(j) \/ Inserts(j)
       PROVE  LockInv'
  BY <1>12, <1>14 DEF Moves, Inserts
<1> HIDE DEF Rest
<1> QED BY <1>14, NextCases, <1>7, <1>8, <1>10, <1>11, <1>12, <1>13

\* Each job holds the locks of the rows it has written, and none after its
\* transaction; no row is locked twice, whatever fails.
THEOREM LocksAreExclusive == Spec => []TypeOK
<1>1. Spec => []LockInv
  BY LockInit, LockNext, PTL DEF Spec
<1>2. LockInv => TypeOK
  BY DEF LockInv
<1> QED BY <1>1, <1>2, PTL

-----------------------------------------------------------------------------
(* What a store with no other beside it sees *)

LEMMA SoloInit == Init => SoloInv
<1> SUFFICES ASSUME Init PROVE SoloInv
  OBVIOUS
<1>1. \A j \in Jobs : task[j] = NewTask
  BY DEF Init
<1> QED BY <1>1, NewTaskFields DEF SoloInv, Active

LEMMA SoloSees ==
  ASSUME SoloInv, NEW j \in Jobs, Blind(j)
  PROVE  task[j].raced
<1> SUFFICES ASSUME ~task[j].raced PROVE FALSE
  OBVIOUS
<1>1. Open(task[j]) /\ Active(task[j])
  BY DEF Blind, Open, Active
<1>2. /\ \A k \in Jobs \ {j} : ~Open(task[k])
      /\ task[j].snapshot \in {None, db}
  BY <1>1 DEF SoloInv, Open, Active
<1>3. Snapshot(task[j]) = db
  BY <1>2 DEF Snapshot
<1>4. Visible(task[j]) = Latest(task[j])
  BY <1>3 DEF Visible, Latest
<1> QED BY <1>2, <1>4 DEF Blind

LEMMA SoloNext == LockInv /\ SoloInv /\ [Next]_vars => SoloInv'
<1> SUFFICES ASSUME LockInv, SoloInv, [Next]_vars PROVE SoloInv'
  OBVIOUS
<1> DEFINE Holds(i) ==
      /\ task'[i].lacks # {} \/ task'[i].why \in Unseen => task'[i].raced
      /\ Active(task'[i]) /\ ~task'[i].raced =>
           /\ \A k \in Jobs \ {i} : ~Active(task'[k])
           /\ Open(task'[i]) => task'[i].snapshot \in {None, db'}
<1>1. \A i \in Jobs :
        /\ task[i].lacks # {} \/ task[i].why \in Unseen => task[i].raced
        /\ Active(task[i]) /\ ~task[i].raced =>
             /\ \A k \in Jobs \ {i} : ~Active(task[k])
             /\ Open(task[i]) => task[i].snapshot \in {None, db}
  BY DEF SoloInv, Unseen
<1>2. ASSUME \A i \in Jobs : Holds(i) PROVE SoloInv'
  BY <1>2 DEF SoloInv, Unseen
<1>3. CASE UNCHANGED vars
  BY <1>3 DEF vars, SoloInv, Active, Open
\* While j is at work, no other is without it.
<1>4. ASSUME NEW j \in Jobs, Active(task[j]), \A i \in Jobs \ {j} : task'[i] = task[i],
             NEW i \in Jobs \ {j}
      PROVE  Holds(i)
  <2>1. Active(task[i]) => task[i].raced
    BY <1>1, <1>4
  <2> QED BY <1>1, <1>4, <2>1
<1>5. ASSUME NEW j \in Jobs, NEW rows, NEW written, Executes(j, rows, written)
      PROVE  SoloInv'
  <2>1. Active(task[j]) /\ Open(task[j])
    BY <1>5 DEF Executes, Open, Active
  <2>2. /\ task'[j].pc = task[j].pc /\ task'[j].why = task[j].why /\ task'[j].raced = task[j].raced
        /\ \A i \in Jobs \ {j} : task'[i] = task[i]
        /\ task'[j].snapshot \in {task[j].snapshot, Snapshot(task[j])} /\ db' = db
        /\ task'[j].lacks = task[j].lacks \/ Blind(j)
    BY <1>5 DEF Executes, Keeps, KeepsMost, Overlooks
  <2>3. ~task[j].raced => task'[j].snapshot \in {None, db}
    BY <1>1, <2>1, <2>2 DEF Snapshot
  <2>4. task'[j].lacks # {} => task'[j].raced
    BY <1>1, <2>2, SoloSees
  <2>5. Holds(j)
    BY <1>1, <2>1, <2>2, <2>3, <2>4
  <2> QED BY <1>2, <1>4, <2>1, <2>2, <2>5
<1>6. ASSUME NEW j \in Jobs, NEW why \in Whys, Falls(j, why)
      PROVE  SoloInv'
  <2>1. /\ task'[j].pc = "failed" /\ task'[j].why = why /\ task'[j].raced = task[j].raced
        /\ task'[j].lacks = task[j].lacks
        /\ \A i \in Jobs \ {j} : task'[i] = task[i]
        /\ db' = db
    BY <1>6 DEF Falls, Aborts, Keeps
  <2>2. ~Active(task'[j]) /\ ~Open(task'[j])
    BY <2>1 DEF Active, Open
  <2>3. task'[j].lacks # {} \/ why \in Unseen => task'[j].raced
    BY <1>1, <1>6, <2>1, SoloSees DEF Falls
  <2>4. Holds(j)
    BY <2>1, <2>2, <2>3
  <2>5. \A i \in Jobs \ {j} : Holds(i)
    BY <1>1, <2>1, <2>2
  <2> QED BY <1>2, <2>4, <2>5
<1>7. ASSUME NEW j \in Jobs, Active(task[j]), ~Open(task'[j]),
             task'[j].why \in Unseen => task'[j].raced,
             task'[j].raced = task[j].raced, task'[j].lacks = task[j].lacks,
             \A i \in Jobs \ {j} : task'[i] = task[i]
      PROVE  SoloInv'
  <2>1. Holds(j)
    BY <1>1, <1>7
  <2> QED BY <1>2, <1>4, <1>7, <2>1
<1>8. ASSUME NEW j \in Jobs, Commits(j, NextStep(j), "none") \/ Commits(j, "failed", "fault")
      PROVE  SoloInv'
  <2>1. PICK pc \in {"updateMatch", "insertMatch", "stored", "failed"}, why \in {"none", "fault"} :
          Commits(j, pc, why)
    BY <1>8 DEF NextStep
  <2>2. Active(task[j]) /\ ~Open(task'[j])
    BY <2>1 DEF Commits, Open, Active
  <2>3. task'[j].why \notin Unseen
    BY <2>1 DEF Commits, Unseen
  <2> QED BY <1>7, <2>1, <2>2, <2>3 DEF Commits, Keeps
<1>9. ASSUME NEW j \in Jobs, task[j].pc \in {"updateMatch", "insertMatch"},
             NEW pc \in {"insertMatch", "stored"}, Turns(j, pc)
      PROVE  SoloInv'
  <2>1. Active(task[j]) /\ ~Open(task'[j])
    BY <1>9 DEF Turns, Open, Active
  <2>2. task'[j].why \in Unseen => task'[j].raced
    BY <1>1, <1>9 DEF Turns, Keeps
  <2> QED BY <1>7, <1>9, <2>1, <2>2 DEF Turns, Keeps
<1>10. ASSUME NEW j \in Jobs, Starts(j, task'[j])
       PROVE  SoloInv'
  <2>1. /\ task'[j].raced = (\E k \in Jobs \ {j} : Active(task[k]))
        /\ task'[j].why = "none" /\ task'[j].snapshot = None
        /\ task'[j].pc = "transaction" /\ task'[j].lacks = {}
    BY <1>10 DEF Starts
  <2>2. \A i \in Jobs \ {j} : task'[i].pc = task[i].pc
    BY <1>10 DEF Starts
  <2>3. Holds(j)
    <3>1. task'[j].why \notin Unseen
      BY <2>1 DEF Unseen
    <3>2. ~task'[j].raced => \A k \in Jobs \ {j} : ~Active(task[k])
      BY <2>1
    <3>3. ~task'[j].raced => \A k \in Jobs \ {j} : ~Active(task'[k])
      BY <2>2, <3>2 DEF Active
    <3> QED BY <2>1, <3>1, <3>3
  <2>4. ASSUME NEW i \in Jobs \ {j} PROVE Holds(i)
    <3>1. /\ task'[i].raced = (task[i].raced \/ Active(task[i]))
          /\ task'[i].why = task[i].why /\ task'[i].lacks = task[i].lacks
      BY <1>10 DEF Starts
    <3>2. task[i].raced => task'[i].raced
      BY <3>1
    <3>3. Active(task'[i]) => task'[i].raced
      BY <2>2, <3>1 DEF Active
    <3> QED BY <1>1, <3>1, <3>2, <3>3
  <2> QED BY <1>2, <2>3, <2>4
<1>11. ASSUME NEW j \in Jobs, Moves(j) \/ Inserts(j)
       PROVE  SoloInv'
  BY <1>9, <1>11 DEF Moves, Inserts
<1> HIDE DEF Holds
<1> QED BY NextCases, <1>11, <1>3, <1>5, <1>6, <1>8, <1>9, <1>10

\* A store beside which nothing else ran never misses a row that it was told
\* exists: it neither fails for one nor stores a contract without the creation
\* code that it has; and it is no victim of a deadlock.
THEOREM AloneNeverMisses == Spec => []AbortNeedsRace
<1>1. Init => LockInv /\ SoloInv
  BY LockInit, SoloInit
<1>2. LockInv /\ SoloInv /\ [Next]_vars => (LockInv /\ SoloInv)'
  BY LockNext, SoloNext
<1>3. LockInv /\ SoloInv => AbortNeedsRace
  BY DEF SoloInv, AbortNeedsRace
<1> QED BY <1>1, <1>2, <1>3, PTL DEF Spec

-----------------------------------------------------------------------------
(* The statements to come *)

LEMMA KindsAre ==
  ASSUME NEW s \in Kinds
  PROVE  s \in {"creation", "runtime", "onCreation", "onRuntime", "contract", "sources",
                "deployment", "compiled", "files", "verified", "oldMatch", "match"}
BY DEF Kinds

LEMMA RankIsInt == \A s : Rank(s) \in 0..8
BY DEF Rank

LEMMA InOrderTail ==
  ASSUME NEW q, InOrder(q), q # <<>>
  PROVE  /\ InOrder(Tail(q)) /\ Head(q) \in Kinds
         /\ \A s : (\E i \in 1..Len(q) : q[i] = s)
                     <=> s = Head(q) \/ \E i \in 1..Len(Tail(q)) : Tail(q)[i] = s
         /\ \A s : Rank(Head(q)) > 0 /\ Rank(s) > 0 /\ Rank(s) <= Rank(Head(q))
                     => ~ \E i \in 1..Len(Tail(q)) : Tail(q)[i] = s
<1>1. q \in Seq(Kinds) /\ Len(q) \in Nat /\ Len(q) > 0
  BY DEF InOrder
<1>2. /\ Tail(q) \in Seq(Kinds) /\ Len(Tail(q)) = Len(q) - 1 /\ Head(q) = q[1]
      /\ Head(q) \in Kinds
      /\ \A i \in 1..Len(Tail(q)) : Tail(q)[i] = q[i + 1]
  BY <1>1
<1>3. InOrder(Tail(q))
  <2> SUFFICES ASSUME NEW i \in 1..Len(Tail(q)), NEW k \in 1..Len(Tail(q)), i < k,
                      Rank(Tail(q)[i]) > 0, Rank(Tail(q)[k]) > 0
               PROVE  Rank(Tail(q)[i]) < Rank(Tail(q)[k])
    BY <1>2 DEF InOrder
  <2>1. i + 1 \in 1..Len(q) /\ k + 1 \in 1..Len(q) /\ i + 1 < k + 1
    BY <1>1, <1>2
  <2>2. Tail(q)[i] = q[i + 1] /\ Tail(q)[k] = q[k + 1]
    BY <1>2
  <2> QED BY <2>1, <2>2 DEF InOrder
<1>4. ASSUME NEW s
      PROVE  (\E i \in 1..Len(q) : q[i] = s)
                <=> s = Head(q) \/ \E i \in 1..Len(Tail(q)) : Tail(q)[i] = s
  <2>1. ASSUME NEW i \in 1..Len(q), q[i] = s, i # 1
        PROVE  \E k \in 1..Len(Tail(q)) : Tail(q)[k] = s
    <3>1. i - 1 \in 1..Len(Tail(q)) /\ Tail(q)[i - 1] = q[(i - 1) + 1] /\ (i - 1) + 1 = i
      BY <1>1, <1>2, <2>1
    <3> QED BY <2>1, <3>1
  <2>2. ASSUME NEW i \in 1..Len(Tail(q)), Tail(q)[i] = s
        PROVE  \E k \in 1..Len(q) : q[k] = s
    <3>1. i + 1 \in 1..Len(q) /\ q[i + 1] = s
      BY <1>1, <1>2, <2>2
    <3> QED BY <3>1
  <2>3. 1 \in 1..Len(q)
    BY <1>1
  <2> QED BY <1>2, <2>1, <2>2, <2>3
<1>5. ASSUME NEW s, Rank(Head(q)) > 0, Rank(s) > 0, Rank(s) <= Rank(Head(q)),
             NEW i \in 1..Len(Tail(q)), Tail(q)[i] = s
      PROVE  FALSE
  <2>1. 1 \in 1..Len(q) /\ i + 1 \in 1..Len(q) /\ 1 < i + 1
    BY <1>1, <1>2
  <2>2. Rank(q[1]) < Rank(q[i + 1])
    BY <1>2, <1>5, <2>1 DEF InOrder
  <2>3. Rank(q[i + 1]) = Rank(s)
    BY <1>2, <1>5
  <2> QED BY <1>2, <1>5, <2>2, <2>3, RankIsInt
<1> QED BY <1>2, <1>3, <1>4, <1>5

-----------------------------------------------------------------------------
(* What the others do leaves a job's account of itself true *)

\* All but the history variables of the race and the old match.
Like(t, u) ==
  /\ u.pc = t.pc /\ u.export = t.export /\ u.similar = t.similar /\ u.todo = t.todo
  /\ u.writes = t.writes /\ u.locks = t.locks /\ u.snapshot = t.snapshot
  /\ u.contract = t.contract /\ u.comp = t.comp /\ u.verified = t.verified
  /\ u.verdict = t.verdict /\ u.level = t.level /\ u.old = t.old

\* Rows but those of matches stay, and no row that is new is locked by i.
GrowsBeside(i) ==
  /\ \A k \in DOMAIN db : ~IsRow(k, "match") => k \in DOMAIN db'
  /\ \A k \in DOMAIN db' \ DOMAIN db : k \notin task[i].locks

LEMMA KindsDiffer ==
  \A k, kind, other : IsRow(k, kind) /\ IsRow(k, other) => kind = other
BY DEF IsRow

LEMMA NoMatchKeys ==
  /\ \A c : ~IsRow(Code(c), "match")
  /\ \A s : ~IsRow(Source(s), "match")
  /\ \A j, e : ~IsRow(Contract(j, e), "match") /\ ~IsRow(BareContract(j, e), "match")
  /\ \A a : ~IsRow(Deployment(a), "match")
  /\ \A k : IsRow(k, "compiled") \/ IsRow(k, "contract") \/ IsRow(k, "verified")
              => ~IsRow(k, "match")
BY KeyParts DEF IsRow

\* The statement h is over, or h is none.
LEMMA RowsKeep ==
  ASSUME NEW t, NEW u, NEW h, RowsInv(t), ~IsRow(t.contract, "match"),
         u.export = t.export, u.contract = t.contract,
         \A s : Has(t, s) => Has(u, s) \/ s = h,
         \A k : InLatest(t, k) /\ ~IsRow(k, "match") => InLatest(u, k)',
         h = "creation" => InLatest(u, Code(u.export.creation))',
         h = "runtime" => InLatest(u, Code(u.export.runtime))',
         h = "onCreation" => InLatest(u, Code(u.export.onCreation))',
         h = "onRuntime" => InLatest(u, Code(u.export.onRuntime))',
         h = "contract" => InLatest(u, u.contract)',
         h = "sources" => \A s \in Range(u.export.files) : InLatest(u, Source(s))'
  PROVE  RowsInv(u)'
<1>1. ~Has(u, "creation") => InLatest(u, Code(u.export.creation))'
  BY NoMatchKeys DEF RowsInv
<1>2. ~Has(u, "runtime") => InLatest(u, Code(u.export.runtime))'
  BY NoMatchKeys DEF RowsInv
<1>3. ~Has(u, "onCreation") /\ u.export.onCreation # None => InLatest(u, Code(u.export.onCreation))'
  BY NoMatchKeys DEF RowsInv
<1>4. ~Has(u, "onRuntime") => InLatest(u, Code(u.export.onRuntime))'
  BY NoMatchKeys DEF RowsInv
<1>5. ~Has(u, "contract") => InLatest(u, u.contract)'
  BY NoMatchKeys DEF RowsInv
<1>6. ~Has(u, "sources") => \A s \in Range(u.export.files) : InLatest(u, Source(s))'
  BY NoMatchKeys DEF RowsInv
<1> QED BY <1>1, <1>2, <1>3, <1>4, <1>5, <1>6 DEF RowsInv, Has

LEMMA CompKeeps ==
  ASSUME NEW t, NEW u, CompInv(t), u.export = t.export, u.comp = t.comp,
         Has(t, "compiled") => Has(u, "compiled"),
         \A k : InLatest(t, k) /\ ~IsRow(k, "match") => InLatest(u, k)'
  PROVE  CompInv(u)'
<1>1. ~Has(u, "compiled") => /\ IsRow(u.comp, "compiled")
                             /\ u.comp[3] = u.export.creation /\ u.comp[4] = u.export.runtime
                             /\ InLatest(u, u.comp)'
  BY NoMatchKeys DEF CompInv
<1> QED BY <1>1 DEF CompInv, Has

LEMMA FilesKeep ==
  ASSUME NEW t, NEW u, FilesInv(t), u.export = t.export, u.comp = t.comp, u.verified = t.verified,
         Has(t, "files") => Has(u, "files"), Has(u, "compiled") => Has(t, "compiled"),
         ~Has(t, "files") /\ t.comp \in DOMAIN db => t.comp \in DOMAIN db',
         \A p : Written(t, File(t.comp, p)) =>
                  /\ Written(u, File(t.comp, p))
                  /\ u.writes[File(t.comp, p)] = t.writes[File(t.comp, p)]
  PROVE  FilesInv(u)'
BY DEF FilesInv, Has, Written

LEMMA SimilarKeeps ==
  ASSUME NEW t, NEW u, SimilarInv(t), u.export = t.export, u.comp = t.comp,
         u.verified = t.verified, u.contract = t.contract, u.verdict = t.verdict,
         Open(u) => Open(t),
         \A s : Has(u, s) => Has(t, s),
         \A k \in DOMAIN db : ~IsRow(k, "match") => k \in DOMAIN db'
  PROVE  SimilarInv(u)'
<1>1. t.contract \in DOMAIN db' /\ t.comp \in DOMAIN db'
  BY NoMatchKeys DEF SimilarInv, Present
<1>2. Open(u) => \A s \in {"creation", "runtime", "onCreation", "onRuntime", "contract",
                           "sources", "compiled", "files"} : ~Has(u, s)
  BY DEF SimilarInv
<1>3. Earned(u.verdict, u.comp, u.export.address)
  BY DEF SimilarInv
<1> QED BY <1>1, <1>2, <1>3 DEF SimilarInv, Present, Open, Has, Earned

LEMMA WriteKeeps ==
  ASSUME NEW t, NEW u, NEW k, WriteOK(t, k), u.export = t.export, u.similar = t.similar,
         u.contract = t.contract, u.verdict = t.verdict, u.writes[k] = t.writes[k],
         ~Has(t, "compiled") => u.comp = t.comp,
         ~Has(t, "files") => u.verified = t.verified,
         \A s : Has(u, s) => Has(t, s),
         ~IsRow(k, "match") /\ k \in DOMAIN db => k \in DOMAIN db',
         IsRow(k, "file") => (k \in DOMAIN db' <=> k \in DOMAIN db),
         IsRow(k, "match") => u.verified = t.verified
  PROVE  WriteOK(u, k)'
<1>1. \E kind \in {"code", "source", "contract", "deployment", "compiled", "file", "verified",
                   "match"} : IsRow(k, kind)
  BY DEF WriteOK
<1>2. IsRow(k, "contract") => ~u.similar /\ ~Has(u, "contract") /\ k = u.contract
  BY DEF WriteOK
<1>3. IsRow(k, "deployment") =>
        /\ ~Has(u, "deployment")
        /\ k = Deployment(u.export.address) /\ u.writes[k].contract = u.contract
  BY DEF WriteOK
<1>4. IsRow(k, "compiled") => /\ ~u.similar /\ ~Has(u, "compiled")
                              /\ k = Compiled(u.export)
                              /\ k \notin DOMAIN db' => u.comp = k
  BY DEF WriteOK
<1>5. IsRow(k, "file") => /\ ~u.similar /\ ~Has(u, "compiled")
                          /\ k = File(u.comp, k[3]) /\ k[3] \in DOMAIN u.export.files
                          /\ u.writes[k] = u.export.files[k[3]]
                          /\ k \notin DOMAIN db'
  BY DEF WriteOK
<1>6. IsRow(k, "verified") => /\ ~Has(u, "compiled") /\ ~Has(u, "files")
                              /\ k = u.verified /\ u.writes[k] = u.verdict
  BY DEF WriteOK
<1>7. IsRow(k, "match") => u.similar /\ ~Has(u, "match") /\ k = Match(u.verified)
  BY DEF WriteOK
<1> QED BY <1>1, <1>2, <1>3, <1>4, <1>5, <1>6, <1>7 DEF WriteOK, Has

LEMMA OthersKeep ==
  ASSUME LockInv, NEW i \in Jobs, JobInv(i, task[i]), Like(task[i], task'[i]), GrowsBeside(i)
  PROVE  JobInv(i, task[i])'
<1> DEFINE t == task[i]
           u == task'[i]
<1>1. /\ \A k \in DOMAIN db : ~IsRow(k, "match") => k \in DOMAIN db'
      /\ \A k \in DOMAIN db' \ DOMAIN db : k \notin DOMAIN t.writes
  BY DEF GrowsBeside, LockInv, TypeOK
<1>2. /\ u.pc = t.pc /\ u.export = t.export /\ u.similar = t.similar /\ u.todo = t.todo
      /\ u.writes = t.writes /\ u.snapshot = t.snapshot
      /\ u.contract = t.contract /\ u.comp = t.comp /\ u.verified = t.verified
      /\ u.verdict = t.verdict /\ u.level = t.level /\ u.old = t.old
  BY DEF Like
<1>3. /\ Active(u) <=> Active(t)
      /\ Open(u) <=> Open(t)
      /\ AfterCommit(u) <=> AfterCommit(t)
      /\ \A s : Has(u, s) <=> Has(t, s)
  BY <1>2 DEF Active, Open, AfterCommit, Has
<1>4. \A k : InLatest(t, k) /\ ~IsRow(k, "match") => InLatest(task[i], k)'
  BY <1>1, <1>2 DEF Written, Present, InLatest
<1>5. ASSUME Active(t), ~t.similar PROVE StoreInv(i, task[i])'
  <2>1. StoreInv(i, t)
    BY <1>5 DEF JobInv
  <2>2. ~IsRow(t.contract, "match")
    BY <2>1, NoMatchKeys DEF StoreInv
  <2>3. Open(t) => RowsInv(task[i])'
    <3> DEFINE h == "none"
    <3> SUFFICES ASSUME Open(t) PROVE RowsInv(task[i])'
      OBVIOUS
    <3>1. RowsInv(t)
      BY <2>1 DEF StoreInv
    <3> QED BY <1>2, <1>3, <1>4, <2>2, <3>1, RowsKeep
  <2>4. Open(t) => CompInv(task[i])'
    <3> SUFFICES ASSUME Open(t) PROVE CompInv(task[i])'
      OBVIOUS
    <3>1. CompInv(t)
      BY <2>1 DEF StoreInv
    <3> QED BY <1>2, <1>3, <1>4, <3>1, CompKeeps
  <2>5. Open(t) => FilesInv(task[i])'
    <3> SUFFICES ASSUME Open(t) PROVE FilesInv(task[i])'
      OBVIOUS
    <3>1. FilesInv(t)
      BY <2>1 DEF StoreInv
    <3>2. ~Has(t, "files") /\ t.comp \in DOMAIN db => t.comp \in DOMAIN db'
      BY <1>1, <2>1, <3>1, NoMatchKeys DEF StoreInv, FilesInv, CompInv
    <3>3. \A p : Written(t, File(t.comp, p)) =>
                   /\ Written(u, File(t.comp, p))
                   /\ u.writes[File(t.comp, p)] = t.writes[File(t.comp, p)]
      BY <1>2 DEF Written
    <3> QED BY <1>2, <1>3, <3>1, <3>2, <3>3, FilesKeep
  <2> QED BY <1>2, <1>3, <2>1, <2>3, <2>4, <2>5 DEF StoreInv, Open, Has
<1>6. ASSUME Active(t), t.similar PROVE SimilarInv(task[i])'
  <2>1. SimilarInv(t)
    BY <1>6 DEF JobInv
  <2> QED BY <1>1, <1>2, <1>3, <2>1, SimilarKeeps
<1>7. ASSUME Open(t) PROVE OpenInv(task[i])'
  <2>1. OpenInv(t)
    BY <1>7 DEF JobInv
  <2>2. InOrder(u.todo)
    BY <1>2, <2>1 DEF OpenInv
  <2>3. u.snapshot # None => \A k \in DOMAIN u.snapshot : ~IsRow(k, "match") => k \in DOMAIN db'
    BY <1>1, <1>2, <2>1 DEF OpenInv, Present
  <2>4. ~Has(u, "deployment") => InLatest(task[i], Deployment(task[i].export.address))'
    BY <1>2, <1>3, <1>4, <2>1, NoMatchKeys DEF OpenInv
  <2>5. ~Has(u, "verified") => Written(u, u.verified)
    BY <1>2, <1>3, <2>1 DEF OpenInv, Written
  <2>6. ASSUME NEW k \in DOMAIN u.writes PROVE WriteOK(task[i], k)'
    <3>1. k \in DOMAIN t.writes /\ WriteOK(t, k)
      BY <1>2, <2>1 DEF OpenInv
    <3>2. k \in DOMAIN db' => k \in DOMAIN db
      BY <1>1, <3>1
    <3>3. ~IsRow(k, "match") /\ k \in DOMAIN db => k \in DOMAIN db'
      BY <1>1
    <3>4. IsRow(k, "file") => (k \in DOMAIN db' <=> k \in DOMAIN db)
      BY <3>2, <3>3 DEF IsRow
    <3> QED BY <1>2, <1>3, <3>1, <3>3, <3>4, WriteKeeps
  <2>7. Has(u, "files") => Has(u, "verified")
    BY <1>3, <2>1 DEF OpenInv
  <2>8. Has(u, "onCreation") => Has(u, "contract") /\ Has(u, "deployment")
    BY <1>3, <2>1 DEF OpenInv
  <2> QED BY <2>2, <2>3, <2>4, <2>5, <2>6, <2>7, <2>8 DEF OpenInv, Present, Has, Written, InOrder
<1>8. AfterCommit(t) => /\ ~u.similar /\ u.verified \in DOMAIN db' /\ IsRow(u.verified, "verified")
                        /\ u.verified[3] = u.export.address
  BY <1>1, <1>2, <1>3, NoMatchKeys DEF JobInv, Present
<1>9. t.pc = "updateMatch" => u.old # None
  BY <1>2 DEF JobInv
<1> QED BY <1>2, <1>3, <1>5, <1>6, <1>7, <1>8, <1>9 DEF JobInv, Active, Open, AfterCommit, Present
-----------------------------------------------------------------------------
(* A statement keeps the account its job gives of itself *)

\* A statement makes u of t.
Ran(t, u, written) ==
  /\ Open(t) /\ t.todo # <<>> /\ KeepsMost(t, u) /\ u.contract = t.contract
  /\ u.pc = t.pc /\ u.todo = Tail(t.todo)
  /\ DOMAIN u.writes = DOMAIN t.writes \cup written
  /\ \A k \in DOMAIN t.writes \ written : u.writes[k] = t.writes[k]
  /\ u.snapshot \in {t.snapshot, Snapshot(t)}
  /\ db' = db

LEMMA ExecutesRan ==
  ASSUME NEW j \in Jobs, NEW rows, NEW written, Executes(j, rows, written),
         Head(task[j].todo) # "onCreation"
  PROVE  Ran(task[j], task'[j], written)
BY DEF Executes, Ran, Keeps, KeepsMost, Overlooks

LEMMA RanFacts ==
  ASSUME NEW t, NEW u, NEW written, Ran(t, u, written), OpenInv(t)
  PROVE  LET h == Head(t.todo)
         IN  /\ Open(t) /\ Active(t) /\ Open(u) /\ Active(u)
             /\ ~AfterCommit(u) /\ u.pc # "updateMatch"
             /\ InOrder(u.todo) /\ h \in Kinds
             /\ \A s : Has(u, s) => Has(t, s)
             /\ \A s : Has(t, s) => Has(u, s) \/ s = h
             /\ Has(t, h)
             /\ \A s : Rank(h) > 0 /\ Rank(s) > 0 /\ Rank(s) <= Rank(h) => ~Has(u, s)
             /\ \A k : InLatest(t, k) => InLatest(u, k)'
             /\ \A k \in written : Written(u, k)
             /\ Has(u, "files") => Has(u, "verified")
             /\ Has(u, "onCreation") => Has(u, "contract") /\ Has(u, "deployment")
             /\ u.snapshot # None => \A k \in DOMAIN u.snapshot : ~IsRow(k, "match") => k \in DOMAIN db'
<1> DEFINE h == Head(t.todo)
           q == t.todo
<1>1. /\ Open(t) /\ q # <<>> /\ InOrder(q)
      /\ u.pc = t.pc /\ u.todo = Tail(q)
      /\ DOMAIN u.writes = DOMAIN t.writes \cup written
      /\ u.snapshot \in {t.snapshot, Snapshot(t)} /\ db' = db
  BY DEF Ran, OpenInv
<1>2. /\ Open(t) /\ Active(t) /\ Open(u) /\ Active(u)
      /\ ~AfterCommit(u) /\ u.pc # "updateMatch"
  BY <1>1 DEF Open, Active, AfterCommit
<1>3. /\ InOrder(Tail(q)) /\ h \in Kinds
      /\ \A s : (\E i \in 1..Len(q) : q[i] = s)
                     <=> s = h \/ \E i \in 1..Len(Tail(q)) : Tail(q)[i] = s
      /\ \A s : Rank(h) > 0 /\ Rank(s) > 0 /\ Rank(s) <= Rank(h)
                     => ~ \E i \in 1..Len(Tail(q)) : Tail(q)[i] = s
  <2> HIDE DEF q
  <2>1. InOrder(q) /\ q # <<>>
    BY <1>1
  <2> QED BY <2>1, InOrderTail DEF h, q
<1>4. \A s : Has(t, s) <=> \E i \in 1..Len(q) : q[i] = s
  BY DEF Has
<1>5. \A s : Has(u, s) <=> \E i \in 1..Len(Tail(q)) : Tail(q)[i] = s
  BY <1>1 DEF Has
<1>6. /\ InOrder(u.todo) /\ h \in Kinds
      /\ \A s : Has(t, s) <=> s = h \/ Has(u, s)
      /\ \A s : Rank(h) > 0 /\ Rank(s) > 0 /\ Rank(s) <= Rank(h) => ~Has(u, s)
  <2> HIDE DEF h, q
  <2> QED BY <1>1, <1>3, <1>4, <1>5
<1>7. /\ \A k : InLatest(t, k) => InLatest(u, k)'
      /\ \A k \in written : Written(u, k)
  BY <1>1 DEF InLatest, Written, Present
<1>8. u.snapshot # None => \A k \in DOMAIN u.snapshot : ~IsRow(k, "match") => k \in DOMAIN db'
  BY <1>1 DEF Snapshot, OpenInv, Present
<1>9. Has(u, "files") => Has(u, "verified")
  <2>1. Has(t, "files") => Has(t, "verified")
    BY DEF OpenInv
  <2>2. Rank("files") = 5 /\ Rank("verified") = 6
    BY DEF Rank
  <2> HIDE DEF h
  <2> QED BY <1>6, <2>1, <2>2
<1>10. Has(u, "onCreation") => Has(u, "contract") /\ Has(u, "deployment")
  <2>1. Has(t, "onCreation") => Has(t, "contract") /\ Has(t, "deployment")
    BY DEF OpenInv
  <2>2. Rank("onCreation") = 1 /\ Rank("contract") = 2 /\ Rank("deployment") = 3
    BY DEF Rank
  <2> HIDE DEF h
  <2> QED BY <1>6, <2>1, <2>2
<1> HIDE DEF h
<1> QED BY <1>2, <1>6, <1>7, <1>8, <1>9, <1>10 DEF h

\* A statement that neither finds the compilation nor writes its files.
LEMMA PlainStatement ==
  ASSUME NEW j \in Jobs, NEW t, NEW u, NEW written, JobInv(j, t),
         Ran(t, u, written), KeepsPlace(t, u),
         NEW h, h = Head(t.todo), h \notin {"compiled", "files"},
         ~t.similar /\ h = "creation" => InLatest(u, Code(t.export.creation))',
         ~t.similar /\ h = "runtime" => InLatest(u, Code(t.export.runtime))',
         ~t.similar /\ h = "onCreation" => InLatest(u, Code(t.export.onCreation))',
         ~t.similar /\ h = "onRuntime" => InLatest(u, Code(t.export.onRuntime))',
         ~t.similar /\ h = "contract" => InLatest(u, t.contract)',
         ~t.similar /\ h = "sources" => \A s \in Range(t.export.files) : InLatest(u, Source(s))',
         h = "deployment" => InLatest(u, Deployment(t.export.address))',
         h = "verified" => Written(u, t.verified),
         \A k \in written : WriteOK(u, k)'
  PROVE  JobInv(j, u)'
<1>1. OpenInv(t)
  BY DEF Ran, JobInv
<1>2. /\ Open(t) /\ Active(t) /\ Open(u) /\ Active(u)
      /\ ~AfterCommit(u) /\ u.pc # "updateMatch"
      /\ InOrder(u.todo) /\ h \in Kinds
      /\ \A s : Has(u, s) => Has(t, s)
      /\ \A s : Has(t, s) => Has(u, s) \/ s = h
      /\ Has(u, "files") => Has(u, "verified")
      /\ Has(u, "onCreation") => Has(u, "contract") /\ Has(u, "deployment")
      /\ \A k : InLatest(t, k) => InLatest(u, k)'
      /\ u.snapshot # None => \A k \in DOMAIN u.snapshot : ~IsRow(k, "match") => k \in DOMAIN db'
  BY <1>1, RanFacts
<1>3. /\ u.export = t.export /\ u.similar = t.similar /\ u.contract = t.contract
      /\ u.verdict = t.verdict /\ u.level = t.level /\ u.old = t.old
      /\ u.comp = t.comp /\ u.verified = t.verified
      /\ db' = db
      /\ \A k \in DOMAIN t.writes \ written : u.writes[k] = t.writes[k]
      /\ DOMAIN u.writes = DOMAIN t.writes \cup written
  BY DEF Ran, KeepsMost, KeepsPlace
<1>4. h # "compiled" /\ h # "files"
  OBVIOUS
<1>5. ASSUME NEW k \in DOMAIN u.writes PROVE WriteOK(u, k)'
  <2>1. CASE k \in written
    BY <2>1
  <2>2. CASE k \notin written
    <3>1. k \in DOMAIN t.writes /\ WriteOK(t, k) /\ u.writes[k] = t.writes[k]
      BY <1>1, <1>3, <1>5, <2>2 DEF OpenInv
    <3>2. u.writes[k] = t.writes[k] /\ db' = db
      BY <1>3, <3>1
    <3> QED BY <1>2, <1>3, <3>1, <3>2, WriteKeeps
  <2> QED BY <2>1, <2>2
<1>6. ASSUME ~t.similar PROVE StoreInv(j, u)'
  <2>1. StoreInv(j, t) /\ RowsInv(t) /\ CompInv(t) /\ FilesInv(t) /\ ~Has(t, "oldMatch") /\ ~Has(t, "match")
    BY <1>2, <1>6 DEF JobInv, StoreInv
  <2>2. ~IsRow(t.contract, "match")
    BY <2>1, NoMatchKeys DEF StoreInv
  <2>3. RowsInv(u)'
    <3>1. /\ h = "creation" => InLatest(u, Code(u.export.creation))'
          /\ h = "runtime" => InLatest(u, Code(u.export.runtime))'
          /\ h = "onCreation" => InLatest(u, Code(u.export.onCreation))'
          /\ h = "onRuntime" => InLatest(u, Code(u.export.onRuntime))'
          /\ h = "contract" => InLatest(u, u.contract)'
          /\ h = "sources" => \A s \in Range(u.export.files) : InLatest(u, Source(s))'
      BY <1>3, <1>6
    <3>2. \A s : Has(t, s) => Has(u, s) \/ s = h
      BY <1>2
    <3>3. \A k : InLatest(t, k) /\ ~IsRow(k, "match") => InLatest(u, k)'
      BY <1>2
    <3>4. u.export = t.export /\ u.contract = t.contract
      BY <1>3
    <3> QED BY <2>1, <2>2, <3>1, <3>2, <3>3, <3>4, RowsKeep
  <2>4. CompInv(u)'
    BY <1>2, <1>3, <1>4, <2>1, CompKeeps
  <2>5. FilesInv(u)'
    <3>1. ASSUME NEW p, Written(t, File(t.comp, p))
          PROVE  /\ Written(u, File(t.comp, p))
                 /\ u.writes[File(t.comp, p)] = t.writes[File(t.comp, p)]
      <4>1. PICK k : k = File(t.comp, p)
        OBVIOUS
      <4>2. k \in DOMAIN t.writes /\ IsRow(k, "file") /\ k[3] = p
        BY <3>1, <4>1, KeyParts DEF Written, IsRow
      <4>3. CASE k \notin written
        BY <1>3, <4>1, <4>2, <4>3 DEF Written
      <4>4. CASE k \in written
        <5>1. WriteOK(u, k)'
          BY <4>4
        <5>2. u.writes[k] = u.export.files[k[3]]
          BY <4>2, <5>1 DEF WriteOK, IsRow
        <5>3. t.writes[k] = t.export.files[k[3]]
          BY <1>1, <4>2 DEF OpenInv, WriteOK
        <5> QED BY <1>3, <4>1, <4>2, <5>2, <5>3 DEF Written
      <4> QED BY <4>3, <4>4
    <3> QED BY <1>2, <1>3, <1>4, <2>1, <3>1, FilesKeep
  <2>6. ~Has(u, "oldMatch") /\ ~Has(u, "match")
    BY <1>2, <2>1
  <2>7. /\ u.export \in Exports /\ u.contract \in {Contract(j, u.export), BareContract(j, u.export)}
        /\ u.verdict = Verdict(u.export) /\ u.level = Level(u.export)
        /\ u.old = None \/ (IsRow(u.old, "verified") /\ u.old[3] = u.export.address)
    BY <1>3, <2>1 DEF StoreInv
  <2> QED BY <2>3, <2>4, <2>5, <2>6, <2>7 DEF StoreInv
<1>7. ASSUME t.similar PROVE SimilarInv(u)'
  <2>1. SimilarInv(t)
    BY <1>2, <1>7 DEF JobInv
  <2> QED BY <1>2, <1>3, <2>1, SimilarKeeps
<1>8. OpenInv(u)'
  <2>1. ~Has(u, "deployment") => InLatest(u, Deployment(u.export.address))'
    BY <1>1, <1>2, <1>3 DEF OpenInv
  <2>2. ~Has(u, "verified") => Written(u, u.verified)
    BY <1>1, <1>2, <1>3 DEF OpenInv, Written
  <2> QED BY <1>2, <1>5, <2>1, <2>2 DEF OpenInv, Present
<1> QED BY <1>2, <1>3, <1>6, <1>7, <1>8 DEF JobInv

LEMMA SimpleWrite ==
  ASSUME NEW u, NEW k,
         \/ IsRow(k, "code") \/ IsRow(k, "source")
         \/ IsRow(k, "contract") /\ ~u.similar /\ ~Has(u, "contract") /\ k = u.contract
  PROVE  WriteOK(u, k)'
BY DEF WriteOK, IsRow, Has

\* In a copy the statements before the deployment are over.
LEMMA NoCopy ==
  ASSUME NEW j \in Jobs, JobInv(j, task[j]), Open(task[j]), task[j].todo # <<>>,
         Head(task[j].todo) \in Touched \cup {"compiled", "files"}
  PROVE  ~task[j].similar /\ StoreInv(j, task[j])
<1> DEFINE t == task[j]
<1>1. OpenInv(t) /\ Active(t)
  BY DEF JobInv, Open, Active
<1>2. Has(t, Head(t.todo))
  <2> DEFINE q == t.todo
  <2>1. InOrder(q) /\ q # <<>>
    BY <1>1 DEF OpenInv
  <2> HIDE DEF q
  <2>2. \A s : (\E i \in 1..Len(q) : q[i] = s)
                     <=> s = Head(q) \/ \E i \in 1..Len(Tail(q)) : Tail(q)[i] = s
    BY <2>1, InOrderTail
  <2>3. \E i \in 1..Len(q) : q[i] = Head(q)
    BY <2>2
  <2> QED BY <2>3 DEF Has, q
<1>3. Head(t.todo) \in {"creation", "runtime", "onCreation", "onRuntime", "contract",
                          "sources", "compiled", "files"}
  BY DEF Touched
<1>4. ASSUME t.similar PROVE FALSE
  <2>1. SimilarInv(t)
    BY <1>1, <1>4 DEF JobInv
  <2> QED BY <1>2, <1>3, <2>1 DEF SimilarInv
<1> QED BY <1>1, <1>4 DEF JobInv

\* The contract of a job has been found without its creation code.
LEMMA BareKeeps ==
  ASSUME NEW j \in Jobs, NEW t, NEW v, JobInv(j, t), Open(t), ~t.similar,
         Has(t, "contract"), Has(t, "deployment"),
         v.pc = t.pc, v.export = t.export, v.similar = t.similar, v.todo = t.todo,
         v.writes = t.writes, v.snapshot = t.snapshot, v.comp = t.comp,
         v.verified = t.verified, v.verdict = t.verdict, v.level = t.level, v.old = t.old,
         v.contract \in {t.contract, BareContract(j, t.export)}
  PROVE  JobInv(j, v)
<1>1. Open(v) /\ Active(v) /\ ~AfterCommit(v) /\ v.pc # "updateMatch" /\ Active(t)
  BY DEF Open, Active, AfterCommit
<1>2. \A s : Has(v, s) <=> Has(t, s)
  BY DEF Has
<1>3. StoreInv(j, t) /\ OpenInv(t)
  BY <1>1 DEF JobInv
<1>4. StoreInv(j, v)
  <2>1. RowsInv(v)
    BY <1>2, <1>3 DEF StoreInv, RowsInv, InLatest, Written
  <2>2. CompInv(v) /\ FilesInv(v)
    BY <1>2, <1>3 DEF StoreInv, CompInv, FilesInv, InLatest, Written
  <2> QED BY <1>2, <1>3, <2>1, <2>2 DEF StoreInv
<1>5. OpenInv(v)
  <2>1. ASSUME NEW k \in DOMAIN v.writes PROVE WriteOK(v, k)
    <3>1. WriteOK(t, k)
      BY <1>3, <2>1 DEF OpenInv
    <3>2. ~IsRow(k, "contract") /\ ~IsRow(k, "deployment")
      BY <3>1 DEF WriteOK
    <3> QED BY <1>2, <3>1, <3>2 DEF WriteOK
  <2> QED BY <1>2, <1>3, <2>1 DEF OpenInv, InLatest, Written
<1> QED BY <1>1, <1>4, <1>5 DEF JobInv

\* The task as it would be had it begun with the contract that it goes on with.
LEMMA TouchRan ==
  ASSUME LockInv, NEW j \in Jobs, JobInv(j, task[j]), Open(task[j]), task[j].todo # <<>>,
         Head(task[j].todo) \in Touched, NEW rows, NEW written,
         Executes(j, rows, written), KeepsPlace(task[j], task'[j])
  PROVE  LET v == [task[j] EXCEPT !.contract = task'[j].contract]
         IN  /\ Ran(v, task'[j], written) /\ JobInv(j, v) /\ KeepsPlace(v, task'[j])
             /\ v.export = task[j].export /\ v.similar = task[j].similar
             /\ v.todo = task[j].todo /\ v.writes = task[j].writes
             /\ Head(task[j].todo) # "onCreation" => v.contract = task[j].contract
<1>1. PICK t, u, c : t = task[j] /\ u = task'[j] /\ c = u.contract
  OBVIOUS
<1> DEFINE v == [t EXCEPT !.contract = c]
<1>2. IsTask(t)
  BY <1>1 DEF LockInv
<1>3. /\ v.pc = t.pc /\ v.export = t.export /\ v.similar = t.similar /\ v.todo = t.todo
      /\ v.writes = t.writes /\ v.snapshot = t.snapshot /\ v.comp = t.comp
      /\ v.verified = t.verified /\ v.verdict = t.verdict /\ v.level = t.level
      /\ v.old = t.old /\ v.raced = t.raced /\ v.found = t.found /\ v.contract = c
  BY <1>2 DEF IsTask, Field
<1> HIDE DEF v
<1>4. PICK h : h = Head(t.todo)
  OBVIOUS
<1>5. /\ KeepsMost(t, u) /\ u.pc = t.pc /\ u.todo = Tail(t.todo) /\ t.todo # <<>> /\ Open(t)
      /\ DOMAIN u.writes = DOMAIN t.writes \cup written
      /\ \A k \in DOMAIN t.writes \ written : u.writes[k] = t.writes[k]
      /\ u.snapshot \in {t.snapshot, Snapshot(t)} /\ db' = db
      /\ \/ c = t.contract
         \/ h = "onCreation" /\ c = BareContract(j, t.export)
  BY <1>1, <1>4 DEF Executes, Keeps, Overlooks
<1>6. Ran(v, u, written)
  BY <1>1, <1>3, <1>5 DEF Ran, KeepsMost, Open, Snapshot
<1>7. KeepsPlace(v, u)
  BY <1>1, <1>3 DEF KeepsPlace
<1>8. JobInv(j, t) /\ ~t.similar
  BY <1>1, NoCopy
<1>9. CASE c = t.contract
  <2>1. v = t
    BY <1>2, <1>9 DEF v, IsTask, Field
  <2> QED BY <1>1, <1>3, <1>6, <1>7, <1>8, <1>9, <2>1 DEF v
<1>10. CASE h = "onCreation" /\ c = BareContract(j, t.export)
  <2>1. OpenInv(t)
    BY <1>5, <1>8 DEF JobInv
  <2>2. Has(t, "onCreation")
    <3>1. PICK q : q = t.todo
      OBVIOUS
    <3>2. q \in Seq(Kinds) /\ q # <<>> /\ Head(q) = "onCreation"
      BY <1>4, <1>5, <1>10, <2>1, <3>1 DEF OpenInv, InOrder
    <3>3. 1 \in 1..Len(q) /\ q[1] = "onCreation"
      BY <3>2
    <3> QED BY <3>1, <3>3 DEF Has
  <2>3. Has(t, "contract") /\ Has(t, "deployment")
    BY <2>1, <2>2 DEF OpenInv
  <2>4. JobInv(j, v)
    BY <1>3, <1>5, <1>8, <1>10, <2>3, BareKeeps
  <2> QED BY <1>1, <1>3, <1>4, <1>6, <1>7, <1>10, <2>4 DEF v
<1> QED BY <1>5, <1>9, <1>10

LEMMA TouchKeeps ==
  ASSUME LockInv, NEW j \in Jobs, JobInv(j, task[j]), Open(task[j]), task[j].todo # <<>>,
         Head(task[j].todo) \in Touched,
         Executes(j, NextRows(j), DOMAIN NextRows(j) \ DOMAIN Latest(task[j])),
         KeepsPlace(task[j], task'[j])
  PROVE  JobInv(j, task[j])'
<1>1. PICK t, u, h, new : /\ t = [task[j] EXCEPT !.contract = task'[j].contract]
                          /\ u = task'[j] /\ h = Head(task[j].todo)
                          /\ new = DOMAIN NextRows(j) \ DOMAIN Latest(task[j])
  OBVIOUS
<1>2. /\ Ran(t, u, new) /\ JobInv(j, t) /\ KeepsPlace(t, u)
      /\ h \in Touched /\ t.todo # <<>> /\ h = Head(t.todo)
      /\ t.export = task[j].export /\ t.writes = task[j].writes
      /\ t.similar = task[j].similar
      /\ h # "onCreation" => t.contract = task[j].contract
  BY <1>1, TouchRan
<1>3. ~t.similar /\ u.similar = t.similar /\ u.contract = t.contract
      /\ Open(t) /\ Active(t) /\ OpenInv(t)
      /\ t.contract \in {Contract(j, t.export), BareContract(j, t.export)}
  <2>1. ~t.similar
    BY <1>2, NoCopy
  <2>2. Open(t) /\ Active(t) /\ u.similar = t.similar /\ u.contract = t.contract
    BY <1>2 DEF Ran, KeepsMost, Open, Active
  <2> QED BY <1>2, <2>1, <2>2 DEF JobInv, StoreInv
<1>4. ASSUME NEW k \in DOMAIN NextRows(j) PROVE InLatest(u, k)'
  <2>1. CASE k \in new
    BY <1>2, <2>1 DEF Ran, InLatest, Written
  <2>2. CASE k \notin new
    <3>1. k \in DOMAIN Latest(task[j])
      BY <1>1, <2>2
    <3>2. k \in DOMAIN t.writes \/ k \in DOMAIN db
      BY <1>2, <3>1, OverKeys DEF Latest
    <3> QED BY <1>2, <3>2 DEF Ran, InLatest, Written, Present
  <2> QED BY <2>1, <2>2
<1>5. /\ h = "creation" => DOMAIN NextRows(j) = {Code(t.export.creation)}
      /\ h = "runtime" => DOMAIN NextRows(j) = {Code(t.export.runtime)}
      /\ h = "onCreation" => DOMAIN NextRows(j) = {Code(t.export.onCreation)}
      /\ h = "onRuntime" => DOMAIN NextRows(j) = {Code(t.export.onRuntime)}
      /\ h = "contract" => DOMAIN NextRows(j) = {t.contract}
      /\ h = "sources" => DOMAIN NextRows(j) = {Source(f) : f \in Range(t.export.files)}
  <2>1. PICK e : e = task[j].export
    OBVIOUS
  <2>2. h = "sources" => DOMAIN NextRows(j) = {Source(f) : f \in Range(e.files)}
    BY <1>1, <2>1, NextSources
  <2>3. /\ h = "creation" => DOMAIN NextRows(j) = {Code(e.creation)}
        /\ h = "runtime" => DOMAIN NextRows(j) = {Code(e.runtime)}
        /\ h = "onCreation" => DOMAIN NextRows(j) = {Code(e.onCreation)}
        /\ h = "onRuntime" => DOMAIN NextRows(j) = {Code(e.onRuntime)}
        /\ h = "contract" => DOMAIN NextRows(j) = {task[j].contract}
    BY <1>1, <2>1, NextCreation, NextRuntime, NextOnCreation, NextOnRuntime, NextContract
  <2> QED BY <1>2, <2>1, <2>2, <2>3
<1>6. ASSUME NEW k \in new PROVE WriteOK(u, k)'
  <2>1. k \in DOMAIN NextRows(j)
    BY <1>1
  <2>2. CASE h \in {"creation", "runtime", "onCreation", "onRuntime"}
    BY <1>5, <2>1, <2>2, KeyParts, SimpleWrite DEF IsRow
  <2>3. CASE h = "sources"
    BY <1>5, <2>1, <2>3, KeyParts, SimpleWrite DEF IsRow
  <2>4. CASE h = "contract"
    <3>1. k = t.contract /\ IsRow(k, "contract")
      BY <1>3, <1>5, <2>1, <2>4, KeyParts DEF IsRow
    <3>2. \A s : Rank(h) > 0 /\ Rank(s) > 0 /\ Rank(s) <= Rank(h) => ~Has(u, s)
      BY <1>2, <1>3, RanFacts
    <3>3. Rank(h) = 2 /\ Rank("contract") = 2
      BY <2>4 DEF Rank
    <3>4. ~Has(u, "contract")
      BY <3>2, <3>3
    <3> QED BY <1>3, <3>1, <3>4, SimpleWrite
  <2> QED BY <1>2, <2>2, <2>3, <2>4 DEF Touched
<1>7. /\ h = "creation" => InLatest(u, Code(t.export.creation))'
      /\ h = "runtime" => InLatest(u, Code(t.export.runtime))'
      /\ h = "onCreation" => InLatest(u, Code(t.export.onCreation))'
      /\ h = "onRuntime" => InLatest(u, Code(t.export.onRuntime))'
      /\ h = "contract" => InLatest(u, t.contract)'
      /\ h = "sources" => \A s \in Range(t.export.files) : InLatest(u, Source(s))'
  BY <1>4, <1>5
<1>8. h = Head(t.todo) /\ h \notin {"compiled", "files"} /\ h # "deployment" /\ h # "verified"
  BY <1>1, <1>2 DEF Touched
<1>9. JobInv(j, u)'
  BY <1>2, <1>6, <1>7, <1>8, PlainStatement
<1> QED BY <1>1, <1>9

LEMMA DeploymentKeeps ==
  ASSUME LockInv, NEW j \in Jobs, JobInv(j, task[j]), Open(task[j]), task[j].todo # <<>>,
         Head(task[j].todo) = "deployment",
         Executes(j, NextRows(j), DOMAIN NextRows(j)), KeepsPlace(task[j], task'[j])
  PROVE  JobInv(j, task[j])'
<1>1. PICK t, u, h, new, k : /\ t = task[j] /\ u = task'[j] /\ h = Head(t.todo)
                             /\ new = DOMAIN NextRows(j) /\ k = Deployment(t.export.address)
  OBVIOUS
<1>2. /\ Ran(t, u, new) /\ JobInv(j, t) /\ KeepsPlace(t, u)
      /\ h = "deployment" /\ t.todo # <<>>
      /\ new = {k} /\ u.writes[k] = NextRows(j)[k] /\ NextRows(j)[k].contract = t.contract
  BY <1>1, ExecutesRan, NextDeployment DEF Executes
<1>3. k \in DOMAIN u.writes /\ u.writes[k].contract = t.contract
      /\ u.export = t.export /\ u.contract = t.contract
  BY <1>2 DEF Ran, KeepsMost
<1>4. IsRow(k, "deployment")
  BY <1>1, KeyParts DEF IsRow
<1>5. WriteOK(u, k)'
  <2>1. OpenInv(t)
    BY <1>2 DEF Ran, JobInv
  <2>2. \A s : Rank(h) > 0 /\ Rank(s) > 0 /\ Rank(s) <= Rank(h) => ~Has(u, s)
    BY <1>1, <1>2, <2>1, RanFacts
  <2>3. Rank(h) = 3 /\ Rank("deployment") = 3
    BY <1>2 DEF Rank
  <2>4. ~Has(u, "deployment")
    BY <2>2, <2>3
  <2> QED BY <1>1, <1>3, <1>4, <2>4 DEF WriteOK, IsRow, Has
<1>6. InLatest(u, k)'
  BY <1>3 DEF InLatest, Written
<1>7. h = Head(t.todo) /\ h = "deployment"
  BY <1>1, <1>2
<1>8. JobInv(j, u)'
  BY <1>1, <1>2, <1>5, <1>6, <1>7, PlainStatement
<1> QED BY <1>1, <1>8

LEMMA VerifiedKeeps ==
  ASSUME LockInv, NEW j \in Jobs, JobInv(j, task[j]), Open(task[j]), task[j].todo # <<>>,
         Head(task[j].todo) = "verified",
         Executes(j, NextRows(j), DOMAIN NextRows(j)), KeepsPlace(task[j], task'[j])
  PROVE  JobInv(j, task[j])'
<1>1. PICK t, u, h, new, k : /\ t = task[j] /\ u = task'[j] /\ h = Head(t.todo)
                             /\ new = DOMAIN NextRows(j) /\ k = t.verified
  OBVIOUS
<1>2. /\ Ran(t, u, new) /\ JobInv(j, t) /\ KeepsPlace(t, u)
      /\ h = "verified" /\ t.todo # <<>>
      /\ new = {k} /\ u.writes[k] = NextRows(j)[k] /\ NextRows(j)[k] = t.verdict
  BY <1>1, ExecutesRan, NextVerified DEF Executes
<1>3. k \in DOMAIN u.writes /\ u.writes[k] = u.verdict /\ u.verified = t.verified
  BY <1>2 DEF Ran, KeepsMost, KeepsPlace
<1>4. OpenInv(t) /\ Open(t) /\ Active(t)
  BY <1>2 DEF Ran, JobInv, Open, Active
<1>5. ~Has(u, "compiled") /\ ~Has(u, "files")
  <2>1. \A s : Rank(h) > 0 /\ Rank(s) > 0 /\ Rank(s) <= Rank(h) => ~Has(u, s)
    BY <1>1, <1>2, <1>4, RanFacts
  <2>2. Rank(h) = 6 /\ Rank("compiled") = 4 /\ Rank("files") = 5
    BY <1>2 DEF Rank
  <2> QED BY <2>1, <2>2
<1>6. IsRow(k, "verified")
  <2>1. CASE t.similar
    <3>1. SimilarInv(t)
      BY <1>2, <1>4, <2>1 DEF JobInv
    <3> QED BY <1>1, <3>1, KeyParts DEF SimilarInv, IsRow
  <2>2. CASE ~t.similar
    <3>1. FilesInv(t)
      BY <1>2, <1>4, <2>2 DEF JobInv, StoreInv
    <3>2. ~Has(t, "files")
      <4>1. \A s : Has(t, s) => Has(u, s) \/ s = h
        BY <1>1, <1>2, <1>4, RanFacts
      <4> QED BY <1>2, <1>5, <4>1
    <3> QED BY <1>1, <3>1, <3>2, KeyParts DEF FilesInv, IsRow
  <2> QED BY <2>1, <2>2
<1>7. WriteOK(u, k)'
  BY <1>1, <1>3, <1>5, <1>6 DEF WriteOK, IsRow
<1>8. h = Head(t.todo) /\ h = "verified" /\ Written(u, k)
  BY <1>1, <1>2, <1>3 DEF Written
<1>9. JobInv(j, u)'
  BY <1>1, <1>2, <1>7, <1>8, PlainStatement
<1> QED BY <1>1, <1>9

\* Of the jobs only a copy writes a match in its transaction.
LEMMA MatchKeeps ==
  ASSUME LockInv, NEW j \in Jobs, JobInv(j, task[j]), Open(task[j]), task[j].todo # <<>>,
         Head(task[j].todo) \in {"oldMatch", "match"},
         NEW rows, NEW written, Executes(j, rows, written),
         written \subseteq {Match(task[j].verified)},
         Head(task[j].todo) = "oldMatch" => written = {},
         task'[j].comp = task[j].comp, task'[j].verified = task[j].verified
  PROVE  JobInv(j, task[j])'
<1>1. PICK t, u, h, k : /\ t = task[j] /\ u = task'[j] /\ h = Head(t.todo)
                        /\ k = Match(t.verified)
  OBVIOUS
<1>2. /\ Ran(t, u, written) /\ JobInv(j, t)
      /\ h \in {"oldMatch", "match"} /\ t.todo # <<>>
      /\ written \subseteq {k} /\ (h = "oldMatch" => written = {})
      /\ u.comp = t.comp /\ u.verified = t.verified
  BY <1>1, ExecutesRan
<1>3. OpenInv(t) /\ Open(t) /\ Active(t)
  BY <1>2 DEF Ran, JobInv, Open, Active
<1>4. /\ Has(t, h)
      /\ \A s : Rank(h) > 0 /\ Rank(s) > 0 /\ Rank(s) <= Rank(h) => ~Has(u, s)
  BY <1>1, <1>2, <1>3, RanFacts
<1>5. t.similar
  BY <1>2, <1>3, <1>4 DEF JobInv, StoreInv
<1>6. ASSUME NEW x \in written PROVE WriteOK(u, x)'
  <2>1. h = "match" /\ x = k
    BY <1>2, <1>6
  <2>2. Rank(h) = 8 /\ Rank("match") = 8
    BY <2>1 DEF Rank
  <2>3. ~Has(u, "match")
    BY <1>4, <2>2
  <2>4. IsRow(x, "match")
    BY <1>1, <2>1, KeyParts DEF IsRow
  <2>5. u.similar /\ x = Match(u.verified)
    BY <1>1, <1>2, <1>5, <2>1 DEF Ran, KeepsMost
  <2> QED BY <2>3, <2>4, <2>5 DEF WriteOK, IsRow
<1>7. SimilarInv(t) /\ SimilarInv(u)'
  <2>1. SimilarInv(t)
    BY <1>2, <1>3, <1>5 DEF JobInv
  <2>2. /\ \A s : Has(u, s) => Has(t, s)
        /\ Open(u)
    BY <1>2, <1>3, RanFacts
  <2>3. u.export = t.export /\ u.comp = t.comp /\ u.verified = t.verified
        /\ u.contract = t.contract /\ u.verdict = t.verdict /\ db' = db
    BY <1>2 DEF Ran, KeepsMost
  <2> QED BY <1>3, <2>1, <2>2, <2>3, SimilarKeeps
<1>8. OpenInv(u)'
  <2>1. /\ InOrder(u.todo)
        /\ u.snapshot # None => \A x \in DOMAIN u.snapshot : ~IsRow(x, "match") => x \in DOMAIN db'
        /\ \A s : Has(u, s) => Has(t, s)
        /\ \A s : Has(t, s) => Has(u, s) \/ s = h
        /\ \A x : InLatest(t, x) => InLatest(u, x)'
        /\ Has(u, "files") => Has(u, "verified")
        /\ Has(u, "onCreation") => Has(u, "contract") /\ Has(u, "deployment")
    BY <1>1, <1>2, <1>3, RanFacts
  <2>2. /\ u.export = t.export /\ u.similar = t.similar /\ u.contract = t.contract
        /\ u.verdict = t.verdict /\ u.comp = t.comp /\ u.verified = t.verified
        /\ db' = db /\ DOMAIN u.writes = DOMAIN t.writes \cup written
        /\ \A x \in DOMAIN t.writes \ written : u.writes[x] = t.writes[x]
    BY <1>2 DEF Ran, KeepsMost
  <2>3. ASSUME NEW x \in DOMAIN u.writes PROVE WriteOK(u, x)'
    <3>1. CASE x \in written
      BY <1>6, <3>1
    <3>2. CASE x \notin written
      <4>1. x \in DOMAIN t.writes /\ WriteOK(t, x) /\ u.writes[x] = t.writes[x] /\ db' = db
        BY <1>3, <2>2, <2>3, <3>2 DEF OpenInv
      <4> QED BY <2>1, <2>2, <4>1, WriteKeeps
    <3> QED BY <3>1, <3>2
  <2>4. h # "deployment" /\ h # "verified"
    BY <1>2
  <2>5. ~Has(u, "deployment") => InLatest(u, Deployment(u.export.address))'
    BY <1>3, <2>1, <2>2, <2>4 DEF OpenInv
  <2>6. ~Has(u, "verified") => Written(u, u.verified)
    BY <1>3, <2>1, <2>2, <2>4 DEF OpenInv, Written
  <2> QED BY <2>1, <2>3, <2>5, <2>6 DEF OpenInv, Present
<1>9. /\ u.similar /\ ~AfterCommit(u) /\ u.pc # "updateMatch"
  <2>1. ~AfterCommit(u) /\ u.pc # "updateMatch"
    BY <1>2, <1>3, RanFacts
  <2> QED BY <1>2, <1>5, <2>1 DEF Ran, KeepsMost
<1>10. JobInv(j, u)'
  BY <1>7, <1>8, <1>9 DEF JobInv
<1> QED BY <1>1, <1>10

LEMMA StoreStatement ==
  ASSUME NEW j \in Jobs, NEW t, NEW u, NEW written, JobInv(j, t), Ran(t, u, written),
         NEW h, h = Head(t.todo), h \in {"compiled", "files"}, ~t.similar,
         CompInv(u)', FilesInv(u)', \A x \in DOMAIN u.writes : WriteOK(u, x)',
         ~Has(u, "verified") => Written(u, u.verified)
  PROVE  JobInv(j, u)'
<1>1. OpenInv(t) /\ Open(t) /\ Active(t)
  BY DEF Ran, JobInv, Open, Active
<1>2. /\ Open(u) /\ Active(u) /\ ~AfterCommit(u) /\ u.pc # "updateMatch"
      /\ InOrder(u.todo)
      /\ \A s : Has(u, s) => Has(t, s)
      /\ \A s : Has(t, s) => Has(u, s) \/ s = h
      /\ Has(u, "files") => Has(u, "verified")
      /\ Has(u, "onCreation") => Has(u, "contract") /\ Has(u, "deployment")
      /\ \A k : InLatest(t, k) => InLatest(u, k)'
      /\ u.snapshot # None => \A k \in DOMAIN u.snapshot : ~IsRow(k, "match") => k \in DOMAIN db'
  BY <1>1, RanFacts
<1>3. /\ u.export = t.export /\ u.similar = t.similar /\ u.contract = t.contract
      /\ u.verdict = t.verdict /\ u.level = t.level /\ u.old = t.old
  BY DEF Ran, KeepsMost
<1>4. StoreInv(j, t) /\ RowsInv(t) /\ ~Has(t, "oldMatch") /\ ~Has(t, "match")
  BY <1>1 DEF JobInv, StoreInv
<1>5. RowsInv(u)'
  <2>1. ~IsRow(t.contract, "match")
    BY <1>4, NoMatchKeys DEF StoreInv
  <2>2. \A k : InLatest(t, k) /\ ~IsRow(k, "match") => InLatest(u, k)'
    BY <1>2
  <2>3. h # "creation" /\ h # "runtime" /\ h # "onCreation" /\ h # "onRuntime"
        /\ h # "contract" /\ h # "sources"
    OBVIOUS
  <2> QED BY <1>2, <1>3, <1>4, <2>1, <2>2, <2>3, RowsKeep
<1>6. StoreInv(j, u)'
  <2>1. /\ u.export \in Exports /\ u.contract \in {Contract(j, u.export), BareContract(j, u.export)}
        /\ u.verdict = Verdict(u.export) /\ u.level = Level(u.export)
        /\ u.old = None \/ (IsRow(u.old, "verified") /\ u.old[3] = u.export.address)
    BY <1>3, <1>4 DEF StoreInv
  <2>2. ~Has(u, "oldMatch") /\ ~Has(u, "match")
    BY <1>2, <1>4
  <2> QED BY <1>5, <2>1, <2>2 DEF StoreInv
<1>7. OpenInv(u)'
  <2>1. ~Has(u, "deployment") => InLatest(u, Deployment(u.export.address))'
    BY <1>1, <1>2, <1>3 DEF OpenInv
  <2> QED BY <1>2, <2>1 DEF OpenInv, Present
<1> QED BY <1>2, <1>3, <1>6, <1>7 DEF JobInv

LEMMA FilesAreAdded ==
  ASSUME LockInv, DbInv, NEW j \in Jobs, JobInv(j, task[j]), Open(task[j]), task[j].todo # <<>>,
         Head(task[j].todo) = "files",
         Executes(j, NextRows(j), DOMAIN NextRows(j) \ DOMAIN Latest(task[j])),
         task'[j].comp = task[j].comp,
         task'[j].verified = Verified(task[j].comp, task[j].export.address)
  PROVE  JobInv(j, task[j])'
<1>1. PICK t, u, h, rows, new :
        /\ t = task[j] /\ u = task'[j] /\ h = Head(t.todo)
        /\ rows = NextRows(j) /\ new = DOMAIN NextRows(j) \ DOMAIN Latest(task[j])
  OBVIOUS
<1>2. /\ Ran(t, u, new) /\ JobInv(j, t) /\ h = "files" /\ t.todo # <<>>
      /\ u.comp = t.comp /\ u.verified = Verified(t.comp, t.export.address)
      /\ \A k \in new : u.writes[k] = rows[k]
  BY <1>1, ExecutesRan DEF Executes
<1>3. OpenInv(t) /\ Open(t) /\ Active(t)
  BY <1>2 DEF Ran, JobInv, Open, Active
<1>4. ~t.similar /\ StoreInv(j, t) /\ CompInv(t)
  BY <1>1, <1>2, <1>3, NoCopy DEF StoreInv
<1>5. /\ \A s : Has(u, s) => Has(t, s)
      /\ \A s : Has(t, s) => Has(u, s) \/ s = h
      /\ Has(t, "files")
      /\ \A k : InLatest(t, k) => InLatest(u, k)'
      /\ \A s : Rank(h) > 0 /\ Rank(s) > 0 /\ Rank(s) <= Rank(h) => ~Has(u, s)
  BY <1>1, <1>2, <1>3, RanFacts
<1>6. ~Has(t, "compiled") /\ ~Has(u, "compiled")
  <2>1. Rank(h) = 5 /\ Rank("compiled") = 4
    BY <1>2 DEF Rank
  <2> QED BY <1>2, <1>5, <2>1
<1>7. Has(u, "verified")
  <2>1. Has(t, "verified")
    BY <1>3, <1>5 DEF OpenInv
  <2> QED BY <1>2, <1>5, <2>1
<1>8. /\ u.export = t.export /\ u.similar = t.similar /\ u.contract = t.contract
      /\ u.verdict = t.verdict /\ db' = db
      /\ DOMAIN u.writes = DOMAIN t.writes \cup new
      /\ \A k \in DOMAIN t.writes \ new : u.writes[k] = t.writes[k]
  BY <1>2 DEF Ran, KeepsMost
<1>9. /\ \A k : k \in DOMAIN rows <=> \E p \in DOMAIN t.export.files : k = File(t.comp, p)
      /\ \A k \in DOMAIN rows : rows[k] = t.export.files[k[3]]
      /\ \A k : k \in new <=> k \in DOMAIN rows /\ k \notin DOMAIN t.writes /\ k \notin DOMAIN db
  <2>1. /\ DOMAIN rows = {File(t.comp, p) : p \in DOMAIN t.export.files}
        /\ \A k \in DOMAIN rows : rows[k] = t.export.files[k[3]]
    <3>1. task[j].todo # <<>> /\ Head(task[j].todo) = "files"
      OBVIOUS
    <3>2. /\ DOMAIN NextRows(j) = {File(task[j].comp, p) : p \in DOMAIN task[j].export.files}
          /\ \A k \in DOMAIN NextRows(j) : NextRows(j)[k] = task[j].export.files[k[3]]
      BY <3>1, NextFiles
    <3> QED BY <1>1, <3>2
  <2>2. \A k : k \in DOMAIN Latest(t) <=> k \in DOMAIN t.writes \/ k \in DOMAIN db
    BY OverKeys DEF Latest
  <2> QED BY <1>1, <2>1, <2>2
<1>10. CompInv(u)'
  BY <1>2, <1>4, <1>5, <1>6, <1>8, CompKeeps
<1>11. ASSUME NEW k \in DOMAIN u.writes PROVE WriteOK(u, k)'
  <2>1. CASE k \in new
    <3>1. PICK p \in DOMAIN t.export.files : k = File(t.comp, p)
      BY <1>9, <2>1
    <3>2. IsRow(k, "file") /\ k[3] = p
      BY <3>1, KeyParts DEF IsRow
    <3>3. k = File(u.comp, k[3]) /\ k[3] \in DOMAIN u.export.files
      BY <1>2, <1>8, <3>1, <3>2
    <3>4. u.writes[k] = u.export.files[k[3]] /\ k \notin DOMAIN db'
      BY <1>2, <1>8, <1>9, <2>1
    <3> QED BY <1>4, <1>6, <1>8, <3>2, <3>3, <3>4 DEF WriteOK, IsRow
  <2>2. CASE k \notin new
    <3>1. k \in DOMAIN t.writes /\ WriteOK(t, k) /\ u.writes[k] = t.writes[k]
      BY <1>3, <1>8, <1>11, <2>2 DEF OpenInv
    <3>2. ~IsRow(k, "match")
      BY <1>4, <3>1 DEF WriteOK
    <3> QED BY <1>2, <1>5, <1>8, <3>1, <3>2, WriteKeeps
  <2> QED BY <2>1, <2>2
<1>12. FilesInv(u)'
  <2>1. u.verified = Verified(u.comp, u.export.address)
    BY <1>2, <1>8
  <2>2. ASSUME u.comp \notin DOMAIN db', NEW p \in DOMAIN u.export.files
        PROVE  /\ Written(u, File(u.comp, p))
               /\ u.writes[File(u.comp, p)] = u.export.files[p]
    <3>1. PICK k : k = File(u.comp, p)
      OBVIOUS
    <3>2. IsRow(k, "file") /\ k[2] = u.comp /\ k[3] = p
      BY <3>1, KeyParts DEF IsRow
    <3>3. k \notin DOMAIN db
      BY <1>8, <2>2, <3>2 DEF DbInv, Present
    <3>4. k \in DOMAIN rows
      BY <1>2, <1>8, <1>9, <2>2, <3>1
    <3>5. CASE k \in new
      BY <1>2, <1>8, <1>9, <3>1, <3>2, <3>4, <3>5 DEF Written
    <3>6. CASE k \in DOMAIN t.writes
      <4>1. WriteOK(t, k) /\ k \notin new
        BY <1>3, <1>9, <3>6 DEF OpenInv
      <4>2. t.writes[k] = t.export.files[k[3]]
        BY <3>2, <4>1 DEF WriteOK
      <4> QED BY <1>8, <3>1, <3>2, <3>6, <4>1, <4>2 DEF Written
    <3> QED BY <1>9, <3>3, <3>4, <3>5, <3>6
  <2> QED BY <1>6, <2>1, <2>2 DEF FilesInv
<1>13. JobInv(j, u)'
  <2>1. h = Head(t.todo) /\ h \in {"compiled", "files"}
    BY <1>1, <1>2
  <2> QED BY <1>2, <1>4, <1>7, <1>10, <1>11, <1>12, <2>1, StoreStatement
<1> QED BY <1>1, <1>13

\* The compilation is written, or was there and is found by what is left of its
\* key.
LEMMA CompiledIsFound ==
  ASSUME LockInv, NEW j \in Jobs, JobInv(j, task[j]), Open(task[j]), task[j].todo # <<>>,
         Head(task[j].todo) = "compiled",
         Executes(j, NextRows(j), DOMAIN NextRows(j)),
         task'[j].verified = task[j].verified,
         LET t == task[j]
             u == task'[j]
             e == t.export
         IN  \/ u.comp = Compiled(e)
             \/ /\ u.comp \in DOMAIN Visible(t) /\ IsRow(u.comp, "compiled")
                /\ u.comp[3] = e.creation /\ u.comp[4] = e.runtime
                /\ Unchanged(t, NextRows(j))
  PROVE  JobInv(j, task[j])'
<1>1. PICK t, u, h, rows, c :
        /\ t = task[j] /\ u = task'[j] /\ h = Head(t.todo)
        /\ rows = NextRows(j) /\ c = Compiled(t.export)
  OBVIOUS
<1>2. /\ Ran(t, u, {c}) /\ JobInv(j, t) /\ h = "compiled" /\ t.todo # <<>>
      /\ u.verified = t.verified
      /\ DOMAIN rows = {c}
  <2>1. task[j].todo # <<>> /\ Head(task[j].todo) = "compiled"
    OBVIOUS
  <2>2. DOMAIN NextRows(j) = {Compiled(task[j].export)}
    BY <2>1, NextCompiled
  <2> QED BY <1>1, <2>1, <2>2, ExecutesRan
<1>3. OpenInv(t) /\ Open(t) /\ Active(t)
  BY <1>2 DEF Ran, JobInv, Open, Active
<1>4. ~t.similar /\ StoreInv(j, t) /\ FilesInv(t)
  BY <1>1, <1>2, <1>3, NoCopy DEF StoreInv
<1>5. /\ \A s : Has(u, s) => Has(t, s)
      /\ \A s : Has(t, s) => Has(u, s) \/ s = h
      /\ Has(t, "compiled")
      /\ \A k : InLatest(t, k) => InLatest(u, k)'
      /\ \A s : Rank(h) > 0 /\ Rank(s) > 0 /\ Rank(s) <= Rank(h) => ~Has(u, s)
      /\ Has(u, "files") => Has(u, "verified")
  BY <1>1, <1>2, <1>3, RanFacts
<1>6. ~Has(u, "compiled") /\ Has(u, "files") /\ Has(u, "verified")
  <2>1. Rank(h) = 4 /\ Rank("compiled") = 4
    BY <1>2 DEF Rank
  <2>2. Has(t, "files")
    BY <1>4, <1>5 DEF FilesInv
  <2> QED BY <1>2, <1>5, <2>1, <2>2
<1>7. /\ u.export = t.export /\ u.similar = t.similar /\ u.contract = t.contract
      /\ u.verdict = t.verdict /\ db' = db
      /\ DOMAIN u.writes = DOMAIN t.writes \cup {c}
      /\ \A k \in DOMAIN t.writes \ {c} : u.writes[k] = t.writes[k]
  BY <1>2 DEF Ran, KeepsMost
<1>8. \/ u.comp = c
      \/ /\ u.comp \in DOMAIN Visible(t) /\ IsRow(u.comp, "compiled")
         /\ u.comp[3] = t.export.creation /\ u.comp[4] = t.export.runtime
         /\ Unchanged(t, rows)
  BY <1>1
<1>9. /\ IsRow(c, "compiled") /\ c[3] = t.export.creation /\ c[4] = t.export.runtime
  BY <1>1, KeyParts DEF IsRow
<1>10. CompInv(u)'
  <2>1. CASE u.comp = c
    BY <1>7, <1>9, <2>1 DEF CompInv, InLatest, Written
  <2>2. CASE u.comp # c
    <3>1. u.comp \in DOMAIN t.writes \/ u.comp \in DOMAIN Snapshot(t)
      BY <1>8, <2>2, OverKeys DEF Visible
    <3>2. u.comp \in DOMAIN Snapshot(t) => u.comp \in DOMAIN db
      BY <1>3, <1>8, <2>2, NoMatchKeys DEF Snapshot, OpenInv, Present
    <3>3. InLatest(u, u.comp)'
      BY <1>7, <3>1, <3>2 DEF InLatest, Written, Present
    <3> QED BY <1>7, <1>8, <2>2, <3>3 DEF CompInv
  <2> QED BY <2>1, <2>2
<1>11. FilesInv(u)'
  BY <1>6 DEF FilesInv
<1>12. ASSUME c \notin DOMAIN db PROVE u.comp = c
  <2>1. SUFFICES ASSUME Unchanged(t, rows) PROVE FALSE
    BY <1>8
  <2>2. c \in DOMAIN t.writes
    BY <1>2, <1>12, <2>1, OverKeys DEF Unchanged, Latest
  <2>3. WriteOK(t, c)
    BY <1>3, <2>2 DEF OpenInv
  <2> QED BY <1>5, <1>9, <2>3 DEF WriteOK
<1>13. ASSUME NEW k \in DOMAIN u.writes PROVE WriteOK(u, k)'
  <2>1. CASE k = c
    <3>1. IsRow(k, "compiled") /\ k = Compiled(u.export) /\ ~u.similar
      BY <1>1, <1>4, <1>7, <1>9, <2>1
    <3>2. k \notin DOMAIN db' => u.comp = k
      BY <1>7, <1>12, <2>1
    <3> QED BY <1>6, <3>1, <3>2 DEF WriteOK, IsRow
  <2>2. CASE k # c
    <3>1. k \in DOMAIN t.writes /\ WriteOK(t, k) /\ u.writes[k] = t.writes[k]
      BY <1>3, <1>7, <1>13, <2>2 DEF OpenInv
    <3>2. ~IsRow(k, "match")
      BY <1>4, <3>1 DEF WriteOK
    <3> QED BY <1>2, <1>5, <1>7, <3>1, <3>2, WriteKeeps
  <2> QED BY <2>1, <2>2
<1>14. JobInv(j, u)'
  <2>1. h = Head(t.todo) /\ h \in {"compiled", "files"}
    BY <1>1, <1>2
  <2> QED BY <1>2, <1>4, <1>6, <1>10, <1>11, <1>13, <2>1, StoreStatement
<1> QED BY <1>1, <1>14
-----------------------------------------------------------------------------
(* A job that begins has everything before it *)

LEMMA RanksAre ==
  /\ Rank("onCreation") = 1 /\ Rank("contract") = 2 /\ Rank("deployment") = 3
  /\ Rank("compiled") = 4 /\ Rank("files") = 5 /\ Rank("verified") = 6
  /\ Rank("oldMatch") = 7 /\ Rank("match") = 8
  /\ Rank("creation") = 0 /\ Rank("runtime") = 0 /\ Rank("onRuntime") = 0
  /\ Rank("sources") = 0
BY DEF Rank

LEMMA Joined ==
  ASSUME NEW p \in Seq(Kinds), NEW o \in Seq(Kinds), NEW r \in Seq(Kinds)
  PROVE  /\ p \o o \o r \in Seq(Kinds) /\ Len(p \o o \o r) = Len(p) + Len(o) + Len(r)
         /\ \A i \in 1..Len(p) : (p \o o \o r)[i] = p[i]
         /\ \A i \in 1..Len(o) : (p \o o \o r)[Len(p) + i] = o[i]
         /\ \A i \in 1..Len(r) : (p \o o \o r)[Len(p) + Len(o) + i] = r[i]
<1>1. /\ p \o o \in Seq(Kinds) /\ Len(p \o o) = Len(p) + Len(o)
      /\ \A i \in 1..Len(p) : (p \o o)[i] = p[i]
      /\ \A i \in 1..Len(o) : (p \o o)[Len(p) + i] = o[i]
  OBVIOUS
<1>2. ASSUME NEW x \in Seq(Kinds)
      PROVE  /\ x \o r \in Seq(Kinds) /\ Len(x \o r) = Len(x) + Len(r)
             /\ \A i \in 1..Len(x) : (x \o r)[i] = x[i]
             /\ \A i \in 1..Len(r) : (x \o r)[Len(x) + i] = r[i]
  OBVIOUS
<1> QED BY <1>1, <1>2

Nine == {"creation", "runtime", "onRuntime", "contract", "deployment", "compiled", "sources",
         "files", "verified"}

Complete(e, q) ==
  /\ InOrder(q)
  /\ \A s \in Nine : \E i \in 1..Len(q) : q[i] = s
  /\ \A i \in 1..Len(q) : q[i] \notin {"oldMatch", "match"}
  /\ e.onCreation # None => \E i \in 1..Len(q) : q[i] = "onCreation"

LEMMA InsertWithout ==
  ASSUME NEW e, e.onCreation = None, NEW q, q = InsertStatements(e)
  PROVE  Complete(e, q)
<1> DEFINE p == <<"creation", "runtime">>
           o == <<>>
           r == <<"onRuntime", "contract", "deployment", "compiled", "sources",
                  "files", "verified">>
<1>1. /\ p \in Seq(Kinds) /\ Len(p) = 2
      /\ o \in Seq(Kinds) /\ Len(o) = 0
      /\ r \in Seq(Kinds) /\ Len(r) = 7
  BY DEF Kinds
<1>2. q = p \o o \o r
  BY DEF InsertStatements, UpdateStatements, OnCreation
<1>3. /\ p[1] = "creation" /\ p[2] = "runtime" /\ r[1] = "onRuntime"
      /\ r[2] = "contract" /\ r[3] = "deployment" /\ r[4] = "compiled"
      /\ r[5] = "sources" /\ r[6] = "files" /\ r[7] = "verified"
  OBVIOUS
<1> HIDE DEF p, o, r
<1>4. /\ q \in Seq(Kinds) /\ Len(q) = Len(p) + Len(o) + Len(r)
      /\ \A i \in 1..Len(p) : q[i] = p[i]
      /\ \A i \in 1..Len(o) : q[Len(p) + i] = o[i]
      /\ \A i \in 1..Len(r) : q[Len(p) + Len(o) + i] = r[i]
  <2>1. p \in Seq(Kinds) /\ o \in Seq(Kinds) /\ r \in Seq(Kinds)
    BY <1>1
  <2>2. /\ p \o o \o r \in Seq(Kinds) /\ Len(p \o o \o r) = Len(p) + Len(o) + Len(r)
        /\ \A i \in 1..Len(p) : (p \o o \o r)[i] = p[i]
        /\ \A i \in 1..Len(o) : (p \o o \o r)[Len(p) + i] = o[i]
        /\ \A i \in 1..Len(r) : (p \o o \o r)[Len(p) + Len(o) + i] = r[i]
    BY <2>1, Joined, Zenon
  <2> QED BY <1>2, <2>2, Zenon
<1>5. /\ q \in Seq(Kinds) /\ Len(q) = 9
      /\ q[1] = "creation" /\ q[2] = "runtime" /\ q[3] = "onRuntime"
      /\ q[4] = "contract" /\ q[5] = "deployment" /\ q[6] = "compiled"
      /\ q[7] = "sources" /\ q[8] = "files" /\ q[9] = "verified"
  BY <1>1, <1>3, <1>4
<1>6. InOrder(q)
  BY <1>5, RanksAre DEF InOrder
<1>7. \A s \in Nine : \E i \in 1..Len(q) : q[i] = s
  BY <1>5 DEF Nine
<1>8. \A i \in 1..Len(q) : q[i] \notin {"oldMatch", "match"}
  BY <1>5
<1>9. e.onCreation # None => \E i \in 1..Len(q) : q[i] = "onCreation"
  BY <1>5
<1> QED BY <1>6, <1>7, <1>8, <1>9 DEF Complete

LEMMA InsertWith ==
  ASSUME NEW e, e.onCreation # None, NEW q, q = InsertStatements(e)
  PROVE  Complete(e, q)
<1> DEFINE p == <<"creation", "runtime">>
           o == <<"onCreation">>
           r == <<"onRuntime", "contract", "deployment", "compiled", "sources",
                  "files", "verified">>
<1>1. /\ p \in Seq(Kinds) /\ Len(p) = 2
      /\ o \in Seq(Kinds) /\ Len(o) = 1
      /\ r \in Seq(Kinds) /\ Len(r) = 7
  BY DEF Kinds
<1>2. q = p \o o \o r
  BY DEF InsertStatements, UpdateStatements, OnCreation
<1>3. /\ p[1] = "creation" /\ p[2] = "runtime" /\ o[1] = "onCreation"
      /\ r[1] = "onRuntime" /\ r[2] = "contract" /\ r[3] = "deployment"
      /\ r[4] = "compiled" /\ r[5] = "sources" /\ r[6] = "files"
      /\ r[7] = "verified"
  OBVIOUS
<1> HIDE DEF p, o, r
<1>4. /\ q \in Seq(Kinds) /\ Len(q) = Len(p) + Len(o) + Len(r)
      /\ \A i \in 1..Len(p) : q[i] = p[i]
      /\ \A i \in 1..Len(o) : q[Len(p) + i] = o[i]
      /\ \A i \in 1..Len(r) : q[Len(p) + Len(o) + i] = r[i]
  <2>1. p \in Seq(Kinds) /\ o \in Seq(Kinds) /\ r \in Seq(Kinds)
    BY <1>1
  <2>2. /\ p \o o \o r \in Seq(Kinds) /\ Len(p \o o \o r) = Len(p) + Len(o) + Len(r)
        /\ \A i \in 1..Len(p) : (p \o o \o r)[i] = p[i]
        /\ \A i \in 1..Len(o) : (p \o o \o r)[Len(p) + i] = o[i]
        /\ \A i \in 1..Len(r) : (p \o o \o r)[Len(p) + Len(o) + i] = r[i]
    BY <2>1, Joined, Zenon
  <2> QED BY <1>2, <2>2, Zenon
<1>5. /\ q \in Seq(Kinds) /\ Len(q) = 10
      /\ q[1] = "creation" /\ q[2] = "runtime" /\ q[3] = "onCreation"
      /\ q[4] = "onRuntime" /\ q[5] = "contract" /\ q[6] = "deployment"
      /\ q[7] = "compiled" /\ q[8] = "sources" /\ q[9] = "files"
      /\ q[10] = "verified"
  BY <1>1, <1>3, <1>4
<1>6. InOrder(q)
  BY <1>5, RanksAre DEF InOrder
<1>7. \A s \in Nine : \E i \in 1..Len(q) : q[i] = s
  BY <1>5 DEF Nine
<1>8. \A i \in 1..Len(q) : q[i] \notin {"oldMatch", "match"}
  BY <1>5
<1>9. e.onCreation # None => \E i \in 1..Len(q) : q[i] = "onCreation"
  BY <1>5
<1> QED BY <1>6, <1>7, <1>8, <1>9 DEF Complete

LEMMA UpdateWithout ==
  ASSUME NEW e, e.onCreation = None, NEW q, q = UpdateStatements(e)
  PROVE  Complete(e, q)
<1> DEFINE p == <<>>
           o == <<>>
           r == <<"onRuntime", "contract", "deployment", "creation", "runtime",
                  "compiled", "sources", "files", "verified">>
<1>1. /\ p \in Seq(Kinds) /\ Len(p) = 0
      /\ o \in Seq(Kinds) /\ Len(o) = 0
      /\ r \in Seq(Kinds) /\ Len(r) = 9
  BY DEF Kinds
<1>2. q = p \o o \o r
  BY DEF InsertStatements, UpdateStatements, OnCreation
<1>3. /\ r[1] = "onRuntime" /\ r[2] = "contract" /\ r[3] = "deployment"
      /\ r[4] = "creation" /\ r[5] = "runtime" /\ r[6] = "compiled"
      /\ r[7] = "sources" /\ r[8] = "files" /\ r[9] = "verified"
  OBVIOUS
<1> HIDE DEF p, o, r
<1>4. /\ q \in Seq(Kinds) /\ Len(q) = Len(p) + Len(o) + Len(r)
      /\ \A i \in 1..Len(p) : q[i] = p[i]
      /\ \A i \in 1..Len(o) : q[Len(p) + i] = o[i]
      /\ \A i \in 1..Len(r) : q[Len(p) + Len(o) + i] = r[i]
  <2>1. p \in Seq(Kinds) /\ o \in Seq(Kinds) /\ r \in Seq(Kinds)
    BY <1>1
  <2>2. /\ p \o o \o r \in Seq(Kinds) /\ Len(p \o o \o r) = Len(p) + Len(o) + Len(r)
        /\ \A i \in 1..Len(p) : (p \o o \o r)[i] = p[i]
        /\ \A i \in 1..Len(o) : (p \o o \o r)[Len(p) + i] = o[i]
        /\ \A i \in 1..Len(r) : (p \o o \o r)[Len(p) + Len(o) + i] = r[i]
    BY <2>1, Joined, Zenon
  <2> QED BY <1>2, <2>2, Zenon
<1>5. /\ q \in Seq(Kinds) /\ Len(q) = 9
      /\ q[1] = "onRuntime" /\ q[2] = "contract" /\ q[3] = "deployment"
      /\ q[4] = "creation" /\ q[5] = "runtime" /\ q[6] = "compiled"
      /\ q[7] = "sources" /\ q[8] = "files" /\ q[9] = "verified"
  BY <1>1, <1>3, <1>4
<1>6. InOrder(q)
  BY <1>5, RanksAre DEF InOrder
<1>7. \A s \in Nine : \E i \in 1..Len(q) : q[i] = s
  BY <1>5 DEF Nine
<1>8. \A i \in 1..Len(q) : q[i] \notin {"oldMatch", "match"}
  BY <1>5
<1>9. e.onCreation # None => \E i \in 1..Len(q) : q[i] = "onCreation"
  BY <1>5
<1> QED BY <1>6, <1>7, <1>8, <1>9 DEF Complete

LEMMA UpdateWith ==
  ASSUME NEW e, e.onCreation # None, NEW q, q = UpdateStatements(e)
  PROVE  Complete(e, q)
<1> DEFINE p == <<>>
           o == <<"onCreation">>
           r == <<"onRuntime", "contract", "deployment", "creation", "runtime",
                  "compiled", "sources", "files", "verified">>
<1>1. /\ p \in Seq(Kinds) /\ Len(p) = 0
      /\ o \in Seq(Kinds) /\ Len(o) = 1
      /\ r \in Seq(Kinds) /\ Len(r) = 9
  BY DEF Kinds
<1>2. q = p \o o \o r
  BY DEF InsertStatements, UpdateStatements, OnCreation
<1>3. /\ o[1] = "onCreation" /\ r[1] = "onRuntime" /\ r[2] = "contract"
      /\ r[3] = "deployment" /\ r[4] = "creation" /\ r[5] = "runtime"
      /\ r[6] = "compiled" /\ r[7] = "sources" /\ r[8] = "files"
      /\ r[9] = "verified"
  OBVIOUS
<1> HIDE DEF p, o, r
<1>4. /\ q \in Seq(Kinds) /\ Len(q) = Len(p) + Len(o) + Len(r)
      /\ \A i \in 1..Len(p) : q[i] = p[i]
      /\ \A i \in 1..Len(o) : q[Len(p) + i] = o[i]
      /\ \A i \in 1..Len(r) : q[Len(p) + Len(o) + i] = r[i]
  <2>1. p \in Seq(Kinds) /\ o \in Seq(Kinds) /\ r \in Seq(Kinds)
    BY <1>1
  <2>2. /\ p \o o \o r \in Seq(Kinds) /\ Len(p \o o \o r) = Len(p) + Len(o) + Len(r)
        /\ \A i \in 1..Len(p) : (p \o o \o r)[i] = p[i]
        /\ \A i \in 1..Len(o) : (p \o o \o r)[Len(p) + i] = o[i]
        /\ \A i \in 1..Len(r) : (p \o o \o r)[Len(p) + Len(o) + i] = r[i]
    BY <2>1, Joined, Zenon
  <2> QED BY <1>2, <2>2, Zenon
<1>5. /\ q \in Seq(Kinds) /\ Len(q) = 10
      /\ q[1] = "onCreation" /\ q[2] = "onRuntime" /\ q[3] = "contract"
      /\ q[4] = "deployment" /\ q[5] = "creation" /\ q[6] = "runtime"
      /\ q[7] = "compiled" /\ q[8] = "sources" /\ q[9] = "files"
      /\ q[10] = "verified"
  BY <1>1, <1>3, <1>4
<1>6. InOrder(q)
  BY <1>5, RanksAre DEF InOrder
<1>7. \A s \in Nine : \E i \in 1..Len(q) : q[i] = s
  BY <1>5 DEF Nine
<1>8. \A i \in 1..Len(q) : q[i] \notin {"oldMatch", "match"}
  BY <1>5
<1>9. e.onCreation # None => \E i \in 1..Len(q) : q[i] = "onCreation"
  BY <1>5
<1> QED BY <1>6, <1>7, <1>8, <1>9 DEF Complete

LEMMA StoreStatementsComplete ==
  ASSUME NEW e, NEW q \in {InsertStatements(e), UpdateStatements(e)}
  PROVE  Complete(e, q)
BY InsertWithout, InsertWith, UpdateWithout, UpdateWith

LEMMA BegunInv ==
  ASSUME NEW u, u.pc = "transaction", u.writes = <<>>, u.snapshot = None, InOrder(u.todo),
         Has(u, "deployment"), Has(u, "verified"),
         Has(u, "onCreation") => Has(u, "contract")
  PROVE  Open(u) /\ Active(u) /\ ~AfterCommit(u) /\ u.pc # "updateMatch" /\ OpenInv(u)'
<1>1. Open(u) /\ Active(u) /\ ~AfterCommit(u) /\ u.pc # "updateMatch"
  BY DEF Open, Active, AfterCommit
<1>2. DOMAIN u.writes = {}
  OBVIOUS
<1> QED BY <1>1, <1>2 DEF OpenInv

LEMMA StoreStartsWell ==
  ASSUME NEW j \in Jobs, NEW e \in Exports, StoreStarts(j, e)
  PROVE  JobInv(j, task[j])'
<1>1. PICK u : u = task'[j]
  OBVIOUS
<1>2. /\ u.pc = "transaction" /\ u.writes = <<>> /\ u.snapshot = None
      /\ u.export = e /\ u.similar = FALSE /\ u.contract = Contract(j, e)
      /\ u.verdict = Verdict(e) /\ u.level = Level(e)
      /\ u.todo \in {InsertStatements(e), UpdateStatements(e)}
      /\ u.old = None \/ u.old \in VerifiedRows(e.address)
  BY <1>1 DEF StoreStarts, Starts
<1>3. PICK q : q = u.todo
  OBVIOUS
<1>4. Complete(e, q)
  BY <1>2, <1>3, StoreStatementsComplete
<1>5. \A s : Has(u, s) <=> \E i \in 1..Len(q) : q[i] = s
  BY <1>3 DEF Has
<1>6. /\ InOrder(u.todo)
      /\ \A s \in Nine : Has(u, s)
      /\ ~Has(u, "oldMatch") /\ ~Has(u, "match")
      /\ e.onCreation # None => Has(u, "onCreation")
  BY <1>3, <1>4, <1>5 DEF Complete
<1>7. OpenInv(u)' /\ Open(u) /\ Active(u) /\ ~AfterCommit(u) /\ u.pc # "updateMatch"
  BY <1>2, <1>6, BegunInv DEF Nine
<1>8. RowsInv(u)' /\ CompInv(u)' /\ FilesInv(u)'
  BY <1>2, <1>6 DEF RowsInv, CompInv, FilesInv, Nine
<1>9. StoreInv(j, u)'
  <2>1. u.old = None \/ (IsRow(u.old, "verified") /\ u.old[3] = u.export.address)
    BY <1>2 DEF VerifiedRows
  <2> QED BY <1>2, <1>6, <1>8, <2>1 DEF StoreInv
<1>10. JobInv(j, u)'
  BY <1>2, <1>7, <1>9 DEF JobInv
<1> QED BY <1>1, <1>10

LEMMA FourStatements ==
  LET q == SimilarStatements
  IN  /\ InOrder(q)
      /\ \A s : (\E i \in 1..Len(q) : q[i] = s) <=> s \in {"deployment", "verified", "oldMatch", "match"}
<1> DEFINE q == SimilarStatements
<1>1. /\ q \in Seq(Kinds) /\ Len(q) = 4
      /\ q[1] = "deployment" /\ q[2] = "verified" /\ q[3] = "oldMatch" /\ q[4] = "match"
  BY DEF SimilarStatements, Kinds
<1> HIDE DEF q
<1>2. InOrder(q)
  BY <1>1, RanksAre DEF InOrder
<1>3. \A s : (\E i \in 1..Len(q) : q[i] = s) <=> s \in {"deployment", "verified", "oldMatch", "match"}
  BY <1>1
<1> QED BY <1>2, <1>3 DEF q

LEMMA SimilarStartsWell ==
  ASSUME DbInv, NEW j \in Jobs, NEW a \in Addresses, SimilarStarts(j, a)
  PROVE  JobInv(j, task[j])'
<1>1. PICK u : u = task'[j]
  OBVIOUS
<1>2. /\ u.pc = "transaction" /\ u.writes = <<>> /\ u.snapshot = None
      /\ u.export = [address |-> a, onRuntime |-> Deployed[a]]
      /\ u.similar = TRUE /\ u.todo = SimilarStatements
      /\ db' = db
  BY <1>1 DEF SimilarStarts, Starts
<1>3. PICK d \in DOMAIN db, v \in DOMAIN db :
           /\ v \in VerifiedRows(d[2])
           /\ IsRow(d, "deployment") /\ db[d].contract[3] = Deployed[a]
           /\ Match(v) \in DOMAIN db
           /\ u.contract = db[d].contract
           /\ u.comp = v[2] /\ u.verified = Verified(v[2], a)
           /\ u.verdict = db[v] /\ u.level = db[Match(v)].level
  BY <1>1 DEF SimilarStarts, VerifiedRows
<1>4. \A s : Has(u, s) <=> s \in {"deployment", "verified", "oldMatch", "match"}
  BY <1>2, FourStatements DEF Has
<1>5. InOrder(u.todo)
  BY <1>2, FourStatements
<1>6. OpenInv(u)' /\ Open(u) /\ Active(u) /\ ~AfterCommit(u) /\ u.pc # "updateMatch"
  BY <1>2, <1>4, <1>5, BegunInv
<1>7. u.export.address = a /\ u.export.address \in Addresses
  BY <1>2
<1>8. /\ d = Deployment(d[2])
      /\ IsRow(u.contract, "contract") /\ u.contract \in DOMAIN db'
      /\ u.contract[3] = Deployed[u.export.address]
      /\ db[d].contract[3] = Deployed[d[2]]
  BY <1>2, <1>3, <1>7 DEF DbInv, Present
<1>9. /\ v \in DOMAIN db /\ IsRow(v, "verified") /\ v[3] = d[2]
      /\ v[2] \in DOMAIN db /\ IsRow(v[2], "compiled")
      /\ Earned(db[v], v[2], v[3])
  BY <1>3 DEF VerifiedRows, DbInv, Present
<1>10. /\ IsRow(u.comp, "compiled") /\ u.comp \in DOMAIN db'
       /\ u.verified = Verified(u.comp, u.export.address)
  BY <1>2, <1>3, <1>7, <1>9
<1>11. Earned(u.verdict, u.comp, u.export.address)
  <2>1. Deployed[v[3]] = Deployed[a]
    BY <1>3, <1>8, <1>9
  <2> QED BY <1>3, <1>7, <1>9, <2>1 DEF Earned
<1>12. SimilarInv(u)'
  BY <1>4, <1>7, <1>8, <1>10, <1>11 DEF SimilarInv, Present
<1>13. JobInv(j, u)'
  BY <1>2, <1>6, <1>12 DEF JobInv
<1> QED BY <1>1, <1>13
-----------------------------------------------------------------------------
(* A commit stores what its rows refer to *)

\* With nothing left to do, everything a job's rows refer to is written or there.
LEMMA AllDone ==
  ASSUME NEW j \in Jobs, NEW t, JobInv(j, t), Open(t), t.todo = <<>>
  PROVE  /\ \A k \in DOMAIN t.writes : WriteOK(t, k)
         /\ InLatest(t, Deployment(t.export.address)) /\ Written(t, t.verified)
         /\ t.verified = Verified(t.comp, t.export.address)
         /\ IsRow(t.comp, "compiled") /\ InLatest(t, t.comp)
         /\ IsRow(t.contract, "contract") /\ InLatest(t, t.contract)
         /\ t.contract[3] = Deployed[t.export.address]
         /\ t.export.address \in Addresses
         /\ Earned(t.verdict, t.comp, t.export.address)
         /\ ~t.similar => StoreInv(j, t) /\ RowsInv(t) /\ CompInv(t) /\ FilesInv(t)
<1>1. \A s : ~Has(t, s)
  BY DEF Has
<1>2. Active(t) /\ OpenInv(t)
  BY DEF Active, Open, JobInv
<1>3. /\ \A k \in DOMAIN t.writes : WriteOK(t, k)
      /\ InLatest(t, Deployment(t.export.address)) /\ Written(t, t.verified)
  BY <1>1, <1>2 DEF OpenInv
<1>4. CASE t.similar
  <2>1. SimilarInv(t)
    BY <1>2, <1>4 DEF JobInv
  <2> QED BY <1>3, <1>4, <2>1 DEF SimilarInv, InLatest
<1>5. CASE ~t.similar
  <2>1. StoreInv(j, t) /\ RowsInv(t) /\ CompInv(t) /\ FilesInv(t)
    BY <1>2, <1>5 DEF JobInv, StoreInv
  <2>2. PICK e \in Exports : /\ e = t.export /\ t.contract \in {Contract(j, e), BareContract(j, e)}
                            /\ t.verdict = Verdict(e)
    BY <2>1 DEF StoreInv
  <2>3. /\ IsRow(t.comp, "compiled") /\ t.comp[3] = e.creation /\ t.comp[4] = e.runtime
        /\ InLatest(t, t.comp) /\ t.verified = Verified(t.comp, e.address)
        /\ InLatest(t, t.contract)
    BY <1>1, <2>1, <2>2 DEF CompInv, FilesInv, RowsInv
  <2>4. e.onRuntime = Deployed[e.address] /\ e.address \in Addresses
    BY StoreAssumption DEF ExportType
  <2>5. IsRow(t.contract, "contract") /\ t.contract[3] = Deployed[e.address]
    BY <2>2, <2>4, KeyParts DEF IsRow
  <2>6. Earned(t.verdict, t.comp, e.address)
    BY <2>2, <2>3, <2>4 DEF Earned
  <2> QED BY <1>3, <2>1, <2>2, <2>3, <2>4, <2>5, <2>6
<1> QED BY <1>4, <1>5

LEMMA CommitDb ==
  ASSUME LockInv, DbInv, NEW j \in Jobs, JobInv(j, task[j]), NEW pc, NEW why, Commits(j, pc, why)
  PROVE  DbInv'
<1>1. PICK t : t = task[j]
  OBVIOUS
<1>2. /\ JobInv(j, t) /\ Open(t) /\ t.todo = <<>>
      /\ DOMAIN db' = DOMAIN t.writes \cup DOMAIN db
      /\ \A k \in DOMAIN t.writes : db'[k] = t.writes[k]
      /\ \A k \in DOMAIN db \ DOMAIN t.writes : db'[k] = db[k]
  BY <1>1 DEF Commits
<1>3. \A s : ~Has(t, s)
  BY <1>2 DEF Has
<1>4. \A k : InLatest(t, k) => k \in DOMAIN db'
  BY <1>2 DEF InLatest, Written, Present
<1>5. /\ \A k \in DOMAIN t.writes : WriteOK(t, k)
      /\ Deployment(t.export.address) \in DOMAIN db' /\ t.verified \in DOMAIN db'
      /\ t.verified = Verified(t.comp, t.export.address)
      /\ IsRow(t.comp, "compiled") /\ t.comp \in DOMAIN db'
      /\ IsRow(t.contract, "contract") /\ t.contract \in DOMAIN db'
      /\ t.contract[3] = Deployed[t.export.address]
      /\ t.export.address \in Addresses
      /\ Earned(t.verdict, t.comp, t.export.address)
      /\ ~t.similar => StoreInv(j, t) /\ RowsInv(t) /\ CompInv(t) /\ FilesInv(t)
  BY <1>2, <1>4, AllDone DEF Written
<1>6. ~t.similar =>
        /\ t.export \in Exports /\ t.contract \in {Contract(j, t.export), BareContract(j, t.export)}
        /\ Code(t.export.creation) \in DOMAIN db' /\ Code(t.export.runtime) \in DOMAIN db'
        /\ Code(t.export.onRuntime) \in DOMAIN db'
        /\ t.export.onCreation # None => Code(t.export.onCreation) \in DOMAIN db'
        /\ \A s \in Range(t.export.files) : Source(s) \in DOMAIN db'
  BY <1>3, <1>4, <1>5 DEF StoreInv, RowsInv
<1>7. ASSUME NEW c \in DOMAIN db, IsRow(c, "compiled")
      PROVE  Whole(c)'
  <2>1. PICK e \in Exports :
          /\ Compiled(e) = c
          /\ \A p \in DOMAIN e.files : File(c, p) \in DOMAIN db /\ db[File(c, p)] = e.files[p]
    BY <1>7 DEF DbInv, Whole, Present
  <2>2. ASSUME NEW p \in DOMAIN e.files
        PROVE  File(c, p) \in DOMAIN db' /\ db'[File(c, p)] = e.files[p]
    <3>1. PICK k : k = File(c, p)
      OBVIOUS
    <3>2. k \in DOMAIN db /\ db[k] = e.files[p] /\ IsRow(k, "file")
      BY <2>1, <3>1, KeyParts DEF IsRow
    <3>3. k \notin DOMAIN t.writes
      BY <1>5, <3>2 DEF WriteOK
    <3> QED BY <1>2, <3>1, <3>2, <3>3
  <2> QED BY <2>1, <2>2 DEF Whole, Present
<1>8. ASSUME NEW k \in DOMAIN db'
      PROVE  /\ IsRow(k, "contract") =>
                  /\ Code(k[3]) \in DOMAIN db'
                  /\ k[2] \notin Jobs => Code(k[2]) \in DOMAIN db'
             /\ IsRow(k, "deployment") =>
                  /\ k = Deployment(k[2])
                  /\ IsRow(db'[k].contract, "contract") /\ db'[k].contract \in DOMAIN db'
                  /\ db'[k].contract[3] = Deployed[k[2]]
             /\ IsRow(k, "compiled") =>
                  /\ Code(k[3]) \in DOMAIN db' /\ Code(k[4]) \in DOMAIN db'
                  /\ Whole(k)'
             /\ IsRow(k, "file") =>
                  /\ k = File(k[2], k[3])
                  /\ k[2] \in DOMAIN db' /\ IsRow(k[2], "compiled")
                  /\ Source(db'[k]) \in DOMAIN db'
             /\ IsRow(k, "verified") =>
                  /\ k = Verified(k[2], k[3])
                  /\ k[2] \in DOMAIN db' /\ IsRow(k[2], "compiled")
                  /\ k[3] \in Addresses /\ Deployment(k[3]) \in DOMAIN db'
                  /\ Earned(db'[k], k[2], k[3])
             /\ IsRow(k, "match") =>
                  /\ k = Match(k[2])
                  /\ k[2] \in DOMAIN db' /\ IsRow(k[2], "verified")
  <2>1. CASE k \notin DOMAIN t.writes
    <3>1. k \in DOMAIN db /\ db'[k] = db[k] /\ \A x \in DOMAIN db : x \in DOMAIN db'
      BY <1>2, <2>1
    <3>2. IsRow(k, "compiled") => Whole(k)'
      BY <1>7, <3>1
    <3> QED BY <3>1, <3>2 DEF DbInv, Present
  <2>2. CASE k \in DOMAIN t.writes
    <3>1. WriteOK(t, k) /\ db'[k] = t.writes[k]
      BY <1>2, <1>5, <2>2
    <3>2. CASE IsRow(k, "contract")
      <4>1. ~t.similar /\ k \in {Contract(j, t.export), BareContract(j, t.export)}
        BY <1>6, <3>1, <3>2 DEF WriteOK
      <4>2. /\ k[3] = t.export.onRuntime
            /\ k[2] = j \/ (t.export.onCreation # None /\ k[2] = t.export.onCreation)
        BY <4>1, KeyParts
      <4> QED BY <1>6, <3>2, <4>1, <4>2 DEF IsRow
    <3>3. CASE IsRow(k, "deployment")
      <4>1. k = Deployment(t.export.address) /\ db'[k].contract = t.contract
        BY <3>1, <3>3 DEF WriteOK
      <4>2. k[2] = t.export.address
        BY <4>1, KeyParts
      <4> QED BY <1>5, <3>3, <4>1, <4>2 DEF IsRow
    <3>4. CASE IsRow(k, "compiled")
      <4>1. ~t.similar /\ k = Compiled(t.export) /\ (k \notin DOMAIN db => t.comp = k)
        BY <3>1, <3>4 DEF WriteOK
      <4>2. k[3] = t.export.creation /\ k[4] = t.export.runtime
        BY <4>1, KeyParts
      <4>3. Whole(k)'
        <5>1. CASE k \in DOMAIN db
          BY <1>7, <3>4, <5>1
        <5>2. CASE k \notin DOMAIN db
          <6>1. \A p \in DOMAIN t.export.files :
                  /\ Written(t, File(k, p)) /\ t.writes[File(k, p)] = t.export.files[p]
            BY <1>3, <1>5, <4>1, <5>2 DEF FilesInv
          <6>2. \A p \in DOMAIN t.export.files :
                  /\ File(k, p) \in DOMAIN db' /\ db'[File(k, p)] = t.export.files[p]
            BY <1>2, <6>1 DEF Written
          <6> QED BY <1>6, <4>1, <6>2 DEF Whole, Present
        <5> QED BY <5>1, <5>2
      <4> QED BY <1>6, <3>4, <4>1, <4>2, <4>3 DEF IsRow
    <3>5. CASE IsRow(k, "file")
      <4>1. /\ ~t.similar /\ k = File(t.comp, k[3]) /\ k[3] \in DOMAIN t.export.files
            /\ db'[k] = t.export.files[k[3]]
        BY <3>1, <3>5 DEF WriteOK
      <4>2. k[2] = t.comp
        BY <4>1, KeyParts
      <4>3. db'[k] \in Range(t.export.files)
        BY <4>1 DEF Range
      <4> QED BY <1>5, <1>6, <3>5, <4>1, <4>2, <4>3 DEF IsRow
    <3>6. CASE IsRow(k, "verified")
      <4>1. k = Verified(t.comp, t.export.address) /\ db'[k] = t.verdict
        BY <1>5, <3>1, <3>6 DEF WriteOK
      <4>2. k[2] = t.comp /\ k[3] = t.export.address
        BY <4>1, KeyParts
      <4> QED BY <1>5, <3>6, <4>1, <4>2 DEF IsRow
    <3>7. CASE IsRow(k, "match")
      <4>1. k = Match(t.verified) /\ IsRow(t.verified, "verified")
        BY <1>5, <3>1, <3>7, KeyParts DEF WriteOK, IsRow
      <4>2. k[2] = t.verified
        BY <4>1, KeyParts
      <4> QED BY <1>5, <3>7, <4>1, <4>2 DEF IsRow
    <3>8. CASE IsRow(k, "code") \/ IsRow(k, "source")
      BY <3>8 DEF IsRow
    <3> QED BY <3>1, <3>2, <3>3, <3>4, <3>5, <3>6, <3>7, <3>8 DEF WriteOK
  <2> QED BY <2>1, <2>2
<1> QED BY <1>8 DEF DbInv, Present

LEMMA CommitOwn ==
  ASSUME NEW j \in Jobs, JobInv(j, task[j]), NEW why,
         Commits(j, NextStep(j), why) \/ Commits(j, "failed", why)
  PROVE  JobInv(j, task[j])'
<1>1. PICK t, u : t = task[j] /\ u = task'[j]
  OBVIOUS
<1>2. /\ JobInv(j, t) /\ Open(t) /\ t.todo = <<>>
      /\ DOMAIN db' = DOMAIN t.writes \cup DOMAIN db
      /\ Keeps(t, u) /\ KeepsPlace(t, u)
      /\ u.pc = "failed" \/ u.pc = NextStep(j)
  BY <1>1 DEF Commits
<1>3. CASE u.pc \in {"failed", "stored"}
  <2>1. ~Active(u) /\ ~Open(u) /\ ~AfterCommit(u) /\ u.pc # "updateMatch"
    BY <1>3 DEF Active, Open, AfterCommit
  <2>2. JobInv(j, u)'
    BY <2>1 DEF JobInv
  <2> QED BY <1>1, <2>2
<1>4. CASE u.pc \in {"updateMatch", "insertMatch"}
  <2>1. /\ ~t.similar /\ u.pc = (IF t.old = None THEN "insertMatch" ELSE "updateMatch")
    BY <1>1, <1>2, <1>4 DEF NextStep
  <2>2. StoreInv(j, t) /\ Written(t, t.verified) /\ t.verified = Verified(t.comp, t.export.address)
    BY <1>2, <2>1, AllDone
  <2>3. /\ u.verified \in DOMAIN db' /\ IsRow(u.verified, "verified")
        /\ u.verified[3] = u.export.address
    BY <1>2, <2>2, KeyParts DEF Written, Keeps, KeepsPlace, IsRow
  <2>4. StoreInv(j, u)'
    BY <1>2, <1>4, <2>2 DEF StoreInv, Keeps, Open
  <2>5. Active(u) /\ ~Open(u) /\ AfterCommit(u) /\ ~u.similar /\ (u.pc = "updateMatch" => u.old # None)
    BY <1>2, <1>4, <2>1 DEF Active, Open, AfterCommit, Keeps
  <2>6. JobInv(j, u)'
    BY <2>3, <2>4, <2>5 DEF JobInv, Present
  <2> QED BY <1>1, <2>6
<1>5. u.pc \in {"failed", "stored", "updateMatch", "insertMatch"}
  BY <1>2 DEF NextStep
<1> QED BY <1>3, <1>4, <1>5

\* A change of matches for verified contracts that are there.
LEMMA MatchesOnly ==
  ASSUME DbInv,
         \A k : ~IsRow(k, "match") => (k \in DOMAIN db' <=> k \in DOMAIN db),
         \A k \in DOMAIN db : ~IsRow(k, "match") => db'[k] = db[k],
         \A k \in DOMAIN db' \ DOMAIN db :
           \E v \in DOMAIN db : k = Match(v) /\ IsRow(v, "verified")
  PROVE  DbInv'
<1>1. ASSUME NEW c \in DOMAIN db, IsRow(c, "compiled")
      PROVE  Whole(c)'
  <2>1. PICK e \in Exports :
          /\ Compiled(e) = c
          /\ \A p \in DOMAIN e.files : File(c, p) \in DOMAIN db /\ db[File(c, p)] = e.files[p]
    BY <1>1 DEF DbInv, Whole, Present
  <2>2. \A p : ~IsRow(File(c, p), "match")
    BY KeyParts DEF IsRow
  <2> QED BY <2>1, <2>2 DEF Whole, Present
<1>2. ASSUME NEW k \in DOMAIN db'
      PROVE  /\ IsRow(k, "contract") =>
                  /\ Code(k[3]) \in DOMAIN db'
                  /\ k[2] \notin Jobs => Code(k[2]) \in DOMAIN db'
             /\ IsRow(k, "deployment") =>
                  /\ k = Deployment(k[2])
                  /\ IsRow(db'[k].contract, "contract") /\ db'[k].contract \in DOMAIN db'
                  /\ db'[k].contract[3] = Deployed[k[2]]
             /\ IsRow(k, "compiled") =>
                  /\ Code(k[3]) \in DOMAIN db' /\ Code(k[4]) \in DOMAIN db'
                  /\ Whole(k)'
             /\ IsRow(k, "file") =>
                  /\ k = File(k[2], k[3])
                  /\ k[2] \in DOMAIN db' /\ IsRow(k[2], "compiled")
                  /\ Source(db'[k]) \in DOMAIN db'
             /\ IsRow(k, "verified") =>
                  /\ k = Verified(k[2], k[3])
                  /\ k[2] \in DOMAIN db' /\ IsRow(k[2], "compiled")
                  /\ k[3] \in Addresses /\ Deployment(k[3]) \in DOMAIN db'
                  /\ Earned(db'[k], k[2], k[3])
             /\ IsRow(k, "match") =>
                  /\ k = Match(k[2])
                  /\ k[2] \in DOMAIN db' /\ IsRow(k[2], "verified")
  <2>1. CASE IsRow(k, "match")
    <3>1. CASE k \in DOMAIN db
      <4>1. k = Match(k[2]) /\ k[2] \in DOMAIN db /\ IsRow(k[2], "verified")
        BY <2>1, <3>1 DEF DbInv, Present
      <4>2. ~IsRow(k[2], "match")
        BY <4>1, NoMatchKeys
      <4> QED BY <2>1, <4>1, <4>2 DEF IsRow
    <3>2. CASE k \notin DOMAIN db
      <4>1. PICK v \in DOMAIN db : k = Match(v) /\ IsRow(v, "verified")
        BY <3>2
      <4>2. k[2] = v /\ ~IsRow(v, "match")
        BY <4>1, KeyParts, NoMatchKeys
      <4> QED BY <2>1, <4>1, <4>2 DEF IsRow
    <3> QED BY <3>1, <3>2
  <2>2. CASE ~IsRow(k, "match")
    <3>1. k \in DOMAIN db /\ db'[k] = db[k]
      BY <2>2
    <3>2. IsRow(k, "compiled") => Whole(k)'
      BY <1>1, <3>1
    <3>3. \A x : x \in DOMAIN db /\ ~IsRow(x, "match") => x \in DOMAIN db'
      OBVIOUS
    <3>4. /\ \A c : ~IsRow(Code(c), "match")
          /\ \A s : ~IsRow(Source(s), "match")
          /\ \A a : ~IsRow(Deployment(a), "match")
          /\ \A x : IsRow(x, "compiled") \/ IsRow(x, "contract") => ~IsRow(x, "match")
      BY NoMatchKeys
    <3>5. IsRow(k, "contract") => /\ Code(k[3]) \in DOMAIN db'
                                  /\ k[2] \notin Jobs => Code(k[2]) \in DOMAIN db'
      BY <3>1, <3>3, <3>4 DEF DbInv, Present
    <3>6. IsRow(k, "deployment") =>
                  /\ k = Deployment(k[2])
                  /\ IsRow(db'[k].contract, "contract") /\ db'[k].contract \in DOMAIN db'
                  /\ db'[k].contract[3] = Deployed[k[2]]
      BY <3>1, <3>3, <3>4 DEF DbInv, Present
    <3>7. IsRow(k, "compiled") => Code(k[3]) \in DOMAIN db' /\ Code(k[4]) \in DOMAIN db'
      BY <3>1, <3>3, <3>4 DEF DbInv, Present
    <3>8. IsRow(k, "file") => /\ k = File(k[2], k[3])
                              /\ k[2] \in DOMAIN db' /\ IsRow(k[2], "compiled")
                              /\ Source(db'[k]) \in DOMAIN db'
      BY <3>1, <3>3, <3>4 DEF DbInv, Present
    <3>9. IsRow(k, "verified") =>
                  /\ k = Verified(k[2], k[3])
                  /\ k[2] \in DOMAIN db' /\ IsRow(k[2], "compiled")
                  /\ k[3] \in Addresses /\ Deployment(k[3]) \in DOMAIN db'
                  /\ Earned(db'[k], k[2], k[3])
      BY <3>1, <3>3, <3>4 DEF DbInv, Present
    <3> QED BY <2>2, <3>2, <3>5, <3>6, <3>7, <3>8, <3>9
  <2> QED BY <2>1, <2>2
<1> QED BY <1>2 DEF DbInv, Present
-----------------------------------------------------------------------------
(* What the committed rows refer to is there *)

\* After the step the job's own account holds, the other jobs are as they were,
\* and so is the database but for what the job wrote.
Settled(j) ==
  /\ JobInv(j, task[j])'
  /\ \A i \in Jobs \ {j} : Like(task[i], task'[i]) /\ GrowsBeside(i)
  /\ DbInv'

LEMMA SameDb ==
  ASSUME DbInv, db' = db
  PROVE  DbInv' /\ \A i \in Jobs : GrowsBeside(i)
<1>1. \A i \in Jobs : GrowsBeside(i)
  BY DEF GrowsBeside
<1>2. \A k \in DOMAIN db' \ DOMAIN db : \E v \in DOMAIN db : k = Match(v) /\ IsRow(v, "verified")
  OBVIOUS
<1> QED BY <1>1, <1>2, MatchesOnly

LEMMA AbortsSettles ==
  ASSUME DbInv, NEW j \in Jobs, NEW why, Aborts(j, why)
  PROVE  Settled(j)
<1>1. PICK u : u = task'[j]
  OBVIOUS
<1>2. u.pc = "failed" /\ db' = db /\ \A i \in Jobs \ {j} : task'[i] = task[i]
  BY <1>1 DEF Aborts
<1>3. JobInv(j, u)'
  BY <1>2 DEF JobInv, Active, Open, AfterCommit
<1> QED BY <1>1, <1>2, <1>3, SameDb DEF Settled, Like

LEMMA ExecutesSettles ==
  ASSUME DbInv, NEW j \in Jobs, NEW rows, NEW written, Executes(j, rows, written),
         JobInv(j, task[j])'
  PROVE  Settled(j)
<1>1. db' = db /\ \A i \in Jobs \ {j} : task'[i] = task[i]
  BY DEF Executes
<1> QED BY <1>1, SameDb DEF Settled, Like

LEMMA StatementSettles ==
  ASSUME LockInv, DbInv, NEW j \in Jobs, JobInv(j, task[j]),
         \/ Touch(j) \/ AddFiles(j) \/ InsertDeployment(j) \/ InsertCompiled(j)
         \/ InsertVerified(j) \/ LacksRow(j) \/ ReadOldMatch(j) \/ WriteMatch(j)
  PROVE  Settled(j)
<1>1. CASE Touch(j)
  BY <1>1, TouchEffect, TouchKeeps, AbortsSettles, ExecutesSettles
<1>2. CASE AddFiles(j)
  BY <1>2, AddFilesEffect, FilesAreAdded, ExecutesSettles
<1>3. CASE InsertDeployment(j)
  BY <1>3, InsertDeploymentEffect, DeploymentKeeps, AbortsSettles, ExecutesSettles
<1>4. CASE InsertCompiled(j)
  <2>1. /\ Open(task[j]) /\ task[j].todo # <<>> /\ Head(task[j].todo) = "compiled"
        /\ \/ /\ Executes(j, NextRows(j), DOMAIN NextRows(j))
              /\ task'[j].verified = task[j].verified
              /\ \/ task'[j].comp = Compiled(task[j].export)
                 \/ /\ task'[j].comp \in DOMAIN Visible(task[j])
                    /\ IsRow(task'[j].comp, "compiled")
                    /\ task'[j].comp[3] = task[j].export.creation
                    /\ task'[j].comp[4] = task[j].export.runtime
                    /\ Unchanged(task[j], NextRows(j))
           \/ Aborts(j, "missing")
    BY <1>4, InsertCompiledEffect
  <2>2. CASE Aborts(j, "missing")
    BY <2>2, AbortsSettles
  <2>3. CASE Executes(j, NextRows(j), DOMAIN NextRows(j)) /\ ~Aborts(j, "missing")
    BY <2>1, <2>3, CompiledIsFound, ExecutesSettles
  <2> QED BY <2>1, <2>2, <2>3
<1>5. CASE InsertVerified(j)
  BY <1>5, InsertVerifiedEffect, VerifiedKeeps, AbortsSettles, ExecutesSettles
<1>6. CASE ReadOldMatch(j)
  <2>1. /\ Open(task[j]) /\ task[j].todo # <<>> /\ Head(task[j].todo) = "oldMatch"
        /\ Executes(j, <<>>, {})
        /\ task'[j].comp = task[j].comp /\ task'[j].verified = task[j].verified
    BY <1>6, ReadOldMatchEffect
  <2>2. JobInv(j, task[j])'
    BY <2>1, MatchKeeps
  <2> QED BY <2>1, <2>2, ExecutesSettles
<1>7. CASE WriteMatch(j)
  <2>1. PICK k : k = Match(task[j].verified)
    OBVIOUS
  <2>2. /\ Open(task[j]) /\ task[j].todo # <<>> /\ Head(task[j].todo) = "match"
        /\ \/ Aborts(j, "taken")
           \/ /\ \E rows : Executes(j, rows, {k}) \/ Executes(j, rows, {})
              /\ task'[j].comp = task[j].comp /\ task'[j].verified = task[j].verified
    BY <1>7, <2>1, WriteMatchEffect DEF KeepsPlace, MatchOf
  <2>3. CASE Aborts(j, "taken")
    BY <2>3, AbortsSettles
  <2>4. CASE ~Aborts(j, "taken")
    <3>1. PICK rows, written : Executes(j, rows, written) /\ written \subseteq {Match(task[j].verified)}
      BY <2>1, <2>2, <2>4
    <3>2. JobInv(j, task[j])'
      BY <2>2, <2>4, <3>1, MatchKeeps
    <3> QED BY <3>1, <3>2, ExecutesSettles
  <2> QED BY <2>3, <2>4
<1>8. CASE LacksRow(j)
  BY <1>8, LacksRowEffect, AbortsSettles
<1> QED BY <1>1, <1>2, <1>3, <1>4, <1>5, <1>6, <1>7, <1>8

LEMMA CommitsSettles ==
  ASSUME LockInv, DbInv, NEW j \in Jobs, JobInv(j, task[j]), NEW why,
         Commits(j, NextStep(j), why) \/ Commits(j, "failed", why)
  PROVE  Settled(j)
<1>1. DbInv'
  BY CommitDb
<1>2. JobInv(j, task[j])'
  BY CommitOwn
<1>3. /\ DOMAIN db' = DOMAIN task[j].writes \cup DOMAIN db
      /\ \A i \in Jobs \ {j} : task'[i] = task[i]
  BY DEF Commits
<1>4. ASSUME NEW i \in Jobs \ {j} PROVE GrowsBeside(i)
  <2>1. DOMAIN task[j].writes \subseteq task[j].locks /\ task[i].locks \cap task[j].locks = {}
    BY <1>4 DEF LockInv, TypeOK, Locked
  <2> QED BY <1>3, <2>1 DEF GrowsBeside
<1> QED BY <1>1, <1>2, <1>3, <1>4 DEF Settled, Like

LEMMA TurnsKeeps ==
  ASSUME NEW j \in Jobs, JobInv(j, task[j]), AfterCommit(task[j]), NEW pc \in {"insertMatch", "stored"},
         Turns(j, pc), \A k \in DOMAIN db : ~IsRow(k, "match") => k \in DOMAIN db'
  PROVE  JobInv(j, task[j])'
<1>1. PICK t, u : t = task[j] /\ u = task'[j]
  OBVIOUS
<1>2. JobInv(j, t) /\ AfterCommit(t) /\ u.pc = pc /\ Keeps(t, u) /\ KeepsPlace(t, u)
  BY <1>1 DEF Turns
<1>3. CASE pc = "stored"
  <2>1. JobInv(j, u)'
    BY <1>2, <1>3 DEF JobInv, Active, Open, AfterCommit
  <2> QED BY <1>1, <2>1
<1>4. CASE pc = "insertMatch"
  <2>1. /\ ~t.similar /\ t.verified \in DOMAIN db /\ IsRow(t.verified, "verified")
        /\ t.verified[3] = t.export.address
    BY <1>2 DEF JobInv, Present
  <2>2. StoreInv(j, t)
    BY <1>2, <2>1 DEF JobInv, AfterCommit, Active
  <2>3. /\ u.verified \in DOMAIN db' /\ IsRow(u.verified, "verified")
        /\ u.verified[3] = u.export.address
    BY <1>2, <2>1, NoMatchKeys DEF Keeps, KeepsPlace
  <2>4. StoreInv(j, u)'
    BY <1>2, <1>4, <2>2 DEF StoreInv, Keeps, Open
  <2>5. ~Open(u) /\ ~u.similar /\ u.pc # "updateMatch"
    BY <1>2, <1>4, <2>1 DEF Open, Keeps
  <2>6. JobInv(j, u)'
    BY <2>3, <2>4, <2>5 DEF JobInv, Present
  <2> QED BY <1>1, <2>6
<1> QED BY <1>3, <1>4

LEMMA UpdateSettles ==
  ASSUME LockInv, DbInv, NEW j \in Jobs, JobInv(j, task[j]), UpdateMatch(j) \/ InsertMatch(j)
  PROVE  Settled(j)
<1>1. AfterCommit(task[j])
  BY UpdateMatchEffect, InsertMatchEffect DEF AfterCommit
<1>2. PICK v : v = task[j].verified
  OBVIOUS
<1>3. v \in DOMAIN db /\ IsRow(v, "verified") /\ MatchOf(j) = Match(v)
  BY <1>1, <1>2 DEF JobInv, Present, MatchOf
<1>4. CASE \E why : Aborts(j, why)
  BY <1>4, AbortsSettles
<1>5. CASE Turns(j, "insertMatch") /\ UNCHANGED <<db, lastId, failures>>
  <2>1. db' = db /\ \A i \in Jobs \ {j} : task'[i] = task[i]
    BY <1>5 DEF Turns
  <2>2. JobInv(j, task[j])'
    BY <1>1, <1>5, <2>1, TurnsKeeps
  <2> QED BY <2>1, <2>2, SameDb DEF Settled, Like
<1>6. ASSUME NEW from, IsRow(from, "match"), ~Locked(j, {from, Match(v)}),
             DOMAIN db' = (DOMAIN db \ {from}) \cup {Match(v)},
             \A k \in DOMAIN db \ {from, Match(v)} : db'[k] = db[k],
             Turns(j, "stored")
      PROVE  Settled(j)
  <2>1. PICK to : to = Match(v) /\ IsRow(to, "match")
    BY KeyParts DEF IsRow
  <2>2. \A k : ~IsRow(k, "match") /\ k \in DOMAIN db' => k \in DOMAIN db
    BY <1>6, <2>1
  <2>3. \A k : ~IsRow(k, "match") /\ k \in DOMAIN db => k \in DOMAIN db' /\ db'[k] = db[k]
    BY <1>6, <2>1
  <2>4. \A k \in DOMAIN db' \ DOMAIN db : k = to
    BY <1>6, <2>1
  <2>5. DbInv'
    <3>1. \A k \in DOMAIN db' \ DOMAIN db : \E w \in DOMAIN db : k = Match(w) /\ IsRow(w, "verified")
      BY <1>3, <2>1, <2>4
    <3> QED BY <2>2, <2>3, <3>1, MatchesOnly
  <2>6. JobInv(j, task[j])'
    BY <1>1, <1>6, <2>3, TurnsKeeps
  <2>7. ASSUME NEW i \in Jobs \ {j} PROVE Like(task[i], task'[i]) /\ GrowsBeside(i)
    <3>1. task'[i] = task[i]
      BY <1>6 DEF Turns
    <3>2. to \notin task[i].locks
      BY <1>6, <2>1 DEF Locked
    <3> QED BY <2>3, <2>4, <3>1, <3>2 DEF Like, GrowsBeside
  <2> QED BY <2>5, <2>6, <2>7 DEF Settled
<1>7. CASE Moves(j)
  <2>1. IsRow(Match(task[j].old), "match")
    BY KeyParts DEF IsRow
  <2>2. /\ ~Locked(j, {Match(task[j].old), Match(v)})
        /\ DOMAIN db' = (DOMAIN db \ {Match(task[j].old)}) \cup {Match(v)}
        /\ \A k \in DOMAIN db \ {Match(task[j].old), Match(v)} : db'[k] = db[k]
        /\ Turns(j, "stored")
    BY <1>3, <1>7 DEF Moves
  <2> QED BY <1>6, <2>1, <2>2
<1>8. CASE Inserts(j)
  <2>1. IsRow(Match(v), "match")
    BY KeyParts DEF IsRow
  <2>2. /\ ~Locked(j, {Match(v), Match(v)})
        /\ DOMAIN db' = (DOMAIN db \ {Match(v)}) \cup {Match(v)}
        /\ \A k \in DOMAIN db \ {Match(v), Match(v)} : db'[k] = db[k]
        /\ Turns(j, "stored")
    BY <1>3, <1>8 DEF Inserts, Locked
  <2> QED BY <1>6, <2>1, <2>2
<1> QED BY <1>4, <1>5, <1>7, <1>8, UpdateMatchEffect, InsertMatchEffect

LEMMA StartsSettles ==
  ASSUME DbInv, NEW j \in Jobs, JobInv(j, task[j])', NEW t, Starts(j, t)
  PROVE  Settled(j)
<1>1. db' = db
  BY DEF Starts
<1>2. \A i \in Jobs \ {j} : Like(task[i], task'[i])
  BY DEF Starts, Like, KeepsPlace
<1> QED BY <1>1, <1>2, SameDb DEF Settled

LEMMA TaskInit == Init => DbInv /\ TaskInv
<1> SUFFICES ASSUME Init PROVE DbInv /\ TaskInv
  OBVIOUS
<1>1. DOMAIN db = {}
  BY DEF Init
<1>2. \A j \in Jobs : task[j] = NewTask
  BY DEF Init
<1>3. ASSUME NEW j \in Jobs PROVE JobInv(j, task[j])
  <2>1. task[j].pc = "new"
    BY <1>2, NewTaskFields
  <2> QED BY <2>1 DEF JobInv, Active, Open, AfterCommit
<1> QED BY <1>1, <1>3 DEF DbInv, TaskInv

LEMMA TaskNext == LockInv /\ DbInv /\ TaskInv /\ [Next]_vars => DbInv' /\ TaskInv'
<1> SUFFICES ASSUME LockInv, DbInv, TaskInv, [Next]_vars PROVE DbInv' /\ TaskInv'
  OBVIOUS
<1>1. CASE UNCHANGED vars
  <2>1. db' = db /\ task' = task
    BY <1>1 DEF vars
  <2>2. ASSUME NEW i \in Jobs PROVE JobInv(i, task[i])'
    <3>1. JobInv(i, task[i]) /\ Like(task[i], task'[i]) /\ GrowsBeside(i)
      BY <2>1, SameDb DEF TaskInv, Like
    <3> QED BY <3>1, OthersKeep
  <2> QED BY <2>1, <2>2, SameDb DEF TaskInv
<1>2. ASSUME NEW j \in Jobs, Settled(j) PROVE DbInv' /\ TaskInv'
  <2>1. ASSUME NEW i \in Jobs PROVE JobInv(i, task[i])'
    <3>1. CASE i = j
      BY <1>2, <3>1 DEF Settled
    <3>2. CASE i # j
      <4>1. JobInv(i, task[i]) /\ Like(task[i], task'[i]) /\ GrowsBeside(i)
        BY <1>2, <3>2 DEF TaskInv, Settled
      <4> QED BY <4>1, OthersKeep
    <3> QED BY <3>1, <3>2
  <2> QED BY <1>2, <2>1 DEF TaskInv, Settled
<1>3. ASSUME NEW j \in Jobs,
             \/ \E e \in Exports : BeginStore(j, e)
             \/ \E a \in Addresses : BeginSimilar(j, a)
             \/ Step(j) \/ LoseConnection(j) \/ Deadlock(j)
      PROVE  Settled(j)
  <2>1. JobInv(j, task[j])
    BY DEF TaskInv
  <2>2. ASSUME NEW e \in Exports, BeginStore(j, e) PROVE Settled(j)
    <3>1. CASE Aborts(j, "unhashable")
      BY <3>1, AbortsSettles
    <3>2. CASE StoreStarts(j, e)
      <4>1. JobInv(j, task[j])'
        BY <3>2, StoreStartsWell
      <4>2. Starts(j, task'[j])
        BY <3>2 DEF StoreStarts
      <4> QED BY <4>1, <4>2, StartsSettles
    <3> QED BY <2>2, <3>1, <3>2, BeginStoreEffect
  <2>3. ASSUME NEW a \in Addresses, BeginSimilar(j, a) PROVE Settled(j)
    <3>1. CASE Aborts(j, "notFound")
      BY <3>1, AbortsSettles
    <3>2. CASE SimilarStarts(j, a)
      <4>1. JobInv(j, task[j])'
        BY <3>2, SimilarStartsWell
      <4>2. Starts(j, task'[j])
        BY <3>2 DEF SimilarStarts
      <4> QED BY <4>1, <4>2, StartsSettles
    <3> QED BY <2>3, <3>1, <3>2, BeginSimilarEffect
  <2>4. CASE Commit(j)
    <3>1. Commits(j, NextStep(j), "none")
      BY <2>4, CommittedEffect DEF Commit
    <3> QED BY <2>1, <3>1, CommitsSettles
  <2>5. CASE LoseConnection(j)
    <3>1. Aborts(j, "fault") \/ Commits(j, "failed", "fault")
      BY <2>5, LoseConnectionEffect
    <3> QED BY <2>1, <3>1, AbortsSettles, CommitsSettles
  <2>6. CASE Deadlock(j)
    BY <2>6, DeadlockEffect, AbortsSettles
  <2>7. CASE Step(j) /\ ~Commit(j)
    BY <2>1, <2>7, StatementSettles, UpdateSettles DEF Step
  <2> QED BY <1>3, <2>2, <2>3, <2>4, <2>5, <2>6, <2>7
<1>4. CASE Next
  <2>1. CASE Finished
    BY <1>1, <2>1 DEF Finished
  <2>2. CASE ~Finished
    BY <1>2, <1>3, <1>4, <2>2 DEF Next
  <2> QED BY <2>1, <2>2
<1> QED BY <1>1, <1>4

DataInv == LockInv /\ DbInv /\ TaskInv

LEMMA DataHolds == Spec => []DataInv
<1>1. Init => DataInv
  BY LockInit, TaskInit DEF DataInv
<1>2. DataInv /\ [Next]_vars => DataInv'
  BY LockNext, TaskNext DEF DataInv
<1> QED BY <1>1, <1>2, PTL DEF Spec

\* Whatever transaction is rolled back, interrupted or finds its rows written by
\* another, what the readers of sourcify_matches join with a match is there: no row is
\* committed before the rows it refers to.  A transaction that does not see the row
\* of the creation code stores its contract without one, and still refers to nothing
\* that is not there.
THEOREM MatchesAreReadable == Spec => []MatchIsReadable
<1>1. DataInv => MatchIsReadable
  <2> SUFFICES ASSUME DataInv, NEW m \in MatchKeys
               PROVE LET v == m[2]
                         comp == v[2]
                         contract == db[Deployment(v[3])].contract
                     IN  /\ Present(v) /\ Present(comp) /\ Present(Deployment(v[3]))
                         /\ Present(contract) /\ Present(Code(contract[3]))
                         /\ contract[2] \notin Jobs => Present(Code(contract[2]))
                         /\ Present(Code(comp[3])) /\ Present(Code(comp[4]))
                         /\ FilesOf(comp) # {}
                         /\ \A f \in FilesOf(comp) : Present(Source(db[f]))
    BY DEF MatchIsReadable
  <2>1. PICK v, comp, contract :
          v = m[2] /\ comp = v[2] /\ contract = db[Deployment(v[3])].contract
    OBVIOUS
  <2>2. DbInv /\ m \in DOMAIN db /\ IsRow(m, "match")
    BY DEF DataInv, MatchKeys
  <2>3. v \in DOMAIN db /\ IsRow(v, "verified")
    BY <2>1, <2>2 DEF DbInv, Present
  <2>4. /\ comp \in DOMAIN db /\ IsRow(comp, "compiled")
        /\ Deployment(v[3]) \in DOMAIN db
    BY <2>1, <2>2, <2>3 DEF DbInv, Present
  <2>5. IsRow(Deployment(v[3]), "deployment")
    BY KeyParts DEF IsRow
  <2>6. contract \in DOMAIN db /\ IsRow(contract, "contract")
    BY <2>1, <2>2, <2>4, <2>5 DEF DbInv, Present
  <2>7. /\ Code(contract[3]) \in DOMAIN db
        /\ contract[2] \notin Jobs => Code(contract[2]) \in DOMAIN db
    BY <2>2, <2>6 DEF DbInv, Present
  <2>8. Code(comp[3]) \in DOMAIN db /\ Code(comp[4]) \in DOMAIN db /\ Whole(comp)
    BY <2>2, <2>4 DEF DbInv, Present
  <2>9. FilesOf(comp) # {}
    <3>1. PICK e \in Exports : \A p \in DOMAIN e.files : File(comp, p) \in DOMAIN db
      BY <2>8 DEF Whole, Present
    <3>2. DOMAIN e.files # {}
      <4>1. e \in ExportType
        BY StoreAssumption
      <4>2. e.files \in UNION {[P -> Sources] : P \in (SUBSET Paths) \ {{}}}
        BY <4>1 DEF ExportType
      <4>3. PICK P \in (SUBSET Paths) \ {{}} : e.files \in [P -> Sources]
        BY <4>2
      <4> QED BY <4>3
    <3>3. PICK p : p \in DOMAIN e.files
      BY <3>2
    <3> QED BY <3>1, <3>3, KeyParts DEF FilesOf, IsRow
  <2>10. \A f \in FilesOf(comp) : Source(db[f]) \in DOMAIN db
    BY <2>2 DEF FilesOf, DbInv, Present
  <2> QED BY <2>1, <2>3, <2>4, <2>6, <2>7, <2>8, <2>9, <2>10 DEF Present
<1> QED BY <1>1, DataHolds, PTL

\* A compilation that many verifications share never loses the whole of an input:
\* the files of one of them are all there, as they were, however their
\* transactions interleave.
THEOREM InputsAreWhole == Spec => []OneInputIsWhole
<1>1. DataInv => OneInputIsWhole
  BY DEF DataInv, DbInv, OneInputIsWhole, Whole, Present
<1> QED BY <1>1, DataHolds, PTL

\* What verified_contracts says of a compilation at an address was found by a
\* comparison of its codes with the code there; a copy from another chain says
\* it of the same codes.
THEOREM VerdictsAreEarned == Spec => []VerdictIsEarned
<1>1. DataInv => VerdictIsEarned
  <2> SUFFICES ASSUME DataInv, NEW v \in DOMAIN db, IsRow(v, "verified")
               PROVE /\ db[Deployment(v[3])].contract[3] = Deployed[v[3]]
                     /\ Earned(db[v], v[2], v[3])
    BY DEF VerdictIsEarned, Earned
  <2>1. DbInv /\ Deployment(v[3]) \in DOMAIN db /\ Earned(db[v], v[2], v[3])
    BY DEF DataInv, DbInv, Present
  <2>2. IsRow(Deployment(v[3]), "deployment") /\ Deployment(v[3])[2] = v[3]
    BY KeyParts DEF IsRow
  <2> QED BY <2>1, <2>2 DEF DbInv
<1> QED BY <1>1, DataHolds, PTL
-----------------------------------------------------------------------------
(* The ids of the matches *)

\* A statement on another table writes no match.
LEMMA NoMatchRows ==
  ASSUME NEW j \in Jobs, JobInv(j, task[j]), Open(task[j]), task[j].todo # <<>>,
         Head(task[j].todo) \in Touched \cup {"deployment", "compiled", "files", "verified"}
  PROVE  \A k \in DOMAIN NextRows(j) : ~IsRow(k, "match")
<1>1. PICK t, h : t = task[j] /\ h = Head(t.todo)
  OBVIOUS
<1>2. t.todo # <<>> /\ OpenInv(t) /\ Active(t) /\ Open(t) /\ JobInv(j, t)
  BY <1>1 DEF JobInv, Open, Active
<1>3. CASE h \in {"creation", "runtime", "onCreation", "onRuntime", "sources"}
  <2>1. /\ h = "creation" => DOMAIN NextRows(j) = {Code(t.export.creation)}
        /\ h = "runtime" => DOMAIN NextRows(j) = {Code(t.export.runtime)}
        /\ h = "onCreation" => DOMAIN NextRows(j) = {Code(t.export.onCreation)}
        /\ h = "onRuntime" => DOMAIN NextRows(j) = {Code(t.export.onRuntime)}
        /\ h = "sources" => DOMAIN NextRows(j) = {Source(f) : f \in Range(t.export.files)}
    BY <1>1, NextCreation, NextRuntime, NextOnCreation, NextOnRuntime, NextSources
  <2> QED BY <1>3, <2>1, KeyParts DEF IsRow
<1>4. CASE h = "contract"
  <2>1. t.contract \in {Contract(j, t.export), BareContract(j, t.export)}
    BY <1>1, <1>4, NoCopy DEF StoreInv, Touched
  <2>2. DOMAIN NextRows(j) = {t.contract}
    BY <1>1, <1>4, NextContract
  <2> QED BY <2>1, <2>2, KeyParts DEF IsRow
<1>5. CASE h = "deployment"
  <2>1. DOMAIN NextRows(j) = {Deployment(t.export.address)}
    BY <1>1, <1>5, NextDeployment
  <2> QED BY <2>1, KeyParts DEF IsRow
<1>6. CASE h = "compiled"
  <2>1. DOMAIN NextRows(j) = {Compiled(t.export)}
    BY <1>1, <1>6, NextCompiled
  <2> QED BY <2>1, KeyParts DEF IsRow
<1>7. CASE h = "files"
  <2>1. DOMAIN NextRows(j) = {File(t.comp, p) : p \in DOMAIN t.export.files}
    <3>1. task[j].todo # <<>> /\ Head(task[j].todo) = "files"
      BY <1>1, <1>7
    <3>2. DOMAIN NextRows(j) = {File(task[j].comp, p) : p \in DOMAIN task[j].export.files}
      BY <3>1, NextFiles
    <3> QED BY <1>1, <3>2
  <2> QED BY <2>1, KeyParts DEF IsRow
<1>8. CASE h = "verified"
  <2>1. DOMAIN NextRows(j) = {t.verified}
    BY <1>1, <1>8, NextVerified
  <2>2. CASE t.similar
    <3>1. SimilarInv(t)
      BY <1>2, <2>2 DEF JobInv
    <3> QED BY <2>1, <3>1, KeyParts DEF SimilarInv, IsRow
  <2>3. CASE ~t.similar
    <3>1. FilesInv(t)
      BY <1>2, <2>3 DEF JobInv, StoreInv
    <3>2. ~Has(t, "files")
      <4>1. PICK q : q = t.todo
        OBVIOUS
      <4>2. InOrder(q) /\ q # <<>> /\ Head(q) = h
        BY <1>1, <1>2, <4>1 DEF OpenInv
      <4>3. /\ \A s : (\E i \in 1..Len(q) : q[i] = s)
                        <=> s = Head(q) \/ \E i \in 1..Len(Tail(q)) : Tail(q)[i] = s
            /\ \A s : Rank(Head(q)) > 0 /\ Rank(s) > 0 /\ Rank(s) <= Rank(Head(q))
                        => ~ \E i \in 1..Len(Tail(q)) : Tail(q)[i] = s
        BY <4>2, InOrderTail
      <4>4. ~ \E i \in 1..Len(Tail(q)) : Tail(q)[i] = "files"
        BY <1>8, <4>2, <4>3, RanksAre
      <4> QED BY <1>8, <4>1, <4>2, <4>3, <4>4 DEF Has
    <3> QED BY <2>1, <3>1, <3>2, KeyParts DEF FilesInv, IsRow
  <2> QED BY <2>2, <2>3
<1> QED BY <1>1, <1>3, <1>4, <1>5, <1>6, <1>7, <1>8 DEF Touched

\* Each job that is under way has a level that an export had.
LevelsFrom == \A i \in Jobs : Active(task[i]) => task[i].level \in MatchLevels

\* No match is written, and none is added to what transactions have written.
LEMMA IdsSame ==
  ASSUME TableInv, lastId \in Nat, Counted, db' = db, LevelsFrom',
         \A i \in Jobs : \A n \in DOMAIN task'[i].writes :
            IsRow(n, "match") => /\ n \in DOMAIN task[i].writes
                                 /\ task'[i].writes[n] = task[i].writes[n]
  PROVE  TableInv'
<1>1. \A row : IsMatch(row) => IsMatch(row)'
  BY DEF IsMatch, Counted
<1>2. MatchKeys' = MatchKeys
  BY DEF MatchKeys
<1>3. ASSUME NEW j \in Jobs, NEW k \in DOMAIN task'[j].writes, IsRow(k, "match")
      PROVE  OwnId(j, k)'
  <2>1. /\ OwnId(j, k) /\ k \in DOMAIN task[j].writes
        /\ task'[j].writes[k] = task[j].writes[k]
    BY <1>3 DEF TableInv
  <2>2. PICK row : row = task[j].writes[k]
    OBVIOUS
  <2>3. /\ IsMatch(row)'
        /\ \A m \in MatchKeys : db[m].id = row.id <=> m = k
        /\ \A i \in Jobs \ {j} : \A n \in DOMAIN task[i].writes :
             IsRow(n, "match") => task[i].writes[n].id # row.id
    BY <1>1, <2>1, <2>2 DEF OwnId
  <2>4. \A i \in Jobs \ {j} : \A n \in DOMAIN task'[i].writes :
          IsRow(n, "match") => task'[i].writes[n].id # row.id
    BY <2>3
  <2> QED BY <1>2, <2>1, <2>2, <2>3, <2>4 DEF OwnId
<1> QED BY <1>1, <1>2, <1>3 DEF TableInv, LevelsFrom

\* A transaction writes a match: that of its place, or one with a new id.
LEMMA IdsWrite ==
  ASSUME TableInv, lastId \in Nat, Counted, db' = db, LevelsFrom', NEW j \in Jobs, NEW k, IsRow(k, "match"),
         NEW row, IsMatch(row)',
         \A i \in Jobs \ {j} : task'[i].writes = task[i].writes /\ k \notin DOMAIN task[i].writes,
         k \in DOMAIN task'[j].writes, task'[j].writes[k] = row,
         \A n \in DOMAIN task'[j].writes \ {k} :
            n \in DOMAIN task[j].writes /\ task'[j].writes[n] = task[j].writes[n],
         \/ k \in DOMAIN db /\ row.id = db[k].id
         \/ k \notin DOMAIN db /\ row.id = lastId + 1
  PROVE  TableInv'
<1>1. \A x : IsMatch(x) => IsMatch(x)'
  BY DEF IsMatch, Counted
<1>2. MatchKeys' = MatchKeys
  BY DEF MatchKeys
<1>3. /\ \A m \in MatchKeys : db[m].id \in 1..lastId
      /\ \A m, n \in MatchKeys : db[m].id = db[n].id => m = n
      /\ \A i \in Jobs : \A n \in DOMAIN task[i].writes :
           IsRow(n, "match") =>
             /\ IsMatch(task[i].writes[n]) /\ task[i].writes[n].id \in 1..lastId
             /\ \A m \in MatchKeys : db[m].id = task[i].writes[n].id <=> m = n
  BY DEF TableInv, OwnId, IsMatch
<1>4. k \in DOMAIN db => k \in MatchKeys
  BY DEF MatchKeys
<1>5. \A m \in MatchKeys : m \in DOMAIN db
  BY DEF MatchKeys
<1>6. \A m \in MatchKeys : db[m].id = row.id <=> m = k
  <2>1. CASE k \in DOMAIN db
    BY <1>3, <1>4, <2>1
  <2>2. CASE k \notin DOMAIN db
    BY <1>3, <1>5, <2>2
  <2> QED BY <2>1, <2>2
<1>7. ASSUME NEW i \in Jobs \ {j}, NEW n \in DOMAIN task[i].writes, IsRow(n, "match")
      PROVE  task[i].writes[n].id # row.id
  <2>1. CASE k \in DOMAIN db
    BY <1>3, <1>4, <1>6, <1>7, <2>1
  <2>2. CASE k \notin DOMAIN db
    BY <1>3, <1>7, <2>2
  <2> QED BY <2>1, <2>2
<1>8. ASSUME NEW i \in Jobs, NEW n \in DOMAIN task'[i].writes, IsRow(n, "match")
      PROVE  OwnId(i, n)'
  <2>1. CASE i = j /\ n = k
    <3>1. \A l \in Jobs \ {j} : \A x \in DOMAIN task'[l].writes :
            IsRow(x, "match") => task'[l].writes[x].id # row.id
      BY <1>7
    <3> QED BY <1>2, <1>6, <2>1, <3>1 DEF OwnId
  <2>2. CASE ~(i = j /\ n = k)
    <3>1. n \in DOMAIN task[i].writes /\ task'[i].writes[n] = task[i].writes[n]
      BY <1>8, <2>2
    <3>2. PICK r : r = task[i].writes[n]
      OBVIOUS
    <3>3. /\ OwnId(i, n) /\ IsMatch(r)
          /\ \A m \in MatchKeys : db[m].id = r.id <=> m = n
          /\ \A l \in Jobs \ {i} : \A x \in DOMAIN task[l].writes :
               IsRow(x, "match") => task[l].writes[x].id # r.id
      BY <1>8, <3>1, <3>2 DEF TableInv, OwnId
    <3>4. ASSUME NEW l \in Jobs \ {i}, NEW x \in DOMAIN task'[l].writes, IsRow(x, "match")
          PROVE  task'[l].writes[x].id # r.id
      <4>1. CASE l = j /\ x = k
        BY <1>7, <1>8, <3>1, <3>2, <3>4, <4>1
      <4>2. CASE ~(l = j /\ x = k)
        <5>1. x \in DOMAIN task[l].writes /\ task'[l].writes[x] = task[l].writes[x]
          BY <3>4, <4>2
        <5> QED BY <3>3, <3>4, <5>1
      <4> QED BY <4>1, <4>2
    <3> QED BY <1>1, <1>2, <3>1, <3>2, <3>3, <3>4 DEF OwnId
  <2> QED BY <2>1, <2>2
<1> QED BY <1>1, <1>2, <1>8 DEF TableInv, LevelsFrom

\* The rows that j has written become those of the table.
LEMMA IdsCommit ==
  ASSUME LockInv, TableInv, Counted, LevelsFrom', NEW j \in Jobs,
         \A k \in DOMAIN task[j].writes : WriteOK(task[j], k),
         \A i \in Jobs \ {j} : task'[i].writes = task[i].writes,
         DOMAIN task'[j].writes = {},
         DOMAIN db' = DOMAIN task[j].writes \cup DOMAIN db,
         \A k \in DOMAIN task[j].writes : db'[k] = task[j].writes[k],
         \A k \in DOMAIN db \ DOMAIN task[j].writes : db'[k] = db[k]
  PROVE  TableInv'
<1>1. \A x : IsMatch(x) => IsMatch(x)'
  BY DEF IsMatch, Counted, LockInv, TypeOK
<1>2. /\ \A m : m \in MatchKeys <=> m \in DOMAIN db /\ IsRow(m, "match")
      /\ \A m : m \in MatchKeys' <=> m \in DOMAIN db' /\ IsRow(m, "match")
  BY DEF MatchKeys
<1>3. /\ \A m \in MatchKeys : IsMatch(db[m])
      /\ \A m, n \in MatchKeys : db[m].id = db[n].id => m = n
      /\ \A i \in Jobs : \A n \in DOMAIN task[i].writes :
           IsRow(n, "match") =>
             /\ IsMatch(task[i].writes[n])
             /\ \A m \in MatchKeys : db[m].id = task[i].writes[n].id <=> m = n
  BY DEF TableInv, OwnId
<1>4. \A k, n \in DOMAIN task[j].writes : IsRow(k, "match") /\ IsRow(n, "match") => k = n
  BY DEF WriteOK
<1>5. ASSUME NEW m \in MatchKeys'
      PROVE  /\ IsMatch(db'[m])
             /\ m \in DOMAIN task[j].writes \/ (m \in MatchKeys /\ db'[m] = db[m])
  BY <1>2, <1>3, <1>5
<1>6. ASSUME NEW m \in MatchKeys', NEW n \in MatchKeys', db'[m].id = db'[n].id
      PROVE  m = n
  <2>1. CASE m \in DOMAIN task[j].writes /\ n \in DOMAIN task[j].writes
    BY <1>2, <1>4, <2>1
  <2>2. CASE m \in DOMAIN task[j].writes /\ n \notin DOMAIN task[j].writes
    BY <1>2, <1>3, <1>5, <1>6, <2>2
  <2>3. CASE m \notin DOMAIN task[j].writes /\ n \in DOMAIN task[j].writes
    BY <1>2, <1>3, <1>5, <1>6, <2>3
  <2>4. CASE m \notin DOMAIN task[j].writes /\ n \notin DOMAIN task[j].writes
    BY <1>2, <1>3, <1>5, <1>6, <2>4
  <2> QED BY <2>1, <2>2, <2>3, <2>4
<1>7. ASSUME NEW i \in Jobs, NEW n \in DOMAIN task'[i].writes, IsRow(n, "match")
      PROVE  OwnId(i, n)'
  <2>1. i # j /\ n \in DOMAIN task[i].writes /\ task'[i].writes[n] = task[i].writes[n]
    BY <1>7
  <2>2. PICK r : r = task[i].writes[n]
    OBVIOUS
  <2>3. /\ IsMatch(r)
        /\ \A m \in MatchKeys : db[m].id = r.id <=> m = n
        /\ \A l \in Jobs \ {i} : \A x \in DOMAIN task[l].writes :
             IsRow(x, "match") => task[l].writes[x].id # r.id
    BY <1>7, <2>1, <2>2 DEF TableInv, OwnId
  <2>4. n \notin DOMAIN task[j].writes
    BY <2>1 DEF LockInv, TypeOK, Locked
  <2>5. \A l \in Jobs \ {i} : \A x \in DOMAIN task'[l].writes :
          IsRow(x, "match") => task'[l].writes[x].id # r.id
    BY <2>3
  <2>6. ASSUME NEW m \in MatchKeys' PROVE db'[m].id = r.id <=> m = n
    <3>1. CASE m \in DOMAIN task[j].writes
      BY <1>2, <2>1, <2>3, <2>4, <3>1
    <3>2. CASE m \notin DOMAIN task[j].writes
      BY <1>5, <2>3, <3>2
    <3> QED BY <3>1, <3>2
  <2> QED BY <1>1, <2>1, <2>2, <2>3, <2>5, <2>6 DEF OwnId
<1>8. ASSUME NEW m \in MatchKeys' PROVE IsMatch(db[m])'
  BY <1>5 DEF IsMatch, Counted, LockInv, TypeOK
<1> QED BY <1>6, <1>7, <1>8 DEF TableInv, LevelsFrom

\* A match moves to another verified contract, or a new one is inserted.
LEMMA IdsMove ==
  ASSUME LockInv, TableInv, Counted, LevelsFrom', NEW j \in Jobs,
         \A i \in Jobs : task'[i].writes = task[i].writes,
         NEW from, NEW to, IsRow(from, "match"), IsRow(to, "match"),
         \A i \in Jobs : from \notin DOMAIN task[i].writes /\ to \notin DOMAIN task[i].writes,
         from = to \/ to \notin DOMAIN db,
         DOMAIN db' = (DOMAIN db \ {from}) \cup {to},
         \A k \in DOMAIN db \ {from, to} : db'[k] = db[k],
         IsMatch(db[to])',
         \/ from \in DOMAIN db /\ db'[to].id = db[from].id
         \/ from \notin DOMAIN db /\ db'[to].id = lastId + 1
  PROVE  TableInv'
<1>1. (\A x : IsMatch(x) => IsMatch(x)') /\ lastId \in Nat
  BY DEF IsMatch, Counted, LockInv, TypeOK
<1>2. /\ \A m : m \in MatchKeys <=> m \in DOMAIN db /\ IsRow(m, "match")
      /\ \A m : m \in MatchKeys' <=> m \in DOMAIN db' /\ IsRow(m, "match")
  BY DEF MatchKeys
<1>3. /\ \A m \in MatchKeys : IsMatch(db[m]) /\ db[m].id \in 1..lastId
      /\ \A m, n \in MatchKeys : db[m].id = db[n].id => m = n
      /\ \A i \in Jobs : \A n \in DOMAIN task[i].writes :
           IsRow(n, "match") =>
             /\ IsMatch(task[i].writes[n]) /\ task[i].writes[n].id \in 1..lastId
             /\ \A m \in MatchKeys : db[m].id = task[i].writes[n].id <=> m = n
  BY DEF TableInv, OwnId, IsMatch
<1>4. ASSUME NEW m \in MatchKeys'
      PROVE  m = to \/ (m # from /\ m \in MatchKeys /\ db'[m] = db[m])
  BY <1>2, <1>4
<1>5. ASSUME NEW m \in MatchKeys', m # to PROVE db'[m].id # db'[to].id
  <2>1. m # from /\ m \in MatchKeys /\ db'[m] = db[m]
    BY <1>4, <1>5
  <2>2. CASE from \in DOMAIN db /\ db'[to].id = db[from].id
    BY <1>2, <1>3, <2>1, <2>2
  <2>3. CASE from \notin DOMAIN db /\ db'[to].id = lastId + 1
    BY <1>1, <1>3, <2>1, <2>3
  <2> QED BY <2>2, <2>3
<1>6. ASSUME NEW m \in MatchKeys', NEW n \in MatchKeys', db'[m].id = db'[n].id
      PROVE  m = n
  BY <1>3, <1>4, <1>5, <1>6
<1>7. ASSUME NEW m \in MatchKeys' PROVE IsMatch(db[m])'
  <2>1. CASE m = to
    BY <2>1
  <2>2. CASE m # to
    <3>1. IsMatch(db[m]) /\ db'[m] = db[m]
      BY <1>3, <1>4, <2>2
    <3> QED BY <1>1, <3>1 DEF IsMatch, Counted
  <2> QED BY <2>1, <2>2
<1>8. ASSUME NEW i \in Jobs, NEW n \in DOMAIN task'[i].writes, IsRow(n, "match")
      PROVE  OwnId(i, n)'
  <2>1. n \in DOMAIN task[i].writes /\ task'[i].writes[n] = task[i].writes[n] /\ n # from /\ n # to
    BY <1>8
  <2>2. PICK r : r = task[i].writes[n]
    OBVIOUS
  <2>3. /\ IsMatch(r)
        /\ \A m \in MatchKeys : db[m].id = r.id <=> m = n
        /\ \A l \in Jobs \ {i} : \A x \in DOMAIN task[l].writes :
             IsRow(x, "match") => task[l].writes[x].id # r.id
    BY <1>8, <2>1, <2>2 DEF TableInv, OwnId
  <2>4. \A l \in Jobs \ {i} : \A x \in DOMAIN task'[l].writes :
          IsRow(x, "match") => task'[l].writes[x].id # r.id
    BY <2>3
  <2>5. r.id # db'[to].id
    <3>1. CASE from \in DOMAIN db /\ db'[to].id = db[from].id
      BY <1>2, <2>1, <2>3, <3>1
    <3>2. CASE from \notin DOMAIN db /\ db'[to].id = lastId + 1
      BY <1>1, <1>3, <1>8, <2>1, <2>2, <3>2
    <3> QED BY <3>1, <3>2
  <2>6. ASSUME NEW m \in MatchKeys' PROVE db'[m].id = r.id <=> m = n
    BY <1>4, <2>1, <2>3, <2>5
  <2> QED BY <1>1, <2>1, <2>2, <2>3, <2>4, <2>6 DEF OwnId
<1> QED BY <1>6, <1>7, <1>8 DEF TableInv, LevelsFrom

LEMMA SetLevel ==
  ASSUME NEW row, row = [id |-> row.id, level |-> row.level], NEW level
  PROVE  LET new == [row EXCEPT !.level = level]
         IN  new = [id |-> new.id, level |-> new.level] /\ new.id = row.id /\ new.level = level
OBVIOUS

LEMMA IdsExecute ==
  ASSUME LockInv, TableInv, Counted, NEW j \in Jobs, NEW rows, NEW written,
         Executes(j, rows, written), \A k \in written : ~IsRow(k, "match")
  PROVE  TableInv'
<1>1. /\ db' = db /\ \A i \in Jobs \ {j} : task'[i] = task[i]
      /\ task'[j].level = task[j].level /\ Active(task[j])
      /\ DOMAIN task'[j].writes = DOMAIN task[j].writes \cup written
      /\ \A k \in DOMAIN task[j].writes \ written : task'[j].writes[k] = task[j].writes[k]
  BY DEF Executes, KeepsMost, Open, Active
<1>2. LevelsFrom'
  <2>1. \A i \in Jobs : Active(task[i]) => task[i].level \in MatchLevels
    BY DEF TableInv
  <2> QED BY <1>1, <2>1 DEF LevelsFrom, Active
<1>3. \A i \in Jobs : \A n \in DOMAIN task'[i].writes :
            IsRow(n, "match") => /\ n \in DOMAIN task[i].writes
                                 /\ task'[i].writes[n] = task[i].writes[n]
  BY <1>1
<1>4. lastId \in Nat
  BY DEF LockInv, TypeOK
<1> QED BY <1>1, <1>2, <1>3, <1>4, IdsSame

\* The tables stay, and what a job has written stays or is given up.
LEMMA IdsStay ==
  ASSUME LockInv, TableInv, Counted, db' = db, LevelsFrom',
         \A i \in Jobs : task'[i].writes = task[i].writes \/ task'[i].writes = <<>>
  PROVE  TableInv'
<1>1. lastId \in Nat
  BY DEF LockInv, TypeOK
<1>2. \A i \in Jobs : \A n \in DOMAIN task'[i].writes :
            IsRow(n, "match") => /\ n \in DOMAIN task[i].writes
                                 /\ task'[i].writes[n] = task[i].writes[n]
  <2>1. \A n : n \notin DOMAIN <<>>
    OBVIOUS
  <2> QED BY <2>1
<1> QED BY <1>1, <1>2, IdsSame

LEMMA IdsAbort ==
  ASSUME LockInv, TableInv, Counted, NEW j \in Jobs, NEW why, Aborts(j, why)
  PROVE  TableInv'
<1>1. /\ db' = db /\ \A i \in Jobs \ {j} : task'[i] = task[i]
      /\ task'[j].pc = "failed" /\ task'[j].writes = <<>>
  BY DEF Aborts
<1>2. LevelsFrom'
  <2>1. \A i \in Jobs : Active(task[i]) => task[i].level \in MatchLevels
    BY DEF TableInv
  <2> QED BY <1>1, <2>1 DEF LevelsFrom, Active
<1> QED BY <1>1, <1>2, IdsStay

LEMMA IdsStart ==
  ASSUME LockInv, DbInv, TableInv, Counted, NEW j \in Jobs,
         \/ \E e \in Exports : StoreStarts(j, e)
         \/ \E a \in Addresses : SimilarStarts(j, a)
  PROVE  TableInv'
<1>1. /\ db' = db
      /\ \A i \in Jobs \ {j} : /\ task'[i].pc = task[i].pc /\ task'[i].level = task[i].level
                               /\ task'[i].writes = task[i].writes
      /\ task'[j].writes = <<>>
  BY DEF StoreStarts, SimilarStarts, Starts
<1>2. task'[j].level \in MatchLevels
  <2>1. CASE \E e \in Exports : StoreStarts(j, e)
    BY <2>1 DEF StoreStarts, MatchLevels
  <2>2. CASE \E a \in Addresses : SimilarStarts(j, a)
    <3>1. PICK v : Match(v) \in DOMAIN db /\ task'[j].level = db[Match(v)].level
      BY <2>2 DEF SimilarStarts
    <3>2. Match(v) \in MatchKeys
      BY <3>1, KeyParts DEF MatchKeys, IsRow
    <3> QED BY <3>1, <3>2 DEF TableInv, IsMatch
  <2> QED BY <2>1, <2>2
<1>3. LevelsFrom'
  <2>1. \A i \in Jobs : Active(task[i]) => task[i].level \in MatchLevels
    BY DEF TableInv
  <2> QED BY <1>1, <1>2, <2>1 DEF LevelsFrom, Active
<1> QED BY <1>1, <1>3, IdsStay

LEMMA IdsWriteMatch ==
  ASSUME LockInv, TableInv, Counted, NEW j \in Jobs, WriteMatch(j)
  PROVE  TableInv'
<1>1. PICK t, u, k, row : /\ t = task[j] /\ u = task'[j] /\ k = Match(t.verified)
                          /\ row = [db[k] EXCEPT !.level = t.level]
  OBVIOUS
<1>2. /\ Open(t) /\ t.todo # <<>> /\ Head(t.todo) = "match"
      /\ \/ k \in DOMAIN db /\ UNCHANGED lastId /\ Executes(j, OneRow(k, row), {k})
         \/ Executes(j, <<>>, {})
         \/ Aborts(j, "taken")
         \/ /\ k \notin DOMAIN db /\ lastId' = lastId + 1
            /\ Executes(j, NextRows(j), {k})
  BY <1>1, WriteMatchEffect DEF MatchOf
<1>3. IsRow(k, "match") /\ Active(t) /\ t.level \in MatchLevels /\ lastId \in Nat
  BY <1>1, <1>2, KeyParts DEF IsRow, Active, Open, TableInv, LockInv, TypeOK
<1>4. ASSUME NEW rows, Executes(j, rows, {k}), k \in DOMAIN rows, NEW new, new = rows[k], IsMatch(new)',
             \/ k \in DOMAIN db /\ new.id = db[k].id
             \/ k \notin DOMAIN db /\ new.id = lastId + 1
      PROVE  TableInv'
  <2>1. /\ db' = db /\ \A i \in Jobs \ {j} : task'[i] = task[i]
        /\ u.level = t.level /\ DOMAIN u.writes = DOMAIN t.writes \cup {k}
        /\ u.writes[k] = new
        /\ \A n \in DOMAIN t.writes \ {k} : u.writes[n] = t.writes[n]
    BY <1>1, <1>4 DEF Executes, KeepsMost
  <2>2. \A i \in Jobs \ {j} : k \notin DOMAIN task[i].writes
    BY <1>4 DEF Executes, Locked, LockInv, TypeOK
  <2>3. LevelsFrom'
    <3>1. \A i \in Jobs : Active(task[i]) => task[i].level \in MatchLevels
      BY DEF TableInv
    <3> QED BY <1>1, <1>3, <2>1, <3>1 DEF LevelsFrom, Active
  <2>4. /\ \A i \in Jobs \ {j} : task'[i].writes = task[i].writes /\ k \notin DOMAIN task[i].writes
        /\ k \in DOMAIN task'[j].writes /\ task'[j].writes[k] = new
        /\ \A n \in DOMAIN task'[j].writes \ {k} :
              n \in DOMAIN task[j].writes /\ task'[j].writes[n] = task[j].writes[n]
    BY <1>1, <2>1, <2>2
  <2> QED BY <1>3, <1>4, <2>1, <2>3, <2>4, IdsWrite
<1>5. CASE k \in DOMAIN db /\ UNCHANGED lastId /\ Executes(j, OneRow(k, row), {k})
  <2>1. k \in MatchKeys
    BY <1>3, <1>5 DEF MatchKeys
  <2>2. IsMatch(db[k])
    BY <2>1 DEF TableInv
  <2>3. row = [id |-> row.id, level |-> row.level] /\ row.id = db[k].id /\ row.level = t.level
    BY <1>1, <2>2, SetLevel DEF IsMatch
  <2>4. IsMatch(row)'
    BY <1>3, <1>5, <2>2, <2>3 DEF IsMatch
  <2>5. k \in DOMAIN OneRow(k, row) /\ OneRow(k, row)[k] = row
    BY OneRowParts
  <2> QED BY <1>4, <1>5, <2>3, <2>4, <2>5
<1>6. CASE k \notin DOMAIN db /\ lastId' = lastId + 1 /\ Executes(j, NextRows(j), {k})
  <2>1. PICK new : new = NextRows(j)[k]
    OBVIOUS
  <2>2. task[j].todo # <<>> /\ Head(task[j].todo) = "match"
    BY <1>1, <1>2
  <2>3. k \in DOMAIN NextRows(j) /\ new = [id |-> lastId + 1, level |-> t.level]
    BY <1>1, <2>1, <2>2, NextMatch
  <2>4. IsMatch(new)' /\ new.id = lastId + 1
    BY <1>3, <1>6, <2>3 DEF IsMatch, MatchLevels
  <2> QED BY <1>4, <1>6, <2>1, <2>3, <2>4
<1>7. CASE Executes(j, <<>>, {})
  BY <1>7, IdsExecute
<1>8. CASE Aborts(j, "taken")
  BY <1>8, IdsAbort
<1> QED BY <1>2, <1>5, <1>6, <1>7, <1>8

LEMMA IdsUpdate ==
  ASSUME LockInv, TableInv, Counted, NEW j \in Jobs, UpdateMatch(j) \/ InsertMatch(j)
  PROVE  TableInv'
<1>1. task[j].pc \in {"updateMatch", "insertMatch"}
  BY UpdateMatchEffect, InsertMatchEffect
<1>2. Active(task[j]) /\ DOMAIN task[j].writes = {} /\ task[j].level \in MatchLevels /\ lastId \in Nat
  BY <1>1 DEF Active, Open, LockInv, TypeOK, TableInv
<1>3. CASE \E why : Aborts(j, why)
  BY <1>3, IdsAbort
<1>4. ASSUME NEW pc, Turns(j, pc)
      PROVE  LevelsFrom' /\ \A i \in Jobs : task'[i].writes = task[i].writes
  <2>1. \A i \in Jobs : Active(task[i]) => task[i].level \in MatchLevels
    BY DEF TableInv
  <2>2. task'[j].level = task[j].level /\ task'[j].writes = task[j].writes
        /\ \A i \in Jobs \ {j} : task'[i] = task[i]
    BY <1>4 DEF Turns, Keeps
  <2> QED BY <1>2, <2>1, <2>2 DEF LevelsFrom, Active
<1>5. CASE Turns(j, "insertMatch") /\ UNCHANGED <<db, lastId, failures>>
  BY <1>4, <1>5, IdsStay
<1>6. ASSUME NEW k, ~Locked(j, {k}), NEW i \in Jobs PROVE k \notin DOMAIN task[i].writes
  BY <1>2, <1>6 DEF Locked, LockInv, TypeOK
<1>7. CASE Moves(j)
  <2>1. PICK from, to : from = Match(task[j].old) /\ to = MatchOf(j)
    OBVIOUS
  <2>2. IsRow(from, "match") /\ IsRow(to, "match")
    BY <2>1, KeyParts DEF IsRow, MatchOf
  <2>3. /\ ~Locked(j, {from, to}) /\ from \in DOMAIN db /\ (from = to \/ to \notin DOMAIN db)
        /\ DOMAIN db' = (DOMAIN db \ {from}) \cup {to}
        /\ db'[to] = [db[from] EXCEPT !.level = task[j].level]
        /\ \A k \in DOMAIN db \ {from, to} : db'[k] = db[k]
        /\ Turns(j, "stored") /\ lastId' = lastId
    BY <1>7, <2>1 DEF Moves
  <2>4. \A i \in Jobs : from \notin DOMAIN task[i].writes /\ to \notin DOMAIN task[i].writes
    BY <1>6, <2>3 DEF Locked
  <2>5. IsMatch(db[from])
    BY <2>2, <2>3 DEF TableInv, MatchKeys
  <2>6. PICK new : new = [db[from] EXCEPT !.level = task[j].level]
    OBVIOUS
  <2>7. new = [id |-> new.id, level |-> new.level] /\ new.id = db[from].id /\ new.level = task[j].level
    BY <2>5, <2>6, SetLevel DEF IsMatch
  <2>8. db'[to] = new
    BY <2>3, <2>6
  <2>9. IsMatch(db[to])'
    BY <1>2, <2>3, <2>5, <2>7, <2>8 DEF IsMatch, MatchLevels
  <2>10. LevelsFrom' /\ \A i \in Jobs : task'[i].writes = task[i].writes
    BY <1>4, <2>3
  <2>11. db'[to].id = db[from].id
    BY <2>7, <2>8
  <2> QED BY <2>2, <2>3, <2>4, <2>9, <2>10, <2>11, IdsMove
<1>8. CASE Inserts(j)
  <2>1. PICK to : to = MatchOf(j)
    OBVIOUS
  <2>2. IsRow(to, "match")
    BY <2>1, KeyParts DEF IsRow, MatchOf
  <2>3. /\ ~Locked(j, {to}) /\ to \notin DOMAIN db
        /\ DOMAIN db' = (DOMAIN db \ {to}) \cup {to}
        /\ db'[to] = [id |-> lastId + 1, level |-> task[j].level]
        /\ \A k \in DOMAIN db \ {to, to} : db'[k] = db[k]
        /\ Turns(j, "stored") /\ lastId' = lastId + 1
    BY <1>8, <2>1 DEF Inserts
  <2>4. \A i \in Jobs : to \notin DOMAIN task[i].writes
    BY <1>6, <2>3
  <2>5. IsMatch(db[to])' /\ db'[to].id = lastId + 1
    BY <1>2, <2>3 DEF IsMatch, MatchLevels
  <2>6. LevelsFrom' /\ \A i \in Jobs : task'[i].writes = task[i].writes
    BY <1>4, <2>3
  <2> QED BY <2>2, <2>3, <2>4, <2>5, <2>6, IdsMove
<1> QED BY <1>3, <1>5, <1>7, <1>8, UpdateMatchEffect, InsertMatchEffect

LEMMA IdsCommits ==
  ASSUME LockInv, TableInv, Counted, NEW j \in Jobs, JobInv(j, task[j]), NEW pc, NEW why,
         Commits(j, pc, why)
  PROVE  TableInv'
<1>1. /\ \A i \in Jobs \ {j} : task'[i] = task[i]
      /\ task'[j].writes = <<>> /\ task'[j].level = task[j].level /\ Open(task[j])
      /\ task[j].todo = <<>>
      /\ DOMAIN db' = DOMAIN task[j].writes \cup DOMAIN db
      /\ \A k \in DOMAIN task[j].writes : db'[k] = task[j].writes[k]
      /\ \A k \in DOMAIN db \ DOMAIN task[j].writes : db'[k] = db[k]
  BY DEF Commits, Keeps
<1>2. \A k \in DOMAIN task[j].writes : WriteOK(task[j], k)
  BY <1>1, AllDone
<1>3. LevelsFrom'
  <2>1. \A i \in Jobs : Active(task[i]) => task[i].level \in MatchLevels
    BY DEF TableInv
  <2>2. Active(task[j])
    BY <1>1 DEF Open, Active
  <2> QED BY <1>1, <2>1, <2>2 DEF LevelsFrom, Active
<1>4. DOMAIN task'[j].writes = {}
  BY <1>1
<1>5. \A i \in Jobs \ {j} : task'[i].writes = task[i].writes
  BY <1>1
<1> QED BY <1>1, <1>2, <1>3, <1>4, <1>5, IdsCommit

LEMMA StepCounts ==
  ASSUME LockInv, [Next]_vars
  PROVE  Counted
BY NextCases DEF vars, Counted

\* A statement on another table executes or the transaction is rolled back.
LEMMA OtherStatement ==
  ASSUME LockInv, NEW j \in Jobs, JobInv(j, task[j]),
         \/ Touch(j) \/ AddFiles(j) \/ InsertDeployment(j) \/ InsertCompiled(j)
         \/ InsertVerified(j) \/ LacksRow(j) \/ ReadOldMatch(j)
  PROVE  \/ \E rows, written :
              Executes(j, rows, written) /\ \A k \in written : ~IsRow(k, "match")
         \/ \E why : Aborts(j, why) /\ why \notin {"taken", "fault"}
<1> DEFINE Other(written) == \A k \in written : ~IsRow(k, "match")
<1>1. CASE Touch(j)
  <2>1. /\ Open(task[j]) /\ task[j].todo # <<>> /\ Head(task[j].todo) \in Touched
        /\ \/ Executes(j, NextRows(j), DOMAIN NextRows(j) \ DOMAIN Latest(task[j]))
           \/ \E why \in {"missing", "sourceNotFound"} : Aborts(j, why)
    BY <1>1, TouchEffect
  <2>2. Other(DOMAIN NextRows(j) \ DOMAIN Latest(task[j]))
    BY <2>1, NoMatchRows
  <2> HIDE DEF Other
  <2> QED BY <2>1, <2>2 DEF Other
<1>2. CASE AddFiles(j)
  <2>1. /\ Open(task[j]) /\ task[j].todo # <<>> /\ Head(task[j].todo) = "files"
        /\ Executes(j, NextRows(j), DOMAIN NextRows(j) \ DOMAIN Latest(task[j]))
    BY <1>2, AddFilesEffect
  <2>2. Other(DOMAIN NextRows(j) \ DOMAIN Latest(task[j]))
    BY <2>1, NoMatchRows
  <2> QED BY <2>1, <2>2
<1>3. CASE InsertDeployment(j) \/ InsertCompiled(j) \/ InsertVerified(j)
  <2>1. /\ Open(task[j]) /\ task[j].todo # <<>>
        /\ Head(task[j].todo) \in {"deployment", "compiled", "verified"}
        /\ \/ Executes(j, NextRows(j), DOMAIN NextRows(j))
           \/ \E why \in {"missing", "conflict"} : Aborts(j, why)
    BY <1>3, InsertDeploymentEffect, InsertCompiledEffect, InsertVerifiedEffect
  <2>2. Other(DOMAIN NextRows(j))
    BY <2>1, NoMatchRows
  <2> HIDE DEF Other
  <2> QED BY <2>1, <2>2 DEF Other
<1>4. CASE ReadOldMatch(j)
  BY <1>4, ReadOldMatchEffect
<1>5. CASE LacksRow(j)
  <2>1. Aborts(j, "missing")
    BY <1>5, LacksRowEffect
  <2> QED BY <2>1
<1> QED BY <1>1, <1>2, <1>3, <1>4, <1>5

LEMMA IdsInit == Init => TableInv
<1> SUFFICES ASSUME Init PROVE TableInv
  OBVIOUS
<1>1. MatchKeys = {}
  BY DEF Init, MatchKeys
<1>2. \A j \in Jobs : task[j] = NewTask
  BY DEF Init
<1>3. \A j \in Jobs : ~Active(task[j]) /\ DOMAIN task[j].writes = {}
  BY <1>2, NewTaskFields DEF Active
<1> QED BY <1>1, <1>3 DEF TableInv

LEMMA IdsNext == DataInv /\ TableInv /\ [Next]_vars => TableInv'
<1> SUFFICES ASSUME DataInv, TableInv, [Next]_vars PROVE TableInv'
  OBVIOUS
<1>1. LockInv /\ DbInv /\ TaskInv /\ Counted
  BY StepCounts DEF DataInv
<1>2. CASE UNCHANGED vars
  <2>1. db' = db /\ task' = task
    BY <1>2 DEF vars
  <2>2. LevelsFrom'
    BY <2>1 DEF TableInv, LevelsFrom, Active
  <2> QED BY <1>1, <2>1, <2>2, IdsStay
<1>3. ASSUME NEW j \in Jobs,
             \/ \E e \in Exports : BeginStore(j, e)
             \/ \E a \in Addresses : BeginSimilar(j, a)
             \/ Step(j) \/ LoseConnection(j) \/ Deadlock(j)
      PROVE  TableInv'
  <2>1. JobInv(j, task[j])
    BY <1>1 DEF TaskInv
  <2>2. ASSUME NEW e \in Exports, BeginStore(j, e) PROVE TableInv'
    BY <1>1, <2>2, BeginStoreEffect, IdsAbort, IdsStart
  <2>3. ASSUME NEW a \in Addresses, BeginSimilar(j, a) PROVE TableInv'
    BY <1>1, <2>3, BeginSimilarEffect, IdsAbort, IdsStart
  <2>4. CASE Commit(j)
    <3>1. Commits(j, NextStep(j), "none")
      BY <1>1, <2>4, CommittedEffect DEF Commit
    <3> QED BY <1>1, <2>1, <3>1, IdsCommits
  <2>5. CASE LoseConnection(j)
    <3>1. Aborts(j, "fault") \/ Commits(j, "failed", "fault")
      BY <1>1, <2>5, LoseConnectionEffect
    <3> QED BY <1>1, <2>1, <3>1, IdsAbort, IdsCommits
  <2>6. CASE Deadlock(j)
    BY <1>1, <2>6, DeadlockEffect, IdsAbort
  <2>7. CASE WriteMatch(j)
    BY <1>1, <2>7, IdsWriteMatch
  <2>8. CASE UpdateMatch(j) \/ InsertMatch(j)
    BY <1>1, <2>8, IdsUpdate
  <2>9. CASE Touch(j) \/ AddFiles(j) \/ InsertDeployment(j) \/ InsertCompiled(j)
               \/ InsertVerified(j) \/ LacksRow(j) \/ ReadOldMatch(j)
    BY <1>1, <2>1, <2>9, OtherStatement, IdsExecute, IdsAbort
  <2> QED BY <1>3, <2>2, <2>3, <2>4, <2>5, <2>6, <2>7, <2>8, <2>9 DEF Step
<1>4. CASE Next
  <2>1. CASE Finished
    BY <1>2, <2>1 DEF Finished
  <2>2. CASE ~Finished
    BY <1>3, <1>4, <2>2 DEF Next
  <2> QED BY <2>1, <2>2
<1> QED BY <1>2, <1>4

LEMMA IdsHold == Spec => [](DataInv /\ TableInv)
<1>1. Init => DataInv /\ TableInv
  BY LockInit, TaskInit, IdsInit DEF DataInv
<1>2. DataInv /\ TableInv /\ [Next]_vars => (DataInv /\ TableInv)'
  BY LockNext, TaskNext, IdsNext DEF DataInv
<1> QED BY <1>1, <1>2, PTL DEF Spec
-----------------------------------------------------------------------------
(* While nothing overlaps or fails, matches and verified contracts agree *)

\* What a step leaves of the calls before: it takes back no overlap, and an end.
Onward ==
  \A i \in Jobs : /\ task[i].raced => task'[i].raced
                  /\ task'[i].why = task[i].why \/ task[i].why = "none"

Alone(j) == \A i \in Jobs \ {j} : ~Active(task[i])

LEMMA CalmBefore ==
  ASSUME Onward, Calm'
  PROVE  Calm
BY DEF Onward, Calm

LEMMA CalmIsAlone ==
  ASSUME SoloInv, Calm, NEW j \in Jobs, Active(task[j])
  PROVE  Alone(j)
BY DEF SoloInv, Calm, Alone

LEMMA CalmSettles ==
  ASSUME NEW j \in Jobs, Alone(j), WhyInv',
         \A i \in Jobs \ {j} : task'[i].pc = task[i].pc,
         CalmJob(task[j])', \A m \in MatchKeys' : CalmMatch(m)'
  PROVE  CalmInv'
<1>1. ASSUME NEW i \in Jobs PROVE CalmJob(task[i])'
  <2>1. CASE i = j
    BY <2>1
  <2>2. CASE i # j
    <3>1. task'[i].pc = task[i].pc /\ ~Active(task[i])
      BY <2>2 DEF Alone
    <3> QED BY <3>1 DEF CalmJob, Active, AfterCommit, Open
  <2> QED BY <2>1, <2>2
<1> QED BY <1>1 DEF CalmInv

\* The matches of the table stay, and so does what a job has still to write.
LEMMA MatchesStayCalm ==
  ASSUME NEW j \in Jobs, \A m \in MatchKeys : CalmMatch(m), db' = db,
         \A i \in Jobs \ {j} : task'[i].pc = task[i].pc /\ task'[i].verified = task[i].verified,
         AfterCommit(task[j]) => AfterCommit(task'[j]) /\ task'[j].verified = task[j].verified
  PROVE  \A m \in MatchKeys' : CalmMatch(m)'
<1> SUFFICES ASSUME NEW m \in MatchKeys' PROVE CalmMatch(m)'
  OBVIOUS
<1>1. CalmMatch(m)
  BY DEF MatchKeys
<1>2. CASE Agrees(m)
  BY <1>2 DEF CalmMatch, Agrees
<1>3. CASE \E i \in Jobs : AfterCommit(task[i]) /\ task[i].verified = m[2]
  <2>1. PICK i \in Jobs : AfterCommit(task[i]) /\ task[i].verified = m[2]
    BY <1>3
  <2>2. AfterCommit(task'[i]) /\ task'[i].verified = m[2]
    BY <2>1 DEF AfterCommit
  <2> QED BY <2>2 DEF CalmMatch, AfterCommit
<1> QED BY <1>1, <1>2, <1>3 DEF CalmMatch

LEMMA CalmStatement ==
  ASSUME NEW j \in Jobs, NEW t, NEW u, NEW written, JobInv(j, t), CalmJob(t), Ran(t, u, written),
         NEW h, h = Head(t.todo), \A k \in written : ~IsRow(k, "match"),
         t.similar => KeepsPlace(t, u) /\ h # "match" /\ h # "oldMatch"
  PROVE  CalmJob(u)'
<1>1. OpenInv(t) /\ Open(t) /\ Active(t)
  BY DEF Ran, JobInv, Active, Open
<1>2. /\ Open(u) /\ ~AfterCommit(u)
      /\ \A s : Has(u, s) => Has(t, s)
      /\ \A s : Has(t, s) => Has(u, s) \/ s = h
  BY <1>1, RanFacts
<1>3. /\ u.similar = t.similar /\ u.verdict = t.verdict /\ u.level = t.level /\ db' = db
      /\ DOMAIN u.writes = DOMAIN t.writes \cup written
      /\ \A k \in DOMAIN t.writes \ written : u.writes[k] = t.writes[k]
  BY DEF Ran, KeepsMost
<1>4. SameLevel(u.verdict, u.level)
  BY <1>1, <1>3 DEF CalmJob
<1>5. ASSUME u.similar
      PROVE  /\ ~Has(u, "oldMatch") /\ Has(u, "match") => (u.found <=> Match(u.verified) \in DOMAIN db')
             /\ ~Has(u, "match") =>
                  \/ Written(u, Match(u.verified)) /\ u.writes[Match(u.verified)].level = u.level
                  \/ Match(u.verified) \notin DOMAIN db' /\ ~Written(u, Match(u.verified))
  <2>1. u.verified = t.verified /\ u.found = t.found /\ h # "match" /\ h # "oldMatch" /\ t.similar
    BY <1>3, <1>5 DEF KeepsPlace
  <2>2. PICK k : k = Match(t.verified)
    OBVIOUS
  <2>3. IsRow(k, "match")
    BY <2>2, KeyParts DEF IsRow
  <2>4. k \notin written
    BY <2>3
  <2>5. /\ k \in DOMAIN u.writes <=> k \in DOMAIN t.writes
        /\ k \in DOMAIN t.writes => u.writes[k] = t.writes[k]
    BY <1>3, <2>4
  <2>6. /\ ~Has(t, "oldMatch") /\ Has(t, "match") => (t.found <=> k \in DOMAIN db)
        /\ ~Has(t, "match") =>
                  \/ k \in DOMAIN t.writes /\ t.writes[k].level = t.level
                  \/ k \notin DOMAIN db /\ k \notin DOMAIN t.writes
    BY <1>1, <2>1, <2>2 DEF CalmJob, Present, Written
  <2>7. (Has(u, "oldMatch") <=> Has(t, "oldMatch")) /\ (Has(u, "match") <=> Has(t, "match"))
    BY <1>2, <2>1
  <2> QED BY <1>3, <2>1, <2>2, <2>5, <2>6, <2>7 DEF Written
<1> QED BY <1>2, <1>4, <1>5 DEF CalmJob, Present

LEMMA CalmRead ==
  ASSUME NEW j \in Jobs, NEW t, NEW u, JobInv(j, t), CalmJob(t), Ran(t, u, {}),
         Head(t.todo) = "oldMatch", u.verified = t.verified,
         u.found = (Match(t.verified) \in DOMAIN db)
  PROVE  CalmJob(u)'
<1>1. OpenInv(t) /\ Open(t) /\ Active(t)
  BY DEF Ran, JobInv, Active, Open
<1>2. /\ Open(u) /\ ~AfterCommit(u)
      /\ \A s : Has(t, s) => Has(u, s) \/ s = "oldMatch"
  BY <1>1, RanFacts
<1>3. /\ u.similar = t.similar /\ u.verdict = t.verdict /\ u.level = t.level /\ db' = db
      /\ DOMAIN u.writes = DOMAIN t.writes
      /\ \A k \in DOMAIN t.writes : u.writes[k] = t.writes[k]
  BY DEF Ran, KeepsMost
<1>4. SameLevel(u.verdict, u.level)
  BY <1>1, <1>3 DEF CalmJob
<1>5. ASSUME u.similar, ~Has(u, "match")
      PROVE  \/ Written(u, Match(u.verified)) /\ u.writes[Match(u.verified)].level = u.level
             \/ Match(u.verified) \notin DOMAIN db' /\ ~Written(u, Match(u.verified))
  <2>1. ~Has(t, "match") /\ t.similar
    BY <1>2, <1>3, <1>5
  <2>2. \/ Written(t, Match(t.verified)) /\ t.writes[Match(t.verified)].level = t.level
        \/ Match(t.verified) \notin DOMAIN db /\ ~Written(t, Match(t.verified))
    BY <1>1, <2>1 DEF CalmJob, Present
  <2> QED BY <1>3, <2>2 DEF Written
<1> QED BY <1>2, <1>3, <1>4, <1>5 DEF CalmJob, Present

LEMMA CalmWrite ==
  ASSUME NEW j \in Jobs, NEW t, NEW u, NEW written, JobInv(j, t), CalmJob(t), Ran(t, u, written),
         Head(t.todo) = "match", u.verified = t.verified, NEW k, k = Match(t.verified),
         \/ written = {k} /\ u.writes[k].level = t.level
         \/ t.found /\ k \notin DOMAIN db
  PROVE  CalmJob(u)'
<1>1. OpenInv(t) /\ Open(t) /\ Active(t)
  BY DEF Ran, JobInv, Active, Open
<1>2. /\ Open(u) /\ ~AfterCommit(u) /\ Has(t, "match")
      /\ \A s : Rank("match") > 0 /\ Rank(s) > 0 /\ Rank(s) <= Rank("match") => ~Has(u, s)
      /\ \A s : Has(t, s) => Has(u, s) \/ s = "match"
  BY <1>1, RanFacts
<1>3. ~Has(u, "match") /\ ~Has(t, "oldMatch")
  <2>1. ~Has(u, "match") /\ ~Has(u, "oldMatch")
    BY <1>2, RanksAre
  <2> QED BY <1>2, <2>1
<1>4. t.similar
  BY <1>1, <1>2 DEF JobInv, StoreInv
<1>5. /\ u.verdict = t.verdict /\ u.level = t.level
      /\ DOMAIN u.writes = DOMAIN t.writes \cup written
  BY DEF Ran, KeepsMost
<1>6. written = {k} /\ u.writes[k].level = u.level
  <2>1. t.found <=> k \in DOMAIN db
    BY <1>1, <1>2, <1>3, <1>4 DEF CalmJob, Present
  <2> QED BY <1>5, <2>1
<1>7. SameLevel(u.verdict, u.level)
  BY <1>1, <1>5 DEF CalmJob
<1> QED BY <1>2, <1>3, <1>5, <1>6, <1>7 DEF CalmJob, Written

\* A call that has not ended has no reason to end yet.
LEMMA NoReasonYet ==
  ASSUME LockInv, WhyInv, NEW j \in Jobs, Active(task[j]) \/ task[j].pc = "new"
  PROVE  task[j].why = "none"
<1>1. CASE task[j].pc = "new"
  BY <1>1, NewTaskFields DEF LockInv
<1> QED BY <1>1 DEF WhyInv

\* What the effects of the steps leave of the calls before.
LEMMA OneMovesOn ==
  ASSUME LockInv, WhyInv, NEW j \in Jobs, Active(task[j]) \/ task[j].pc = "new",
         \A i \in Jobs \ {j} : task'[i] = task[i],
         task'[j].raced = task[j].raced,
         Active(task'[j]) => task'[j].why = "none"
  PROVE  Onward /\ WhyInv'
<1>1. task[j].why = "none"
  BY NoReasonYet
<1>2. Onward
  BY <1>1 DEF Onward
<1>3. ASSUME NEW i \in Jobs, Active(task'[i]) PROVE task'[i].why = "none"
  BY <1>3 DEF WhyInv
<1> QED BY <1>2, <1>3 DEF WhyInv, Active

LEMMA StartMovesOn ==
  ASSUME LockInv, WhyInv, NEW j \in Jobs, NEW t, Starts(j, t)
  PROVE  /\ Onward /\ WhyInv'
         /\ Calm' => \A i \in Jobs : ~Active(task[i])
<1>1. task[j].why = "none" /\ task[j].raced = FALSE /\ ~Active(task[j])
  BY NewTaskFields DEF LockInv, Starts, Active
<1>2. ASSUME NEW i \in Jobs \ {j}
      PROVE  /\ task'[i].raced = (task[i].raced \/ Active(task[i]))
             /\ task'[i].why = task[i].why /\ task'[i].pc = task[i].pc
  BY DEF Starts
<1>3. Onward
  <2> SUFFICES ASSUME NEW i \in Jobs
               PROVE  /\ task[i].raced => task'[i].raced
                      /\ task'[i].why = task[i].why \/ task[i].why = "none"
    BY DEF Onward
  <2>1. CASE i = j
    BY <1>1, <2>1
  <2>2. CASE i # j
    BY <1>2, <2>2
  <2> QED BY <2>1, <2>2
<1>4. ASSUME NEW i \in Jobs, Active(task'[i]) PROVE task'[i].why = "none"
  <2>1. CASE i = j
    BY <2>1 DEF Starts
  <2>2. CASE i # j
    BY <1>2, <1>4, <2>2 DEF WhyInv, Active
  <2> QED BY <2>1, <2>2
<1>5. ASSUME Calm', NEW i \in Jobs PROVE ~Active(task[i])
  <2>1. CASE i = j
    BY <1>1, <2>1
  <2>2. CASE i # j
    <3>1. ~task'[i].raced
      BY <1>5 DEF Calm
    <3> QED BY <1>2, <2>2, <3>1
  <2> QED BY <2>1, <2>2
<1> QED BY <1>3, <1>4, <1>5 DEF WhyInv, Active

LEMMA CalmAborts ==
  ASSUME LockInv, CalmInv, NEW j \in Jobs, NEW why, Aborts(j, why),
         \/ Active(task[j]) /\ why \in {"taken", "fault"}
         \/ Open(task[j]) \/ task[j].pc = "new"
  PROVE  CalmInv'
<1>1. Active(task[j]) \/ task[j].pc = "new"
  BY DEF Active, Open
<1>2. /\ \A i \in Jobs \ {j} : task'[i] = task[i]
      /\ task'[j].raced = task[j].raced /\ task'[j].pc = "failed" /\ task'[j].why = why
      /\ task'[j].verified = task[j].verified /\ db' = db
  BY DEF Aborts, Keeps, KeepsPlace
<1>3. ~Active(task'[j]) /\ ~AfterCommit(task'[j]) /\ ~Open(task'[j])
  BY <1>2 DEF Active, AfterCommit, Open
<1>4. Onward /\ WhyInv'
  BY <1>1, <1>2, <1>3, OneMovesOn DEF CalmInv
<1>5. ASSUME Calm'
      PROVE  /\ \A m \in MatchKeys' : CalmMatch(m)'
             /\ \A i \in Jobs : CalmJob(task[i])'
  <2>1. /\ \A m \in MatchKeys : CalmMatch(m)
        /\ \A i \in Jobs : CalmJob(task[i])
    BY <1>4, <1>5, CalmBefore DEF CalmInv
  <2>2. ~AfterCommit(task[j])
    <3>1. why \notin {"taken", "fault"}
      BY <1>2, <1>5 DEF Calm
    <3> QED BY <3>1 DEF AfterCommit, Open
  <2>3. \A m \in MatchKeys' : CalmMatch(m)'
    BY <1>2, <2>1, <2>2, MatchesStayCalm
  <2>4. ASSUME NEW i \in Jobs PROVE CalmJob(task[i])'
    <3>1. CASE i = j
      BY <1>3, <3>1 DEF CalmJob
    <3>2. CASE i # j
      <4>1. task'[i] = task[i]
        BY <1>2, <3>2
      <4>2. CalmJob(task[i])
        BY <2>1
      <4> QED BY <1>2, <4>1, <4>2 DEF CalmJob, Present, Has, Written, Active, AfterCommit, Open
    <3> QED BY <3>1, <3>2
  <2> QED BY <2>3, <2>4
<1> QED BY <1>4, <1>5 DEF CalmInv

\* A statement in a transaction, in calm: the task stays calm, and with it all.
LEMMA CalmExecutes ==
  ASSUME LockInv, SoloInv, CalmInv, NEW j \in Jobs, NEW rows, NEW written,
         Executes(j, rows, written),
         Calm /\ CalmJob(task[j]) => CalmJob(task[j])'
  PROVE  CalmInv'
<1>1. /\ Open(task[j]) /\ Active(task[j]) /\ ~AfterCommit(task[j])
      /\ \A i \in Jobs \ {j} : task'[i] = task[i]
      /\ task'[j].raced = task[j].raced /\ task'[j].why = task[j].why /\ db' = db
  BY DEF Executes, KeepsMost, Active, AfterCommit, Open
<1>2. task[j].why = "none"
  BY <1>1, NoReasonYet DEF CalmInv
<1>3. Onward /\ WhyInv'
  BY <1>1, <1>2, OneMovesOn DEF CalmInv
<1>4. CASE Calm'
  <2>1. Calm
    BY <1>3, <1>4, CalmBefore
  <2>2. Alone(j)
    BY <1>1, <2>1, CalmIsAlone
  <2>3. \A m \in MatchKeys' : CalmMatch(m)'
    BY <1>1, <2>1, MatchesStayCalm DEF CalmInv
  <2>4. CalmJob(task[j])'
    BY <2>1 DEF CalmInv
  <2> QED BY <1>1, <1>3, <2>2, <2>3, <2>4, CalmSettles
<1> QED BY <1>3, <1>4 DEF CalmInv

LEMMA CalmOther ==
  ASSUME NEW j \in Jobs, JobInv(j, task[j]), NEW rows, NEW written, Executes(j, rows, written),
         \A k \in written : ~IsRow(k, "match"),
         task[j].similar => /\ KeepsPlace(task[j], task'[j])
                            /\ Head(task[j].todo) # "match" /\ Head(task[j].todo) # "oldMatch",
         CalmJob(task[j])
  PROVE  CalmJob(task[j])'
<1>1. PICK t, u, h : t = task[j] /\ u = task'[j] /\ h = Head(t.todo)
  OBVIOUS
<1>2. CASE t.similar
  <2>1. Open(t) /\ t.todo # <<>>
    BY <1>1 DEF Executes
  <2>2. h # "onCreation"
    BY <1>1, <1>2, <2>1, NoCopy DEF Touched
  <2>3. /\ Ran(t, u, written) /\ JobInv(j, t) /\ CalmJob(t)
        /\ KeepsPlace(t, u) /\ h # "match" /\ h # "oldMatch"
    BY <1>1, <1>2, <2>2, ExecutesRan
  <2>4. CalmJob(u)'
    BY <1>1, <2>3, CalmStatement
  <2> QED BY <1>1, <2>4
<1>3. CASE ~t.similar
  <2>1. /\ Open(t) /\ u.pc = t.pc /\ u.similar = t.similar
        /\ u.verdict = t.verdict /\ u.level = t.level
    BY <1>1 DEF Executes, KeepsMost
  <2>2. CalmJob(u)'
    BY <1>1, <1>3, <2>1 DEF CalmJob, Open, Active, AfterCommit
  <2> QED BY <1>1, <2>2
<1> QED BY <1>2, <1>3

\* The statements of both kinds of transaction.
LEMMA CalmPlain ==
  ASSUME LockInv, NEW j \in Jobs, JobInv(j, task[j]),
         InsertDeployment(j) \/ InsertVerified(j)
  PROVE  \/ \E rows, written : /\ Executes(j, rows, written)
                               /\ CalmJob(task[j]) => CalmJob(task[j])'
         \/ \E why : Aborts(j, why) /\ Open(task[j])
<1>1. /\ Open(task[j]) /\ task[j].todo # <<>> /\ Head(task[j].todo) \in {"deployment", "verified"}
      /\ \/ Executes(j, NextRows(j), DOMAIN NextRows(j)) /\ KeepsPlace(task[j], task'[j])
         \/ \E why : Aborts(j, why)
  BY InsertDeploymentEffect, InsertVerifiedEffect
<1>2. \A k \in DOMAIN NextRows(j) : ~IsRow(k, "match")
  BY <1>1, NoMatchRows
<1>3. ASSUME Executes(j, NextRows(j), DOMAIN NextRows(j)), KeepsPlace(task[j], task'[j]),
             CalmJob(task[j])
      PROVE  CalmJob(task[j])'
  <2>1. Head(task[j].todo) # "match" /\ Head(task[j].todo) # "oldMatch"
    BY <1>1
  <2> QED BY <1>2, <1>3, <2>1, CalmOther
<1> QED BY <1>1, <1>3

\* Those that only a store has.
LEMMA CalmStore ==
  ASSUME LockInv, NEW j \in Jobs, JobInv(j, task[j]), Touch(j) \/ AddFiles(j) \/ InsertCompiled(j)
  PROVE  \/ \E rows, written : /\ Executes(j, rows, written)
                               /\ CalmJob(task[j]) => CalmJob(task[j])'
         \/ \E why : Aborts(j, why) /\ Open(task[j])
<1>1. /\ Open(task[j]) /\ task[j].todo # <<>>
      /\ Head(task[j].todo) \in Touched \cup {"compiled", "files"}
      /\ \/ \E written \in SUBSET DOMAIN NextRows(j) : Executes(j, NextRows(j), written)
         \/ \E why : Aborts(j, why)
  <2>1. CASE Touch(j)
    BY <2>1, TouchEffect
  <2>2. CASE AddFiles(j)
    BY <2>2, AddFilesEffect
  <2>3. CASE InsertCompiled(j)
    BY <2>3, InsertCompiledEffect
  <2> QED BY <2>1, <2>2, <2>3
<1>2. \A k \in DOMAIN NextRows(j) : ~IsRow(k, "match")
  BY <1>1, NoMatchRows
<1>3. ~task[j].similar
  BY <1>1, NoCopy
<1>4. ASSUME NEW written \in SUBSET DOMAIN NextRows(j), Executes(j, NextRows(j), written),
             CalmJob(task[j])
      PROVE  CalmJob(task[j])'
  <2>1. \A k \in written : ~IsRow(k, "match")
    BY <1>2, <1>4
  <2> QED BY <1>3, <1>4, <2>1, CalmOther
<1> QED BY <1>1, <1>4

LEMMA CalmReadOld ==
  ASSUME LockInv, NEW j \in Jobs, JobInv(j, task[j]), ReadOldMatch(j)
  PROVE  \E rows, written : /\ Executes(j, rows, written)
                            /\ CalmJob(task[j]) => CalmJob(task[j])'
<1>1. /\ Head(task[j].todo) = "oldMatch" /\ Executes(j, <<>>, {})
      /\ task'[j].verified = task[j].verified
      /\ task'[j].found = (Match(task[j].verified) \in DOMAIN db)
  BY ReadOldMatchEffect
<1>2. ASSUME CalmJob(task[j]) PROVE CalmJob(task[j])'
  <2>1. PICK t, u : t = task[j] /\ u = task'[j]
    OBVIOUS
  <2>2. /\ Ran(t, u, {}) /\ JobInv(j, t) /\ CalmJob(t) /\ Head(t.todo) = "oldMatch"
        /\ u.verified = t.verified /\ u.found = (Match(t.verified) \in DOMAIN db)
    BY <1>1, <1>2, <2>1, ExecutesRan
  <2>3. CalmJob(u)'
    BY <2>2, CalmRead
  <2> QED BY <2>1, <2>3
<1> QED BY <1>1, <1>2

LEMMA CalmWriteMatch ==
  ASSUME LockInv, TableInv, NEW j \in Jobs, JobInv(j, task[j]), WriteMatch(j)
  PROVE  \/ \E rows, written : /\ Executes(j, rows, written)
                               /\ CalmJob(task[j]) => CalmJob(task[j])'
         \/ \E why : Aborts(j, why) /\ Open(task[j])
<1>1. PICK t, u, k, row : /\ t = task[j] /\ u = task'[j] /\ k = Match(t.verified)
                          /\ row = [db[k] EXCEPT !.level = t.level]
  OBVIOUS
<1>2. /\ Open(t) /\ t.todo # <<>> /\ Head(t.todo) = "match"
      /\ \/ /\ t.found /\ k \in DOMAIN db
            /\ Executes(j, OneRow(k, row), {k}) /\ KeepsPlace(t, u)
         \/ /\ t.found /\ k \notin DOMAIN db
            /\ Executes(j, <<>>, {}) /\ KeepsPlace(t, u)
         \/ Aborts(j, "taken")
         \/ Executes(j, NextRows(j), {k}) /\ KeepsPlace(t, u)
  BY <1>1, WriteMatchEffect DEF MatchOf
<1>3. ASSUME NEW written, NEW rows, Executes(j, rows, written), KeepsPlace(t, u), CalmJob(t),
             \/ written = {k} /\ u.writes[k].level = t.level
             \/ t.found /\ k \notin DOMAIN db
      PROVE  CalmJob(u)'
  <2>1. Ran(t, u, written) /\ JobInv(j, t) /\ u.verified = t.verified
    BY <1>1, <1>2, <1>3, ExecutesRan DEF KeepsPlace
  <2> QED BY <1>1, <1>2, <1>3, <2>1, CalmWrite
<1>4. ASSUME k \in DOMAIN db, Executes(j, OneRow(k, row), {k})
      PROVE  u.writes[k].level = t.level
  <2>1. u.writes[k] = OneRow(k, row)[k] /\ OneRow(k, row)[k] = row
    BY <1>1, <1>4, OneRowParts DEF Executes
  <2>2. k \in MatchKeys
    BY <1>1, <1>4, KeyParts DEF MatchKeys, IsRow
  <2>3. db[k] = [id |-> db[k].id, level |-> db[k].level]
    BY <2>2 DEF TableInv, IsMatch
  <2>4. row.level = t.level
    BY <1>1, <2>3, SetLevel
  <2> QED BY <2>1, <2>4
<1>5. ASSUME Executes(j, NextRows(j), {k}) PROVE u.writes[k].level = t.level
  <2>1. NextRows(j)[k] = [id |-> lastId + 1, level |-> t.level]
    BY <1>1, <1>2, NextMatch
  <2>2. u.writes[k] = NextRows(j)[k]
    BY <1>1, <1>5 DEF Executes
  <2> QED BY <2>1, <2>2
<1>6. CASE t.found /\ k \in DOMAIN db /\ Executes(j, OneRow(k, row), {k}) /\ KeepsPlace(t, u)
  BY <1>1, <1>3, <1>4, <1>6
<1>7. CASE t.found /\ k \notin DOMAIN db /\ Executes(j, <<>>, {}) /\ KeepsPlace(t, u)
  BY <1>1, <1>3, <1>7
<1>8. CASE Executes(j, NextRows(j), {k}) /\ KeepsPlace(t, u)
  BY <1>1, <1>3, <1>5, <1>8
<1> QED BY <1>1, <1>2, <1>6, <1>7, <1>8

LEMMA CalmCommits ==
  ASSUME LockInv, DbInv, SoloInv, CalmInv, NEW j \in Jobs, JobInv(j, task[j]),
         Commits(j, NextStep(j), "none")
  PROVE  CalmInv'
<1>1. PICK t, u : t = task[j] /\ u = task'[j]
  OBVIOUS
<1>2. /\ Open(t) /\ t.todo = <<>> /\ Active(t) /\ ~AfterCommit(t)
      /\ \A i \in Jobs \ {j} : task'[i] = task[i]
      /\ u.raced = t.raced /\ u.why = "none" /\ ~Open(u)
      /\ u.verified = t.verified /\ u.verdict = t.verdict /\ u.level = t.level
      /\ ~t.similar => AfterCommit(u)
      /\ DOMAIN db' = DOMAIN t.writes \cup DOMAIN db
      /\ \A k \in DOMAIN t.writes : db'[k] = t.writes[k]
      /\ \A k \in DOMAIN db \ DOMAIN t.writes : db'[k] = db[k]
  BY <1>1 DEF Commits, Keeps, KeepsPlace, NextStep, Open, Active, AfterCommit
<1>3. Onward /\ WhyInv'
  BY <1>1, <1>2, OneMovesOn DEF CalmInv
<1>4. /\ \A k \in DOMAIN t.writes : WriteOK(t, k)
      /\ t.verified \in DOMAIN t.writes /\ IsRow(t.verified, "verified")
      /\ ~Has(t, "match")
  <2>1. /\ \A k \in DOMAIN t.writes : WriteOK(t, k)
        /\ Written(t, t.verified) /\ t.verified = Verified(t.comp, t.export.address)
    BY <1>1, <1>2, AllDone
  <2>2. ~Has(t, "match")
    BY <1>2 DEF Has
  <2> QED BY <2>1, <2>2, KeyParts DEF Written, IsRow
<1>5. \A k \in DOMAIN t.writes : IsRow(k, "verified") => k = t.verified /\ t.writes[k] = t.verdict
  BY <1>4 DEF WriteOK
<1>6. CASE Calm'
  <2>1. Calm
    BY <1>3, <1>6, CalmBefore
  <2>2. Alone(j)
    BY <1>1, <1>2, <2>1, CalmIsAlone
  <2>3. CalmJob(t) /\ \A m \in MatchKeys : CalmMatch(m)
    BY <1>1, <2>1 DEF CalmInv
  <2>4. db'[t.verified] = t.verdict
    BY <1>2, <1>4, <1>5
  <2>5. CalmJob(task[j])'
    <3>1. SameLevel(u.verdict, u.level)
      BY <1>2, <2>3 DEF CalmJob
    <3>2. CalmJob(u)'
      BY <1>2, <2>4, <3>1 DEF CalmJob
    <3> QED BY <1>1, <3>2
  <2>6. ASSUME NEW m \in MatchKeys' PROVE CalmMatch(m)'
    <3>1. IsRow(m, "match") /\ m \in DOMAIN db'
      BY <2>6 DEF MatchKeys
    <3>2. CASE m \in DOMAIN t.writes
      <4>1. m = Match(t.verified)
        BY <1>4, <3>1, <3>2 DEF WriteOK
      <4>2. t.similar
        BY <1>4, <3>1, <3>2 DEF WriteOK
      <4>3. t.writes[m].level = t.level
        BY <1>2, <1>4, <2>3, <3>2, <4>1, <4>2 DEF CalmJob, Written
      <4>4. m[2] = t.verified
        BY <4>1, KeyParts
      <4>5. SameLevel(db'[m[2]], db'[m].level)
        BY <1>2, <2>3, <2>4, <3>2, <4>3, <4>4 DEF CalmJob
      <4> QED BY <4>5 DEF CalmMatch, Agrees
    <3>3. CASE m \notin DOMAIN t.writes
      <4>1. m \in MatchKeys /\ db'[m] = db[m]
        BY <1>2, <3>1, <3>3 DEF MatchKeys
      <4>2. m = Match(m[2]) /\ m[2] \in DOMAIN db /\ IsRow(m[2], "verified")
        BY <4>1 DEF DbInv, MatchKeys, Present
      <4>3. Agrees(m)
        <5>1. CalmMatch(m)
          BY <2>3, <4>1
        <5>2. \A i \in Jobs : ~AfterCommit(task[i])
          BY <1>1, <1>2, <2>2 DEF Alone, AfterCommit, Active
        <5> QED BY <5>1, <5>2 DEF CalmMatch
      <4>4. CASE m[2] \in DOMAIN t.writes
        <5>1. m[2] = t.verified
          BY <1>5, <4>2, <4>4
        <5>2. ~t.similar
          <6>1. ~Written(t, Match(t.verified)) /\ Present(Match(t.verified))
            BY <3>3, <4>1, <4>2, <5>1 DEF Written, Present, MatchKeys
          <6> QED BY <1>2, <1>4, <2>3, <6>1 DEF CalmJob
        <5>3. AfterCommit(u) /\ u.verified = m[2]
          BY <1>2, <5>1, <5>2
        <5>4. AfterCommit(task[j])' /\ task'[j].verified = m[2]
          BY <1>1, <5>3
        <5> QED BY <5>4 DEF CalmMatch
      <4>5. CASE m[2] \notin DOMAIN t.writes
        <5>1. db'[m[2]] = db[m[2]]
          BY <1>2, <4>2, <4>5
        <5>2. SameLevel(db'[m[2]], db'[m].level)
          BY <4>1, <4>3, <5>1 DEF Agrees
        <5> QED BY <5>2 DEF CalmMatch, Agrees
      <4> QED BY <4>4, <4>5
    <3> QED BY <3>2, <3>3
  <2>7. \A i \in Jobs \ {j} : task'[i].pc = task[i].pc
    BY <1>2
  <2> QED BY <1>3, <2>2, <2>5, <2>6, <2>7, CalmSettles
<1> QED BY <1>3, <1>6 DEF CalmInv

\* The match of the job is set, for a new verified contract or another.
LEMMA CalmSets ==
  ASSUME LockInv, DbInv, SoloInv, CalmInv, NEW j \in Jobs, JobInv(j, task[j]),
         AfterCommit(task[j]), Turns(j, "stored"),
         NEW from, NEW to, IsRow(from, "match"), to = Match(task[j].verified),
         DOMAIN db' \subseteq (DOMAIN db \ {from}) \cup {to},
         db'[to].level = task[j].level,
         \A k \in DOMAIN db \ {from, to} : db'[k] = db[k]
  PROVE  CalmInv'
<1>1. PICK t, u : t = task[j] /\ u = task'[j]
  OBVIOUS
<1>2. /\ Active(t) /\ ~Open(u) /\ ~Active(u) /\ ~AfterCommit(u)
      /\ \A i \in Jobs \ {j} : task'[i] = task[i]
      /\ u.raced = t.raced
  BY <1>1 DEF Turns, Keeps, AfterCommit, Active, Open
<1>3. Onward /\ WhyInv'
  BY <1>1, <1>2, OneMovesOn DEF CalmInv
<1>4. t.verified \in DOMAIN db /\ IsRow(t.verified, "verified")
  BY <1>1 DEF JobInv, Present
<1>5. CASE Calm'
  <2>1. Calm
    BY <1>3, <1>5, CalmBefore
  <2>2. Alone(j)
    BY <1>1, <1>2, <2>1, CalmIsAlone
  <2>3. CalmJob(t) /\ \A m \in MatchKeys : CalmMatch(m)
    BY <1>1, <2>1 DEF CalmInv
  <2>4. IsRow(to, "match") /\ to[2] = t.verified
    BY <1>1, KeyParts DEF IsRow
  <2>5. ASSUME NEW v \in DOMAIN db, IsRow(v, "verified") PROVE db'[v] = db[v]
    BY <2>4, <2>5 DEF IsRow
  <2>6. CalmJob(task[j])'
    BY <1>1, <1>2 DEF CalmJob
  <2>7. ASSUME NEW m \in MatchKeys' PROVE CalmMatch(m)'
    <3>1. CASE m = to
      <4>1. db'[m[2]] = t.verdict
        BY <1>1, <1>4, <2>3, <2>4, <2>5, <3>1 DEF CalmJob
      <4>2. SameLevel(db'[m[2]], db'[m].level)
        BY <1>1, <1>2, <2>3, <3>1, <4>1 DEF CalmJob
      <4> QED BY <4>2 DEF CalmMatch, Agrees
    <3>2. CASE m # to
      <4>1. m \in MatchKeys /\ db'[m] = db[m]
        BY <2>7, <3>2 DEF MatchKeys
      <4>2. m = Match(m[2]) /\ m[2] \in DOMAIN db /\ IsRow(m[2], "verified")
        BY <4>1 DEF DbInv, MatchKeys, Present
      <4>3. Agrees(m)
        <5>1. CalmMatch(m)
          BY <2>3, <4>1
        <5>2. ASSUME NEW i \in Jobs, AfterCommit(task[i]) PROVE task[i].verified # m[2]
          <6>1. i = j
            BY <2>2, <5>2 DEF Alone, AfterCommit, Active
          <6> QED BY <1>1, <3>2, <4>2, <6>1
        <5> QED BY <5>1, <5>2 DEF CalmMatch
      <4>4. SameLevel(db'[m[2]], db'[m].level)
        BY <2>5, <4>1, <4>2, <4>3 DEF Agrees
      <4> QED BY <4>4 DEF CalmMatch, Agrees
    <3> QED BY <3>1, <3>2
  <2>8. \A i \in Jobs \ {j} : task'[i].pc = task[i].pc
    BY <1>2
  <2> QED BY <1>3, <2>2, <2>6, <2>7, <2>8, CalmSettles
<1> QED BY <1>3, <1>5 DEF CalmInv

LEMMA CalmTurns ==
  ASSUME LockInv, SoloInv, CalmInv, NEW j \in Jobs, AfterCommit(task[j]),
         Turns(j, "insertMatch"), db' = db
  PROVE  CalmInv'
<1>1. PICK t, u : t = task[j] /\ u = task'[j]
  OBVIOUS
<1>2. /\ Active(t) /\ ~Open(u) /\ AfterCommit(u)
      /\ \A i \in Jobs \ {j} : task'[i] = task[i]
      /\ u.raced = t.raced /\ u.why = t.why
      /\ u.verified = t.verified /\ u.verdict = t.verdict /\ u.level = t.level
  BY <1>1 DEF Turns, Keeps, KeepsPlace, AfterCommit, Active, Open
<1>3. t.why = "none"
  BY <1>1, <1>2, NoReasonYet DEF CalmInv
<1>4. Onward /\ WhyInv'
  BY <1>1, <1>2, <1>3, OneMovesOn DEF CalmInv
<1>5. CASE Calm'
  <2>1. Calm
    BY <1>4, <1>5, CalmBefore
  <2>2. Alone(j)
    BY <1>1, <1>2, <2>1, CalmIsAlone
  <2>3. CalmJob(t) /\ \A m \in MatchKeys : CalmMatch(m)
    BY <1>1, <2>1 DEF CalmInv
  <2>4. AfterCommit(task'[j]) /\ task'[j].verified = task[j].verified
    BY <1>1, <1>2
  <2>5. \A m \in MatchKeys' : CalmMatch(m)'
    BY <1>2, <2>3, <2>4, MatchesStayCalm
  <2>6. CalmJob(u)'
    BY <1>1, <1>2, <2>3 DEF CalmJob
  <2>7. CalmJob(task[j])'
    BY <1>1, <2>6
  <2>8. \A i \in Jobs \ {j} : task'[i].pc = task[i].pc
    BY <1>2
  <2> QED BY <1>4, <2>2, <2>5, <2>7, <2>8, CalmSettles
<1> QED BY <1>4, <1>5 DEF CalmInv

LEMMA CalmUpdate ==
  ASSUME LockInv, DbInv, TableInv, SoloInv, CalmInv, NEW j \in Jobs, JobInv(j, task[j]),
         UpdateMatch(j) \/ InsertMatch(j)
  PROVE  CalmInv'
<1>1. AfterCommit(task[j]) /\ Active(task[j])
  BY UpdateMatchEffect, InsertMatchEffect DEF AfterCommit, Active
<1>2. \/ Turns(j, "insertMatch") /\ db' = db
      \/ Aborts(j, "taken")
      \/ Moves(j) \/ Inserts(j)
  BY UpdateMatchEffect, InsertMatchEffect
<1>3. CASE Moves(j)
  <2> DEFINE from == Match(task[j].old)
             to == Match(task[j].verified)
  <2>1. /\ from \in DOMAIN db /\ Turns(j, "stored")
        /\ DOMAIN db' = (DOMAIN db \ {from}) \cup {to}
        /\ db'[to] = [db[from] EXCEPT !.level = task[j].level]
        /\ \A k \in DOMAIN db \ {from, to} : db'[k] = db[k]
    BY <1>3 DEF Moves, MatchOf
  <2>2. IsRow(from, "match")
    BY KeyParts DEF IsRow
  <2>3. db[from] = [id |-> db[from].id, level |-> db[from].level]
    BY <2>1, <2>2 DEF TableInv, IsMatch, MatchKeys
  <2>4. db'[to].level = task[j].level
    BY <2>1, <2>3, SetLevel
  <2> HIDE DEF from, to
  <2> QED BY <1>1, <2>1, <2>2, <2>4, CalmSets DEF to
<1>4. CASE Inserts(j)
  <2> DEFINE to == Match(task[j].verified)
  <2>1. /\ to \notin DOMAIN db /\ Turns(j, "stored")
        /\ DOMAIN db' = DOMAIN db \cup {to}
        /\ db'[to] = [id |-> lastId + 1, level |-> task[j].level]
        /\ \A k \in DOMAIN db : db'[k] = db[k]
    BY <1>4 DEF Inserts, MatchOf
  <2>2. IsRow(to, "match")
    BY KeyParts DEF IsRow
  <2>3. db'[to].level = task[j].level
    BY <2>1
  <2> HIDE DEF to
  <2> QED BY <1>1, <2>1, <2>2, <2>3, CalmSets DEF to
<1> QED BY <1>1, <1>2, <1>3, <1>4, CalmTurns, CalmAborts

LEMMA CalmStarts ==
  ASSUME LockInv, CalmInv, NEW j \in Jobs,
         \/ \E e \in Exports : StoreStarts(j, e)
         \/ \E a \in Addresses : SimilarStarts(j, a)
  PROVE  CalmInv'
<1>1. PICK u : u = task'[j]
  OBVIOUS
<1>2. Starts(j, u) /\ u.pc = "transaction" /\ db' = db
  BY <1>1 DEF StoreStarts, SimilarStarts, Starts
<1>3. Onward /\ WhyInv' /\ (Calm' => \A i \in Jobs : ~Active(task[i]))
  <2>1. WhyInv
    BY DEF CalmInv
  <2> QED BY <1>2, <2>1, StartMovesOn
<1>4. CASE Calm'
  <2>1. \A i \in Jobs : ~Active(task[i]) /\ ~AfterCommit(task[i])
    BY <1>3, <1>4 DEF Active, AfterCommit
  <2>2. \A m \in MatchKeys : Agrees(m)
    <3>1. Calm
      BY <1>3, <1>4, CalmBefore
    <3> QED BY <2>1, <3>1 DEF CalmInv, CalmMatch
  <2>3. \A m \in MatchKeys' : CalmMatch(m)'
    BY <1>2, <2>2 DEF CalmMatch, Agrees, MatchKeys
  <2>4. SameLevel(u.verdict, u.level)
    <3>1. CASE \E e \in Exports : StoreStarts(j, e)
      BY <1>1, <3>1 DEF StoreStarts, SameLevel, Verdict, Level
    <3>2. CASE \E a \in Addresses : SimilarStarts(j, a)
      <4>1. PICK v : /\ Match(v) \in DOMAIN db
                     /\ u.verdict = db[v] /\ u.level = db[Match(v)].level
        BY <1>1, <3>2 DEF SimilarStarts
      <4>2. Match(v) \in MatchKeys /\ Match(v)[2] = v
        BY <4>1, KeyParts DEF MatchKeys, IsRow
      <4> QED BY <2>2, <4>1, <4>2 DEF Agrees
    <3> QED BY <3>1, <3>2
  <2>5. u.similar => Has(u, "oldMatch") /\ Has(u, "match")
    <3>1. u.similar => u.todo = SimilarStatements
      BY <1>1 DEF StoreStarts, SimilarStarts
    <3>2. CASE u.similar
      <4>1. PICK q : q = SimilarStatements
        OBVIOUS
      <4>2. \A s : (\E i \in 1..Len(q) : q[i] = s) <=> s \in {"deployment", "verified", "oldMatch", "match"}
        BY <4>1, FourStatements
      <4>3. u.todo = q
        BY <3>1, <3>2, <4>1
      <4>4. /\ \E i \in 1..Len(q) : q[i] = "oldMatch"
            /\ \E i \in 1..Len(q) : q[i] = "match"
        BY <4>2
      <4>5. Has(u, "oldMatch") /\ Has(u, "match")
        BY <4>3, <4>4 DEF Has
      <4> QED BY <4>5
    <3> QED BY <3>2
  <2>6. ~AfterCommit(u)
    BY <1>2 DEF AfterCommit
  <2>7. CalmJob(u)'
    BY <2>4, <2>5, <2>6 DEF CalmJob
  <2>8. CalmJob(task[j])'
    BY <1>1, <2>7
  <2>9. Alone(j) /\ \A i \in Jobs \ {j} : task'[i].pc = task[i].pc
    BY <1>2, <2>1 DEF Alone, Starts
  <2> QED BY <1>3, <2>3, <2>8, <2>9, CalmSettles
<1> QED BY <1>3, <1>4 DEF CalmInv

LEMMA CalmInit == Init => CalmInv
<1> SUFFICES ASSUME Init PROVE CalmInv
  OBVIOUS
<1>1. MatchKeys = {}
  BY DEF Init, MatchKeys
<1>2. \A j \in Jobs : task[j] = NewTask
  BY DEF Init
<1>3. \A j \in Jobs : ~Active(task[j]) /\ ~AfterCommit(task[j]) /\ ~Open(task[j])
  BY <1>2, NewTaskFields DEF Active, AfterCommit, Open
<1> QED BY <1>1, <1>3 DEF CalmInv, WhyInv, CalmJob

LEMMA CalmStays == CalmInv /\ UNCHANGED vars => CalmInv'
<1> SUFFICES ASSUME CalmInv, db' = db, task' = task PROVE CalmInv'
  BY DEF vars
<1>1. WhyInv' /\ (Calm' => Calm)
  BY DEF CalmInv, WhyInv, Active, Calm
<1>2. ASSUME Calm', NEW m \in MatchKeys' PROVE CalmMatch(m)'
  <2>1. CalmMatch(m)
    BY <1>1, <1>2 DEF CalmInv, MatchKeys
  <2> QED BY <2>1 DEF CalmMatch, Agrees, AfterCommit
<1>3. ASSUME Calm', NEW j \in Jobs PROVE CalmJob(task[j])'
  <2>1. CalmJob(task[j])
    BY <1>1, <1>3 DEF CalmInv
  <2> QED BY <2>1 DEF CalmJob, Has, Written, Present, Active, AfterCommit, Open
<1> QED BY <1>1, <1>2, <1>3 DEF CalmInv

LEMMA CalmNext ==
  DataInv /\ TableInv /\ SoloInv /\ CalmInv /\ [Next]_vars => CalmInv'
<1> SUFFICES ASSUME DataInv, TableInv, SoloInv, CalmInv, [Next]_vars PROVE CalmInv'
  OBVIOUS
<1>1. LockInv /\ DbInv /\ TaskInv
  BY DEF DataInv
<1>2. CASE UNCHANGED vars
  BY <1>2, CalmStays
<1>3. ASSUME NEW j \in Jobs,
             \/ \E e \in Exports : BeginStore(j, e)
             \/ \E a \in Addresses : BeginSimilar(j, a)
             \/ Step(j) \/ LoseConnection(j) \/ Deadlock(j)
      PROVE  CalmInv'
  <2>1. JobInv(j, task[j])
    BY <1>1 DEF TaskInv
  <2>2. ASSUME NEW e \in Exports, BeginStore(j, e) PROVE CalmInv'
    BY <1>1, <2>2, BeginStoreEffect, CalmAborts, CalmStarts
  <2>3. ASSUME NEW a \in Addresses, BeginSimilar(j, a) PROVE CalmInv'
    BY <1>1, <2>3, BeginSimilarEffect, CalmAborts, CalmStarts
  <2>4. CASE Commit(j)
    <3>1. Commits(j, NextStep(j), "none")
      BY <1>1, <2>4, CommittedEffect DEF Commit
    <3> QED BY <1>1, <2>1, <3>1, CalmCommits
  <2>5. CASE LoseConnection(j)
    <3>1. Aborts(j, "fault") \/ Commits(j, "failed", "fault")
      BY <1>1, <2>5, LoseConnectionEffect
    <3>2. CASE Aborts(j, "fault")
      <4>1. Open(task[j])
        BY <1>1, <2>5, LoseConnectionEffect
      <4> QED BY <1>1, <3>2, <4>1, CalmAborts
    <3>3. CASE Commits(j, "failed", "fault")
      <4>1. /\ Active(task[j]) /\ task'[j].why = "fault" /\ ~Active(task'[j])
            /\ \A i \in Jobs \ {j} : task'[i] = task[i]
            /\ task'[j].raced = task[j].raced
        BY <3>3 DEF Commits, Keeps, Active, Open
      <4>2. WhyInv'
        BY <1>1, <4>1, OneMovesOn DEF CalmInv
      <4>3. ~Calm'
        BY <4>1 DEF Calm
      <4> QED BY <4>2, <4>3 DEF CalmInv
    <3> QED BY <3>1, <3>2, <3>3
  <2>6. CASE Deadlock(j)
    <3>1. Open(task[j]) /\ Aborts(j, "deadlock")
      BY <1>1, <2>6, DeadlockEffect
    <3> QED BY <1>1, <3>1, CalmAborts
  <2>7. CASE UpdateMatch(j) \/ InsertMatch(j)
    BY <1>1, <2>1, <2>7, CalmUpdate
  <2>8. CASE Touch(j) \/ AddFiles(j) \/ InsertCompiled(j) \/ InsertDeployment(j)
               \/ InsertVerified(j) \/ ReadOldMatch(j) \/ WriteMatch(j)
    <3>1. \/ \E rows, written : /\ Executes(j, rows, written)
                                /\ CalmJob(task[j]) => CalmJob(task[j])'
          \/ \E why : Aborts(j, why) /\ Open(task[j])
      BY <1>1, <2>1, <2>8, CalmStore, CalmPlain, CalmReadOld, CalmWriteMatch
    <3> QED BY <1>1, <3>1, CalmExecutes, CalmAborts
  <2>9. CASE LacksRow(j)
    <3>1. Open(task[j]) /\ Aborts(j, "missing")
      BY <1>1, <2>9, LacksRowEffect
    <3> QED BY <1>1, <3>1, CalmAborts
  <2> QED BY <1>3, <2>2, <2>3, <2>4, <2>5, <2>6, <2>7, <2>8, <2>9 DEF Step
<1>4. CASE Next
  <2>1. CASE Finished
    BY <1>2, <2>1 DEF Finished
  <2>2. CASE ~Finished
    BY <1>3, <1>4, <2>2 DEF Next
  <2> QED BY <2>1, <2>2
<1> QED BY <1>2, <1>4

\* When no two stores overlapped and none failed, verified_contracts and
\* sourcify_matches say the same of every match, although StoreBase writes the
\* one in the transaction and the other, for all but copies, after it.
THEOREM CalmLevelsAgree == Spec => []LevelsAgree
<1>1. Init => CalmInv /\ SoloInv
  BY CalmInit, SoloInit
<1>2. DataInv /\ TableInv /\ CalmInv /\ SoloInv /\ [Next]_vars => (CalmInv /\ SoloInv)'
  BY CalmNext, SoloNext DEF DataInv
<1>3. CalmInv => LevelsAgree
  <2> SUFFICES ASSUME CalmInv, Quiet, NEW m \in MatchKeys PROVE Agrees(m)
    BY DEF LevelsAgree, Agrees, SameLevel
  <2>1. Calm /\ \A i \in Jobs : ~AfterCommit(task[i])
    BY DEF Quiet, Calm, AfterCommit, Active
  <2> QED BY <2>1 DEF CalmInv, CalmMatch
<1> QED BY <1>1, <1>2, <1>3, IdsHold, PTL DEF Spec
-----------------------------------------------------------------------------
(* The matches are a MatchTable *)

MatchRowOf(v, row) == [record |-> v, level |-> row.level]

IsMap(f) == f = [x \in DOMAIN f |-> f[x]]

SeenOK ==
  /\ IsMap(SeenRows)
  /\ \A i : i \in DOMAIN SeenRows <=> \E m \in MatchKeys : db[m].id = i
  /\ \A m \in MatchKeys : SeenRows[db[m].id] = MatchRowOf(m[2], db[m])

PendingOK ==
  /\ IsMap(PendingRows)
  /\ \A i : i \in DOMAIN PendingRows <=> \E j \in Pending : PendingRow(j).id = i
  /\ \A j \in Pending : PendingRows[PendingRow(j).id] = MatchRowOf(task[j].verified, PendingRow(j))

LEMMA SameMap ==
  ASSUME NEW f, NEW g, IsMap(f), IsMap(g), \A x : x \in DOMAIN f <=> x \in DOMAIN g,
         \A x \in DOMAIN f : f[x] = g[x]
  PROVE  f = g
<1>1. DOMAIN f = DOMAIN g
  OBVIOUS
<1>2. [x \in DOMAIN f |-> f[x]] = [x \in DOMAIN g |-> g[x]]
  BY <1>1
<1> QED BY <1>2 DEF IsMap

LEMMA SeenAre == TableInv => SeenOK
<1> SUFFICES ASSUME TableInv PROVE SeenOK
  OBVIOUS
<1> DEFINE Key(i) == CHOOSE k \in MatchKeys : db[k].id = i
           Ids == {db[k].id : k \in MatchKeys}
<1>1. SeenRows = [i \in Ids |-> MatchRow(Key(i), db[Key(i)])]
  BY DEF SeenRows
<1>2. ASSUME NEW m \in MatchKeys PROVE Key(db[m].id) = m
  <2>1. \E k \in MatchKeys : db[k].id = db[m].id
    OBVIOUS
  <2>2. Key(db[m].id) \in MatchKeys /\ db[Key(db[m].id)].id = db[m].id
    BY <2>1
  <2> HIDE DEF Key
  <2> QED BY <2>2 DEF TableInv
<1>3. \A i : i \in Ids <=> \E m \in MatchKeys : db[m].id = i
  OBVIOUS
<1> HIDE DEF Key, Ids
<1>4. DOMAIN SeenRows = Ids /\ IsMap(SeenRows)
  BY <1>1 DEF IsMap
<1>5. ASSUME NEW m \in MatchKeys PROVE SeenRows[db[m].id] = MatchRowOf(m[2], db[m])
  <2>1. SeenRows[db[m].id] = MatchRow(m, db[m])
    BY <1>1, <1>2, <1>3
  <2> QED BY <2>1 DEF MatchRow, MatchRowOf
<1> QED BY <1>3, <1>4, <1>5 DEF SeenOK

LEMMA PendingAre == TableInv => PendingOK
<1> SUFFICES ASSUME TableInv PROVE PendingOK
  OBVIOUS
<1> DEFINE Job(i) == CHOOSE j \in Pending : PendingRow(j).id = i
           Ids == {PendingRow(j).id : j \in Pending}
<1>1. PendingRows = [i \in Ids |-> MatchRow(MatchOf(Job(i)), PendingRow(Job(i)))]
  BY DEF PendingRows
<1>2. ASSUME NEW j \in Pending, NEW i \in Pending, PendingRow(i).id = PendingRow(j).id
      PROVE  i = j
  <2>1. /\ i \in Jobs /\ j \in Jobs
        /\ MatchOf(i) \in DOMAIN task[i].writes /\ MatchOf(j) \in DOMAIN task[j].writes
        /\ IsRow(MatchOf(i), "match") /\ IsRow(MatchOf(j), "match")
    BY KeyParts DEF Pending, MatchOf, IsRow
  <2>2. OwnId(j, MatchOf(j))
    BY <2>1 DEF TableInv
  <2> QED BY <1>2, <2>1, <2>2 DEF OwnId, PendingRow
<1>3. ASSUME NEW j \in Pending PROVE Job(PendingRow(j).id) = j
  <2>1. \E k \in Pending : PendingRow(k).id = PendingRow(j).id
    OBVIOUS
  <2>2. Job(PendingRow(j).id) \in Pending
        /\ PendingRow(Job(PendingRow(j).id)).id = PendingRow(j).id
    BY <2>1
  <2> HIDE DEF Job
  <2> QED BY <1>2, <2>2
<1>4. \A i : i \in Ids <=> \E j \in Pending : PendingRow(j).id = i
  OBVIOUS
<1> HIDE DEF Job, Ids
<1>5. DOMAIN PendingRows = Ids /\ IsMap(PendingRows)
  BY <1>1 DEF IsMap
<1>6. ASSUME NEW j \in Pending
      PROVE  PendingRows[PendingRow(j).id] = MatchRowOf(task[j].verified, PendingRow(j))
  <2>1. PendingRows[PendingRow(j).id] = MatchRow(MatchOf(j), PendingRow(j))
    BY <1>1, <1>3, <1>4
  <2>2. MatchOf(j)[2] = task[j].verified
    BY KeyParts DEF MatchOf
  <2> QED BY <2>1, <2>2 DEF MatchRow, MatchRowOf
<1> QED BY <1>4, <1>5, <1>6 DEF PendingOK

LEMMA MapsAre == TableInv => SeenOK /\ PendingOK
BY SeenAre, PendingAre

LEMMA MapsAreNext == TableInv' => SeenOK' /\ PendingOK'
BY MapsAre, PTL

\* What is written to the map of a table's rows.
LEMMA WithParts ==
  ASSUME NEW f, NEW i, NEW row, NEW g, g = Table!With(f, i, row)
  PROVE  /\ IsMap(g) /\ \A x : x \in DOMAIN g <=> x = i \/ x \in DOMAIN f
         /\ g[i] = row /\ \A x \in DOMAIN f : x # i => g[x] = f[x]
BY DEF Table!With, IsMap

LEMMA WithoutParts ==
  ASSUME NEW f, NEW i, NEW g, g = Table!Without(f, i)
  PROVE  /\ IsMap(g) /\ \A x : x \in DOMAIN g <=> x # i /\ x \in DOMAIN f
         /\ \A x \in DOMAIN f : x # i => g[x] = f[x]
BY DEF Table!Without, Table!Restrict, IsMap

LEMMA ExceptIsWith ==
  ASSUME NEW f, IsMap(f), NEW i \in DOMAIN f, NEW row
  PROVE  [f EXCEPT ![i] = row] = Table!With(f, i, row)
<1>1. PICK g, h : g = Table!With(f, i, row) /\ h = [f EXCEPT ![i] = row]
  OBVIOUS
<1>2. /\ IsMap(g) /\ \A x : x \in DOMAIN g <=> x = i \/ x \in DOMAIN f
      /\ g[i] = row /\ \A x \in DOMAIN f : x # i => g[x] = f[x]
  BY <1>1, WithParts
<1>3. /\ IsMap(h) /\ \A x : x \in DOMAIN h <=> x \in DOMAIN f
      /\ h[i] = row /\ \A x \in DOMAIN f : x # i => h[x] = f[x]
  BY <1>1 DEF IsMap
<1>4. \A x : x \in DOMAIN g <=> x \in DOMAIN h
  BY <1>2, <1>3
<1>5. ASSUME NEW x \in DOMAIN g PROVE g[x] = h[x]
  BY <1>2, <1>3
<1> QED BY <1>1, <1>2, <1>3, <1>4, <1>5, SameMap

LEMMA SeenSame ==
  ASSUME SeenOK, SeenOK', MatchKeys' = MatchKeys, \A m \in MatchKeys : db'[m] = db[m]
  PROVE  SeenRows' = SeenRows
<1>1. PICK f, g : f = SeenRows /\ g = SeenRows'
  OBVIOUS
<1>2. /\ IsMap(f) /\ IsMap(g)
      /\ \A i : i \in DOMAIN f <=> \E m \in MatchKeys : db[m].id = i
      /\ \A i : i \in DOMAIN g <=> \E m \in MatchKeys : db[m].id = i
      /\ \A m \in MatchKeys : f[db[m].id] = MatchRowOf(m[2], db[m])
      /\ \A m \in MatchKeys : g[db[m].id] = MatchRowOf(m[2], db[m])
  BY <1>1 DEF SeenOK, IsMap, MatchRowOf
<1>3. \A x : x \in DOMAIN f <=> x \in DOMAIN g
  BY <1>2
<1>4. \A x \in DOMAIN f : f[x] = g[x]
  BY <1>2
<1> QED BY <1>1, <1>2, <1>3, <1>4, SameMap

\* One row is new, or stands where another stood with its id.
LEMMA SeenSet ==
  ASSUME SeenOK, SeenOK', NEW i, NEW to \in MatchKeys', db'[to].id = i, NEW from,
         \A m : m \in MatchKeys' <=> m = to \/ (m \in MatchKeys /\ m # from),
         \A m \in MatchKeys : m \in {from, to} => db[m].id = i,
         \A m \in MatchKeys \ {from, to} : db'[m] = db[m] /\ db[m].id # i
  PROVE  SeenRows' = Table!With(SeenRows, i, MatchRowOf(to[2], db'[to]))
<1>1. PICK f, g, h, row : /\ f = SeenRows /\ g = SeenRows' /\ row = MatchRowOf(to[2], db'[to])
                          /\ h = Table!With(f, i, row)
  OBVIOUS
<1>2. /\ IsMap(f) /\ IsMap(g)
      /\ \A x : x \in DOMAIN f <=> \E m \in MatchKeys : db[m].id = x
      /\ \A x : x \in DOMAIN g <=> \E m \in MatchKeys' : db'[m].id = x
      /\ \A m \in MatchKeys : f[db[m].id] = MatchRowOf(m[2], db[m])
      /\ \A m \in MatchKeys' : g[db'[m].id] = MatchRowOf(m[2], db'[m])
  <2>1. /\ IsMap(f)
        /\ \A x : x \in DOMAIN f <=> \E m \in MatchKeys : db[m].id = x
        /\ \A m \in MatchKeys : f[db[m].id] = MatchRowOf(m[2], db[m])
    BY <1>1 DEF SeenOK
  <2>2. IsMap(g) /\ \A x : x \in DOMAIN g <=> \E m \in MatchKeys' : db'[m].id = x
    BY <1>1 DEF SeenOK, IsMap
  <2>3. \A m \in MatchKeys' : g[db'[m].id] = MatchRowOf(m[2], db'[m])
    BY <1>1 DEF SeenOK, MatchRowOf
  <2> QED BY <2>1, <2>2, <2>3
<1>3. /\ IsMap(h) /\ \A x : x \in DOMAIN h <=> x = i \/ x \in DOMAIN f
      /\ h[i] = row /\ \A x \in DOMAIN f : x # i => h[x] = f[x]
  BY <1>1, WithParts
<1>4. ASSUME NEW x \in DOMAIN g PROVE x \in DOMAIN h /\ g[x] = h[x]
  <2>1. PICK m \in MatchKeys' : db'[m].id = x
    BY <1>2
  <2>2. CASE m = to
    BY <1>1, <1>2, <1>3, <2>1, <2>2
  <2>3. CASE m # to
    <3>1. m \in MatchKeys \ {from, to}
      BY <2>3
    <3>2. db'[m] = db[m] /\ db[m].id # i
      BY <3>1
    <3> QED BY <1>2, <1>3, <2>1, <3>1, <3>2
  <2> QED BY <2>2, <2>3
<1>5. ASSUME NEW x \in DOMAIN h PROVE x \in DOMAIN g
  <2>1. CASE x = i
    BY <1>2, <2>1
  <2>2. CASE x # i
    <3>1. PICK m \in MatchKeys : db[m].id = x
      BY <1>2, <1>3, <2>2
    <3>2. m \in MatchKeys' /\ db'[m] = db[m]
      BY <2>2, <3>1
    <3> QED BY <1>2, <3>1, <3>2
  <2> QED BY <2>1, <2>2
<1>6. \A x : x \in DOMAIN g <=> x \in DOMAIN h
  BY <1>4, <1>5
<1>7. \A x \in DOMAIN g : g[x] = h[x]
  BY <1>4
<1>8. g = h
  BY <1>2, <1>3, <1>6, <1>7, SameMap
<1> QED BY <1>1, <1>8

LEMMA PendingSame ==
  ASSUME PendingOK, PendingOK', \A i : i \in Pending' <=> i \in Pending,
         \A i \in Pending : /\ task'[i].verified = task[i].verified
                            /\ PendingRow(i)' = PendingRow(i)
  PROVE  PendingRows' = PendingRows
<1>1. PICK f, g : f = PendingRows /\ g = PendingRows'
  OBVIOUS
<1>2. Pending' = Pending
  OBVIOUS
<1>3. /\ IsMap(f) /\ IsMap(g)
      /\ \A x : x \in DOMAIN f <=> \E j \in Pending : PendingRow(j).id = x
      /\ \A x : x \in DOMAIN g <=> \E j \in Pending : PendingRow(j).id = x
      /\ \A j \in Pending : f[PendingRow(j).id] = MatchRowOf(task[j].verified, PendingRow(j))
      /\ \A j \in Pending : g[PendingRow(j).id] = MatchRowOf(task[j].verified, PendingRow(j))
  <2>1. /\ IsMap(f)
        /\ \A x : x \in DOMAIN f <=> \E j \in Pending : PendingRow(j).id = x
        /\ \A j \in Pending : f[PendingRow(j).id] = MatchRowOf(task[j].verified, PendingRow(j))
    BY <1>1 DEF PendingOK
  <2>2. /\ IsMap(g)
        /\ \A x : x \in DOMAIN g <=> \E j \in Pending' : PendingRow(j)'.id = x
        /\ \A j \in Pending' : g[PendingRow(j)'.id] = MatchRowOf(task'[j].verified, PendingRow(j)')
    BY <1>1 DEF PendingOK, IsMap, MatchRowOf
  <2>3. \A x : x \in DOMAIN g <=> \E j \in Pending : PendingRow(j).id = x
    BY <1>2, <2>2
  <2>4. \A j \in Pending : g[PendingRow(j).id] = MatchRowOf(task[j].verified, PendingRow(j))
    BY <1>2, <2>2
  <2> QED BY <2>1, <2>2, <2>3, <2>4
<1>4. \A x : x \in DOMAIN f <=> x \in DOMAIN g
  BY <1>3
<1>5. \A x \in DOMAIN f : f[x] = g[x]
  BY <1>3
<1> QED BY <1>1, <1>3, <1>4, <1>5, SameMap

\* The row of j is written, with an id of its own.
LEMMA PendingAdd ==
  ASSUME PendingOK, PendingOK', NEW j, \A i : i \in Pending' <=> i = j \/ i \in Pending, j \notin Pending,
         \A i \in Pending : /\ task'[i].verified = task[i].verified
                            /\ PendingRow(i)' = PendingRow(i)
                            /\ PendingRow(i).id # PendingRow(j)'.id
  PROVE  PendingRows' = Table!With(PendingRows, PendingRow(j)'.id,
                                   MatchRowOf(task'[j].verified, PendingRow(j)'))
<1>1. PICK f, g, r, row, h : /\ f = PendingRows /\ g = PendingRows' /\ r = PendingRow(j)'
                             /\ row = MatchRowOf(task'[j].verified, r)
                             /\ h = Table!With(f, r.id, row)
  OBVIOUS
<1>2. /\ IsMap(f)
      /\ \A x : x \in DOMAIN f <=> \E i \in Pending : PendingRow(i).id = x
      /\ \A i \in Pending : f[PendingRow(i).id] = MatchRowOf(task[i].verified, PendingRow(i))
  BY <1>1 DEF PendingOK
<1>3. /\ IsMap(g)
      /\ \A x : x \in DOMAIN g <=> \E i \in Pending' : PendingRow(i)'.id = x
      /\ \A i \in Pending' : g[PendingRow(i)'.id] = MatchRowOf(task'[i].verified, PendingRow(i)')
  BY <1>1 DEF PendingOK, IsMap, MatchRowOf
<1>4. /\ IsMap(h) /\ \A x : x \in DOMAIN h <=> x = r.id \/ x \in DOMAIN f
      /\ h[r.id] = row /\ \A x \in DOMAIN f : x # r.id => h[x] = f[x]
  BY <1>1, WithParts
<1>5. j \in Pending' /\ g[r.id] = row /\ r.id \in DOMAIN g
  BY <1>1, <1>3
<1>6. ASSUME NEW i \in Pending
      PROVE  /\ PendingRow(i).id \in DOMAIN g /\ PendingRow(i).id \in DOMAIN h
             /\ g[PendingRow(i).id] = h[PendingRow(i).id]
  <2>1. /\ i \in Pending' /\ task'[i].verified = task[i].verified
        /\ PendingRow(i)' = PendingRow(i) /\ PendingRow(i).id # r.id
    BY <1>1
  <2>2. /\ PendingRow(i).id \in DOMAIN g
        /\ g[PendingRow(i).id] = MatchRowOf(task[i].verified, PendingRow(i))
    BY <1>3, <2>1
  <2>3. /\ PendingRow(i).id \in DOMAIN f
        /\ f[PendingRow(i).id] = MatchRowOf(task[i].verified, PendingRow(i))
    BY <1>2
  <2> QED BY <1>4, <2>1, <2>2, <2>3
<1>7. ASSUME NEW x \in DOMAIN g PROVE x \in DOMAIN h /\ g[x] = h[x]
  <2>1. PICK i \in Pending' : PendingRow(i)'.id = x
    BY <1>3
  <2>2. CASE i = j
    BY <1>1, <1>4, <1>5, <2>1, <2>2
  <2>3. CASE i # j
    <3>1. i \in Pending /\ PendingRow(i)' = PendingRow(i)
      BY <2>3
    <3> QED BY <1>6, <2>1, <3>1
  <2> QED BY <2>2, <2>3
<1>8. ASSUME NEW x \in DOMAIN h PROVE x \in DOMAIN g
  BY <1>2, <1>4, <1>5, <1>6
<1>9. \A x : x \in DOMAIN g <=> x \in DOMAIN h
  BY <1>7, <1>8
<1>10. g = h
  BY <1>3, <1>4, <1>7, <1>9, SameMap
<1> QED BY <1>1, <1>10

\* The transaction of j ends.
LEMMA PendingDrop ==
  ASSUME PendingOK, PendingOK', NEW j \in Pending, \A i : i \in Pending' <=> i \in Pending /\ i # j,
         \A i \in Pending \ {j} : /\ task'[i].verified = task[i].verified
                                  /\ PendingRow(i)' = PendingRow(i)
                                  /\ PendingRow(i).id # PendingRow(j).id
  PROVE  PendingRows' = Table!Without(PendingRows, PendingRow(j).id)
<1>1. PICK f, g, r, h : /\ f = PendingRows /\ g = PendingRows' /\ r = PendingRow(j)
                        /\ h = Table!Without(f, r.id)
  OBVIOUS
<1>2. /\ IsMap(f)
      /\ \A x : x \in DOMAIN f <=> \E i \in Pending : PendingRow(i).id = x
      /\ \A i \in Pending : f[PendingRow(i).id] = MatchRowOf(task[i].verified, PendingRow(i))
  BY <1>1 DEF PendingOK
<1>3. /\ IsMap(g)
      /\ \A x : x \in DOMAIN g <=> \E i \in Pending' : PendingRow(i)'.id = x
      /\ \A i \in Pending' : g[PendingRow(i)'.id] = MatchRowOf(task'[i].verified, PendingRow(i)')
  BY <1>1 DEF PendingOK, IsMap, MatchRowOf
<1>4. /\ IsMap(h) /\ \A x : x \in DOMAIN h <=> x # r.id /\ x \in DOMAIN f
      /\ \A x \in DOMAIN f : x # r.id => h[x] = f[x]
  BY <1>1, WithoutParts
<1>5. ASSUME NEW i \in Pending \ {j}
      PROVE  /\ PendingRow(i).id \in DOMAIN g /\ PendingRow(i).id \in DOMAIN h
             /\ g[PendingRow(i).id] = h[PendingRow(i).id]
  <2>1. /\ i \in Pending' /\ task'[i].verified = task[i].verified
        /\ PendingRow(i)' = PendingRow(i) /\ PendingRow(i).id # r.id
    BY <1>1
  <2>2. /\ PendingRow(i).id \in DOMAIN g
        /\ g[PendingRow(i).id] = MatchRowOf(task[i].verified, PendingRow(i))
    BY <1>3, <2>1
  <2>3. /\ PendingRow(i).id \in DOMAIN f
        /\ f[PendingRow(i).id] = MatchRowOf(task[i].verified, PendingRow(i))
    BY <1>2
  <2> QED BY <1>4, <2>1, <2>2, <2>3
<1>6. ASSUME NEW x \in DOMAIN g PROVE x \in DOMAIN h /\ g[x] = h[x]
  <2>1. PICK i \in Pending' : PendingRow(i)'.id = x
    BY <1>3
  <2>2. i \in Pending \ {j} /\ PendingRow(i)' = PendingRow(i)
    OBVIOUS
  <2> QED BY <1>5, <2>1, <2>2
<1>7. ASSUME NEW x \in DOMAIN h PROVE x \in DOMAIN g
  <2>1. PICK i \in Pending : PendingRow(i).id = x
    BY <1>2, <1>4
  <2>2. i # j
    BY <1>1, <1>4, <2>1
  <2> QED BY <1>5, <2>1, <2>2
<1>8. \A x : x \in DOMAIN g <=> x \in DOMAIN h
  BY <1>6, <1>7
<1>9. g = h
  BY <1>3, <1>4, <1>6, <1>8, SameMap
<1> QED BY <1>1, <1>9

TableStep == Table!TableNext \/ UNCHANGED <<SeenRows, PendingRows, lastId>>

LEMMA VerifiedIsRecord ==
  ASSUME DbInv, NEW comp, comp \in DOMAIN db, IsRow(comp, "compiled"), NEW a \in Addresses
  PROVE  Verified(comp, a) \in Records
<1>1. PICK e \in Exports : Compiled(e) = comp
  BY DEF DbInv, Whole
<1> QED BY <1>1 DEF Records

LEMMA RowIsRecord ==
  ASSUME DbInv, NEW v \in DOMAIN db, IsRow(v, "verified")
  PROVE  v \in Records
<1>1. /\ v = Verified(v[2], v[3])
      /\ v[2] \in DOMAIN db /\ IsRow(v[2], "compiled") /\ v[3] \in Addresses
  BY DEF DbInv, Present
<1> QED BY <1>1, VerifiedIsRecord

LEMMA MatchParts ==
  ASSUME DbInv, NEW m \in MatchKeys
  PROVE  /\ m \in DOMAIN db /\ IsRow(m, "match") /\ m = Match(m[2])
         /\ m[2] \in DOMAIN db /\ IsRow(m[2], "verified")
BY DEF DbInv, MatchKeys, Present

LEMMA NotTaken ==
  ASSUME SeenOK, PendingOK, DbInv, NEW v, Match(v) \notin DOMAIN db,
         \A i \in Jobs : Match(v) \notin DOMAIN task[i].writes
  PROVE  ~Table!Taken(v)
<1>1. ASSUME NEW i \in DOMAIN SeenRows PROVE SeenRows[i].record # v
  <2>1. PICK m \in MatchKeys : db[m].id = i
    BY DEF SeenOK
  <2>2. SeenRows[i].record = m[2]
    <3>1. SeenRows[db[m].id] = MatchRowOf(m[2], db[m])
      BY DEF SeenOK
    <3> QED BY <2>1, <3>1 DEF MatchRowOf
  <2>3. m = Match(m[2]) /\ m \in DOMAIN db
    BY MatchParts
  <2> QED BY <2>2, <2>3
<1>2. ASSUME NEW i \in DOMAIN PendingRows PROVE PendingRows[i].record # v
  <2>1. PICK j \in Pending : PendingRow(j).id = i
    BY DEF PendingOK
  <2>2. PendingRows[i].record = task[j].verified
    <3>1. PendingRows[PendingRow(j).id] = MatchRowOf(task[j].verified, PendingRow(j))
      BY DEF PendingOK
    <3> QED BY <2>1, <3>1 DEF MatchRowOf
  <2>3. j \in Jobs /\ Match(task[j].verified) \in DOMAIN task[j].writes
    BY DEF Pending, MatchOf
  <2> QED BY <2>2, <2>3
<1> QED BY <1>1, <1>2 DEF Table!Taken

LEMMA PendingIdsDiffer ==
  ASSUME TableInv, NEW i \in Pending, NEW j \in Pending, i # j
  PROVE  PendingRow(i).id # PendingRow(j).id
<1>1. /\ i \in Jobs /\ j \in Jobs
      /\ MatchOf(i) \in DOMAIN task[i].writes /\ MatchOf(j) \in DOMAIN task[j].writes
      /\ IsRow(MatchOf(i), "match") /\ IsRow(MatchOf(j), "match")
  BY KeyParts DEF Pending, MatchOf, IsRow
<1>2. OwnId(j, MatchOf(j))
  BY <1>1 DEF TableInv
<1> QED BY <1>1, <1>2 DEF OwnId, PendingRow

\* The rows of the others, which the step of j leaves alone.
LEMMA PendingBeside ==
  ASSUME NEW j \in Jobs,
         \A i \in Jobs \ {j} : /\ task'[i].verified = task[i].verified
                               /\ task'[i].writes = task[i].writes
                               /\ MatchOf(i) \in DOMAIN task[i].writes =>
                                    (MatchOf(i) \in DOMAIN db' <=> MatchOf(i) \in DOMAIN db)
  PROVE  \A i : i # j => /\ i \in Pending' <=> i \in Pending
                         /\ i \in Pending => /\ task'[i].verified = task[i].verified
                                             /\ PendingRow(i)' = PendingRow(i)
<1> SUFFICES ASSUME NEW i \in Jobs \ {j}
             PROVE  /\ i \in Pending' <=> i \in Pending
                    /\ i \in Pending => /\ task'[i].verified = task[i].verified
                                        /\ PendingRow(i)' = PendingRow(i)
  BY DEF Pending
<1>1. MatchOf(i)' = MatchOf(i)
  BY DEF MatchOf
<1>2. i \in Pending <=> MatchOf(i) \in DOMAIN task[i].writes /\ MatchOf(i) \notin DOMAIN db
  BY DEF Pending
<1>3. i \in Pending' <=> MatchOf(i)' \in DOMAIN task'[i].writes /\ MatchOf(i)' \notin DOMAIN db'
  BY DEF Pending
<1>4. PendingRow(i)' = PendingRow(i)
  BY <1>1 DEF PendingRow
<1> QED BY <1>1, <1>2, <1>3, <1>4

\* The transaction of j has no match that is new.
LEMMA NothingWritten ==
  ASSUME NEW j
  PROVE  /\ DOMAIN task[j].writes = {} => j \notin Pending
         /\ DOMAIN task'[j].writes = {} => j \notin Pending'
BY DEF Pending

LEMMA TableStays ==
  ASSUME TableInv, TableInv', NEW j \in Jobs, db' = db, lastId' = lastId,
         \A i \in Jobs \ {j} : /\ task'[i].verified = task[i].verified
                               /\ task'[i].writes = task[i].writes,
         j \in Pending' <=> j \in Pending,
         j \in Pending => task'[j].verified = task[j].verified /\ PendingRow(j)' = PendingRow(j)
  PROVE  TableStep
<1>1. SeenOK /\ PendingOK /\ SeenOK' /\ PendingOK'
  BY MapsAre, MapsAreNext
<1>2. MatchKeys' = MatchKeys
  BY DEF MatchKeys
<1>3. SeenRows' = SeenRows
  BY <1>1, <1>2, SeenSame
<1>4. \A i : i # j => /\ i \in Pending' <=> i \in Pending
                      /\ i \in Pending => /\ task'[i].verified = task[i].verified
                                          /\ PendingRow(i)' = PendingRow(i)
  BY PendingBeside
<1>5. PendingRows' = PendingRows
  BY <1>1, <1>4, PendingSame
<1> QED BY <1>3, <1>5 DEF TableStep

LEMMA TableAborts ==
  ASSUME TableInv, TableInv', NEW j \in Jobs, NEW why, Aborts(j, why),
         lastId' = lastId \/ (lastId' = lastId + 1 /\ j \notin Pending)
  PROVE  TableStep
<1>1. SeenOK /\ PendingOK /\ SeenOK' /\ PendingOK'
  BY MapsAre, MapsAreNext
<1>2. /\ db' = db /\ \A i \in Jobs \ {j} : task'[i] = task[i]
      /\ task'[j].writes = <<>>
  BY DEF Aborts
<1>3. MatchKeys' = MatchKeys
  BY <1>2 DEF MatchKeys
<1>4. SeenRows' = SeenRows
  BY <1>1, <1>2, <1>3, SeenSame
<1>5. \A i : i # j => /\ i \in Pending' <=> i \in Pending
                      /\ i \in Pending => /\ task'[i].verified = task[i].verified
                                          /\ PendingRow(i)' = PendingRow(i)
  BY <1>2, PendingBeside
<1>6. j \notin Pending'
  BY <1>2, NothingWritten
<1>7. CASE j \in Pending
  <2>1. \A i : i \in Pending' <=> i \in Pending /\ i # j
    BY <1>5, <1>6
  <2>2. \A i \in Pending \ {j} : /\ task'[i].verified = task[i].verified
                                 /\ PendingRow(i)' = PendingRow(i)
                                 /\ PendingRow(i).id # PendingRow(j).id
    BY <1>5, <1>7, PendingIdsDiffer
  <2>3. PendingRows' = Table!Without(PendingRows, PendingRow(j).id)
    BY <1>1, <1>7, <2>1, <2>2, PendingDrop
  <2>4. PendingRow(j).id \in DOMAIN PendingRows /\ lastId' = lastId
    BY <1>1, <1>7 DEF PendingOK
  <2>5. Table!RollBackInsert(PendingRow(j).id)
    BY <1>4, <2>3, <2>4 DEF Table!RollBackInsert
  <2> QED BY <2>4, <2>5 DEF TableStep, Table!TableNext
<1>8. CASE j \notin Pending
  <2>1. PendingRows' = PendingRows
    BY <1>1, <1>5, <1>6, <1>8, PendingSame
  <2>2. CASE lastId' = lastId
    BY <1>4, <2>1, <2>2 DEF TableStep
  <2>3. CASE lastId' = lastId + 1
    <3>1. Table!LoseId
      BY <1>4, <2>1, <2>3 DEF Table!LoseId
    <3> QED BY <3>1 DEF TableStep, Table!TableNext
  <2> QED BY <2>2, <2>3
<1> QED BY <1>7, <1>8

LEMMA TableStarts ==
  ASSUME LockInv, TableInv, TableInv', NEW j \in Jobs, NEW t, Starts(j, t)
  PROVE  TableStep
<1>1. /\ db' = db /\ lastId' = lastId
      /\ \A i \in Jobs \ {j} : /\ task'[i].verified = task[i].verified
                               /\ task'[i].writes = task[i].writes
      /\ task'[j].writes = <<>> /\ task[j].pc = "new"
  BY DEF Starts, KeepsPlace
<1>2. task[j].writes = <<>>
  BY <1>1, NewTaskFields DEF LockInv
<1>3. j \notin Pending /\ j \notin Pending'
  BY <1>1, <1>2, NothingWritten
<1> QED BY <1>1, <1>3, TableStays

LEMMA TableTurns ==
  ASSUME LockInv, TableInv, TableInv', NEW j \in Jobs, AfterCommit(task[j]), NEW pc, Turns(j, pc),
         db' = db, lastId' = lastId
  PROVE  TableStep
<1>1. /\ \A i \in Jobs \ {j} : task'[i] = task[i]
      /\ task'[j].writes = task[j].writes
  BY DEF Turns
<1>2. DOMAIN task[j].writes = {}
  BY DEF LockInv, TypeOK, AfterCommit, Open
<1>3. j \notin Pending /\ j \notin Pending'
  BY <1>1, <1>2, NothingWritten
<1> QED BY <1>1, <1>3, TableStays

\* A copy keeps its verified contract to the end.
LEMMA CopiesKeep ==
  ASSUME LockInv, NEW j \in Jobs, JobInv(j, task[j]), task[j].similar,
         \/ Touch(j) \/ AddFiles(j) \/ InsertDeployment(j) \/ InsertCompiled(j)
         \/ InsertVerified(j) \/ LacksRow(j) \/ ReadOldMatch(j)
  PROVE  task'[j].verified = task[j].verified
<1>1. CASE Touch(j) \/ AddFiles(j) \/ InsertCompiled(j)
  <2>1. /\ Open(task[j]) /\ task[j].todo # <<>>
        /\ Head(task[j].todo) \in Touched \cup {"compiled", "files"}
    BY <1>1, TouchEffect, AddFilesEffect, InsertCompiledEffect
  <2> QED BY <2>1, NoCopy
<1>2. CASE InsertDeployment(j) \/ InsertVerified(j) \/ LacksRow(j) \/ ReadOldMatch(j)
  <2>1. \A why : Aborts(j, why) => task'[j].verified = task[j].verified
    BY DEF Aborts, KeepsPlace
  <2> QED BY <1>2, <2>1, InsertDeploymentEffect, InsertVerifiedEffect, LacksRowEffect,
     ReadOldMatchEffect DEF KeepsPlace
<1> QED BY <1>1, <1>2

LEMMA TableExecutes ==
  ASSUME TableInv, TableInv', NEW j \in Jobs, JobInv(j, task[j]), NEW rows, NEW written,
         Executes(j, rows, written), \A k \in written : ~IsRow(k, "match"),
         task[j].similar => task'[j].verified = task[j].verified, lastId' = lastId
  PROVE  TableStep
<1>1. PICK t, u : t = task[j] /\ u = task'[j]
  OBVIOUS
<1>2. /\ Open(t) /\ db' = db /\ \A i \in Jobs \ {j} : task'[i] = task[i]
      /\ DOMAIN u.writes = DOMAIN t.writes \cup written
      /\ \A k \in DOMAIN t.writes \ written : u.writes[k] = t.writes[k]
  BY <1>1 DEF Executes
<1>3. \A k \in DOMAIN t.writes : IsRow(k, "match") => t.similar /\ k = Match(t.verified)
  <2>1. \A k \in DOMAIN t.writes : WriteOK(t, k)
    BY <1>1, <1>2 DEF JobInv, OpenInv
  <2> QED BY <2>1 DEF WriteOK
<1>4. \A v : IsRow(Match(v), "match") /\ Match(v)[2] = v
  BY KeyParts DEF IsRow
<1>5. /\ j \in Pending <=> Match(t.verified) \in DOMAIN t.writes /\ Match(t.verified) \notin DOMAIN db
      /\ j \in Pending' <=> Match(u.verified) \in DOMAIN u.writes /\ Match(u.verified) \notin DOMAIN db
  BY <1>1, <1>2 DEF Pending, MatchOf
<1>6. ASSUME Match(t.verified) \in DOMAIN t.writes \/ Match(u.verified) \in DOMAIN u.writes
      PROVE  u.verified = t.verified
  <2>1. CASE Match(t.verified) \in DOMAIN t.writes
    BY <1>1, <1>3, <1>4, <2>1
  <2>2. CASE Match(u.verified) \in DOMAIN u.writes
    <3>1. Match(u.verified) \in DOMAIN t.writes
      BY <1>2, <1>4, <2>2
    <3> QED BY <1>1, <1>3, <1>4, <3>1
  <2> QED BY <1>6, <2>1, <2>2
<1>7. j \in Pending' <=> j \in Pending
  BY <1>2, <1>4, <1>5, <1>6
<1>8. ASSUME j \in Pending
      PROVE  task'[j].verified = task[j].verified /\ PendingRow(j)' = PendingRow(j)
  <2>1. u.verified = t.verified /\ Match(t.verified) \in DOMAIN t.writes
    BY <1>5, <1>6, <1>8
  <2>2. u.writes[Match(t.verified)] = t.writes[Match(t.verified)]
    BY <1>2, <1>4, <2>1
  <2> QED BY <1>1, <2>1, <2>2 DEF PendingRow, MatchOf
<1>9. \A i \in Jobs \ {j} : /\ task'[i].verified = task[i].verified
                            /\ task'[i].writes = task[i].writes
  BY <1>2
<1> QED BY <1>2, <1>7, <1>8, <1>9, TableStays

\* No other transaction has written the match, and not this one yet.
LEMMA MatchIsFree ==
  ASSUME LockInv, NEW j \in Jobs, NEW k, ~Locked(j, {k}), k \notin DOMAIN task[j].writes
  PROVE  \A i \in Jobs : k \notin DOMAIN task[i].writes
BY DEF LockInv, TypeOK, Locked

LEMMA MatchNotYet ==
  ASSUME NEW j \in Jobs, JobInv(j, task[j]), Open(task[j]), task[j].todo # <<>>,
         Head(task[j].todo) = "match"
  PROVE  /\ task[j].similar /\ SimilarInv(task[j])
         /\ \A k \in DOMAIN task[j].writes : ~IsRow(k, "match")
         /\ MatchOf(j) \notin DOMAIN task[j].writes /\ j \notin Pending
<1>1. PICK t : t = task[j]
  OBVIOUS
<1>2. JobInv(j, t) /\ Open(t) /\ Active(t) /\ t.todo # <<>> /\ OpenInv(t) /\ Head(t.todo) = "match"
  BY <1>1 DEF JobInv, Open, Active
<1>3. Has(t, "match")
  <2>1. PICK q : q = t.todo
    OBVIOUS
  <2>2. InOrder(q) /\ q # <<>> /\ Head(q) = "match"
    BY <1>2, <2>1 DEF OpenInv
  <2>3. \A s : (\E i \in 1..Len(q) : q[i] = s)
                 <=> s = Head(q) \/ \E i \in 1..Len(Tail(q)) : Tail(q)[i] = s
    BY <2>2, InOrderTail
  <2> QED BY <2>1, <2>2, <2>3 DEF Has
<1>4. t.similar /\ SimilarInv(t)
  BY <1>2, <1>3 DEF JobInv, StoreInv
<1>5. \A k \in DOMAIN t.writes : ~IsRow(k, "match")
  BY <1>2, <1>3 DEF OpenInv, WriteOK
<1>6. IsRow(MatchOf(j), "match")
  BY KeyParts DEF MatchOf, IsRow
<1> QED BY <1>1, <1>4, <1>5, <1>6 DEF Pending

LEMMA TableWrites ==
  ASSUME LockInv, DbInv, TableInv, TableInv', NEW j \in Jobs, JobInv(j, task[j]), WriteMatch(j)
  PROVE  TableStep
<1>1. PICK t, u, k, row : /\ t = task[j] /\ u = task'[j] /\ k = Match(t.verified) /\ k = MatchOf(j)
                          /\ row = [db[k] EXCEPT !.level = t.level]
  BY DEF MatchOf
<1>2. /\ Open(t) /\ t.todo # <<>> /\ Head(t.todo) = "match"
      /\ \/ /\ k \in DOMAIN db /\ lastId' = lastId
            /\ Executes(j, OneRow(k, row), {k}) /\ KeepsPlace(t, u)
         \/ Executes(j, <<>>, {}) /\ KeepsPlace(t, u) /\ lastId' = lastId
         \/ Aborts(j, "taken") /\ lastId' = lastId + 1
         \/ /\ k \notin DOMAIN db /\ lastId' = lastId + 1
            /\ Executes(j, NextRows(j), {k}) /\ KeepsPlace(t, u)
  BY <1>1, WriteMatchEffect
<1>3. t.similar /\ SimilarInv(t) /\ k \notin DOMAIN t.writes /\ j \notin Pending
  BY <1>1, <1>2, MatchNotYet
<1>4. CASE Executes(j, <<>>, {}) /\ KeepsPlace(t, u) /\ lastId' = lastId
  <2>1. u.verified = t.verified
    BY <1>4 DEF KeepsPlace
  <2> QED BY <1>1, <1>4, <2>1, TableExecutes
<1>5. CASE Aborts(j, "taken") /\ lastId' = lastId + 1
  BY <1>3, <1>5, TableAborts
<1>6. ASSUME NEW rows, Executes(j, rows, {k}), KeepsPlace(t, u)
      PROVE  /\ db' = db /\ \A i \in Jobs \ {j} : task'[i] = task[i]
             /\ DOMAIN u.writes = DOMAIN t.writes \cup {k} /\ u.writes[k] = rows[k]
             /\ u.verified = t.verified /\ MatchOf(j)' = k
             /\ k \in DOMAIN rows /\ ~Locked(j, DOMAIN rows)
  BY <1>1, <1>6 DEF Executes, KeepsPlace, MatchOf
<1>7. CASE k \in DOMAIN db /\ lastId' = lastId /\ Executes(j, OneRow(k, row), {k}) /\ KeepsPlace(t, u)
  <2>1. db' = db /\ MatchOf(j)' = k /\ \A i \in Jobs \ {j} : task'[i] = task[i]
    BY <1>6, <1>7
  <2>2. j \notin Pending'
    BY <1>7, <2>1 DEF Pending
  <2> QED BY <1>3, <1>7, <2>1, <2>2, TableStays
<1>8. CASE k \notin DOMAIN db /\ lastId' = lastId + 1 /\ Executes(j, NextRows(j), {k}) /\ KeepsPlace(t, u)
  <2>1. SeenOK /\ PendingOK /\ SeenOK' /\ PendingOK'
    BY MapsAre, MapsAreNext
  <2>2. /\ db' = db /\ \A i \in Jobs \ {j} : task'[i] = task[i]
        /\ k \in DOMAIN u.writes /\ u.writes[k] = NextRows(j)[k]
        /\ u.verified = t.verified /\ MatchOf(j)' = k
        /\ k \in DOMAIN NextRows(j) /\ ~Locked(j, DOMAIN NextRows(j))
    BY <1>6, <1>8
  <2>3. NextRows(j)[k] = [id |-> lastId + 1, level |-> t.level]
    BY <1>1, <1>2, NextMatch
  <2>4. PendingRow(j)' = [id |-> lastId + 1, level |-> t.level]
    BY <1>1, <2>2, <2>3 DEF PendingRow
  <2>5. j \in Pending'
    BY <1>1, <1>8, <2>2 DEF Pending
  <2>6. \A i : i # j => /\ i \in Pending' <=> i \in Pending
                        /\ i \in Pending => /\ task'[i].verified = task[i].verified
                                            /\ PendingRow(i)' = PendingRow(i)
    BY <2>2, PendingBeside
  <2>7. ASSUME NEW i \in Pending PROVE PendingRow(i).id # lastId + 1
    <3>1. i \in Jobs /\ MatchOf(i) \in DOMAIN task[i].writes /\ IsRow(MatchOf(i), "match")
      BY KeyParts DEF Pending, MatchOf, IsRow
    <3>2. PendingRow(i).id \in 1..lastId /\ lastId \in Nat
      BY <3>1 DEF TableInv, OwnId, IsMatch, PendingRow, LockInv, TypeOK
    <3> QED BY <3>2
  <2>8. \A i : i \in Pending' <=> i = j \/ i \in Pending
    BY <1>3, <2>5, <2>6
  <2>9. \A i \in Pending : /\ task'[i].verified = task[i].verified
                           /\ PendingRow(i)' = PendingRow(i)
                           /\ PendingRow(i).id # PendingRow(j)'.id
    BY <1>3, <2>4, <2>6, <2>7
  <2>10. PendingRows' = Table!With(PendingRows, lastId + 1, MatchRowOf(t.verified, PendingRow(j)'))
    <3>1. PendingRows' = Table!With(PendingRows, PendingRow(j)'.id,
                                   MatchRowOf(task'[j].verified, PendingRow(j)'))
      BY <1>3, <2>1, <2>8, <2>9, PendingAdd
    <3> QED BY <1>1, <2>2, <2>4, <3>1
  <2>11. MatchKeys' = MatchKeys
    BY <2>2 DEF MatchKeys
  <2>12. SeenRows' = SeenRows
    BY <2>1, <2>2, <2>11, SeenSame
  <2>13. PICK new : new = MatchRowOf(t.verified, PendingRow(j)')
    OBVIOUS
  <2>14. new = [record |-> t.verified, level |-> t.level]
    BY <2>4, <2>13 DEF MatchRowOf
  <2>15. t.verified \in Records /\ t.level \in MatchLevels
    <3>1. t.verified \in Records
      BY <1>3, VerifiedIsRecord DEF SimilarInv, Present
    <3> QED BY <1>1, <1>2, <3>1 DEF TableInv, Active, Open
  <2>16. new \in Table!Row
    BY <2>14, <2>15 DEF Table!Row, MatchLevels
  <2>17. ~Table!Taken(new.record)
    <3>1. ~Locked(j, {k})
      BY <2>2 DEF Locked
    <3>2. \A i \in Jobs : k \notin DOMAIN task[i].writes
      BY <1>1, <1>3, <3>1, MatchIsFree
    <3>3. ~Table!Taken(t.verified)
      BY <1>1, <1>8, <2>1, <3>2, NotTaken
    <3> QED BY <2>14, <3>3
  <2>18. Table!InsertPending(new)
    BY <1>8, <2>10, <2>12, <2>13, <2>17 DEF Table!InsertPending
  <2> QED BY <2>16, <2>18 DEF TableStep, Table!TableNext
<1> QED BY <1>2, <1>4, <1>5, <1>7, <1>8

\* The keys of what others have written are not those that j has locked.
LEMMA WritesApart ==
  ASSUME LockInv, NEW j \in Jobs, NEW i \in Jobs \ {j}, NEW k \in DOMAIN task[i].writes
  PROVE  k \notin DOMAIN task[j].writes /\ \A S : ~Locked(j, S) => k \notin S
BY DEF LockInv, TypeOK, Locked

LEMMA TableCommits ==
  ASSUME LockInv, DbInv, TableInv, TableInv', NEW j \in Jobs, JobInv(j, task[j]),
         NEW pc, NEW why, Commits(j, pc, why), lastId' = lastId
  PROVE  TableStep
<1>1. PICK t, u, k : t = task[j] /\ u = task'[j] /\ k = Match(t.verified) /\ k = MatchOf(j)
  BY DEF MatchOf
<1>2. /\ Open(t) /\ Active(t) /\ t.todo = <<>> /\ \A i \in Jobs \ {j} : task'[i] = task[i]
      /\ u.writes = <<>>
      /\ DOMAIN db' = DOMAIN t.writes \cup DOMAIN db
      /\ \A n \in DOMAIN t.writes : db'[n] = t.writes[n]
      /\ \A n \in DOMAIN db \ DOMAIN t.writes : db'[n] = db[n]
  BY <1>1 DEF Commits, Open, Active
<1>3. \A n \in DOMAIN t.writes : IsRow(n, "match") => n = k /\ t.similar
  <2>1. \A n \in DOMAIN t.writes : WriteOK(t, n)
    BY <1>1, <1>2, AllDone
  <2> QED BY <1>1, <2>1 DEF WriteOK
<1>4. SeenOK /\ PendingOK /\ SeenOK' /\ PendingOK'
  BY MapsAre, MapsAreNext
<1>5. \A i : i # j => /\ i \in Pending' <=> i \in Pending
                      /\ i \in Pending => /\ task'[i].verified = task[i].verified
                                          /\ PendingRow(i)' = PendingRow(i)
  <2>1. ASSUME NEW i \in Jobs \ {j}, MatchOf(i) \in DOMAIN task[i].writes
        PROVE  MatchOf(i) \in DOMAIN db' <=> MatchOf(i) \in DOMAIN db
    <3>1. MatchOf(i) \notin DOMAIN t.writes
      BY <1>1, <2>1, WritesApart
    <3> QED BY <1>2, <3>1
  <2> QED BY <1>2, <2>1, PendingBeside
<1>6. j \notin Pending'
  BY <1>1, <1>2, NothingWritten
<1>7. CASE k \notin DOMAIN t.writes
  <2>1. MatchKeys' = MatchKeys /\ \A m \in MatchKeys : db'[m] = db[m]
    BY <1>2, <1>3, <1>7 DEF MatchKeys
  <2>2. SeenRows' = SeenRows
    BY <1>4, <2>1, SeenSame
  <2>3. j \notin Pending
    BY <1>1, <1>7 DEF Pending
  <2>4. PendingRows' = PendingRows
    BY <1>4, <1>5, <1>6, <2>3, PendingSame
  <2> QED BY <2>2, <2>4 DEF TableStep
<1>8. CASE k \in DOMAIN t.writes
  <2>1. PICK row : row = t.writes[k]
    OBVIOUS
  <2>2. IsRow(k, "match") /\ k[2] = t.verified
    <3>1. Match(t.verified)[1] = "match" /\ Match(t.verified)[2] = t.verified
      BY KeyParts
    <3> QED BY <1>1, <3>1 DEF IsRow
  <2>3. /\ IsMatch(row) /\ \A m \in MatchKeys : db[m].id = row.id <=> m = k
    BY <1>1, <1>8, <2>1, <2>2 DEF TableInv, OwnId
  <2>4. /\ k \in MatchKeys' /\ db'[k] = row
        /\ \A m : m \in MatchKeys' <=> m = k \/ (m \in MatchKeys /\ m # k)
        /\ \A m \in MatchKeys \ {k, k} : db'[m] = db[m] /\ db[m].id # row.id
        /\ \A m \in MatchKeys : m \in {k, k} => db[m].id = row.id
    BY <1>2, <1>3, <1>8, <2>1, <2>2, <2>3 DEF MatchKeys
  <2>5. PICK new : new = MatchRowOf(t.verified, row)
    OBVIOUS
  <2>6. new = [record |-> t.verified, level |-> row.level]
    BY <2>5 DEF MatchRowOf
  <2>7. SeenRows' = Table!With(SeenRows, row.id, new)
    <3>1. db'[k].id = row.id
      BY <2>4
    <3>2. SeenRows' = Table!With(SeenRows, row.id, MatchRowOf(k[2], db'[k]))
      BY <1>4, <2>4, <3>1, SeenSet
    <3> QED BY <2>2, <2>4, <2>5, <3>2
  <2>8. CASE k \in DOMAIN db
    <3>1. j \notin Pending
      BY <1>1, <2>8 DEF Pending
    <3>2. PendingRows' = PendingRows
      BY <1>4, <1>5, <1>6, <3>1, PendingSame
    <3>3. k \in MatchKeys /\ db[k].id = row.id
      BY <2>2, <2>3, <2>8 DEF MatchKeys
    <3>4. row.id \in DOMAIN SeenRows /\ SeenRows[row.id] = MatchRowOf(k[2], db[k])
      <4>1. db[k].id \in DOMAIN SeenRows /\ SeenRows[db[k].id] = MatchRowOf(k[2], db[k])
        BY <1>4, <3>3 DEF SeenOK
      <4> QED BY <3>3, <4>1
    <3>5. SeenRows[row.id].record = new.record
      BY <2>2, <2>6, <3>4 DEF MatchRowOf
    <3>6. SeenRows' = [SeenRows EXCEPT ![row.id] = new]
      BY <1>4, <2>7, <3>4, ExceptIsWith DEF SeenOK
    <3>7. new \in Table!Row
      <4>1. t.verified \in Records
        BY <2>2, <3>3, MatchParts, RowIsRecord
      <4> QED BY <2>3, <2>6, <4>1 DEF Table!Row, IsMatch, MatchLevels
    <3>8. Table!Replace(row.id, new)
      BY <3>2, <3>4, <3>5, <3>6 DEF Table!Replace
    <3> QED BY <3>4, <3>7, <3>8 DEF TableStep, Table!TableNext
  <2>9. CASE k \notin DOMAIN db
    <3>1. j \in Pending /\ PendingRow(j) = row
      BY <1>1, <1>8, <2>1, <2>9 DEF Pending, PendingRow
    <3>2. \A i : i \in Pending' <=> i \in Pending /\ i # j
      BY <1>5, <1>6
    <3>3. \A i \in Pending \ {j} : /\ task'[i].verified = task[i].verified
                                   /\ PendingRow(i)' = PendingRow(i)
                                   /\ PendingRow(i).id # PendingRow(j).id
      BY <1>5, <3>1, PendingIdsDiffer
    <3>4. PendingRows' = Table!Without(PendingRows, row.id)
      <4>1. PendingRows' = Table!Without(PendingRows, PendingRow(j).id)
        BY <1>4, <3>1, <3>2, <3>3, PendingDrop
      <4> QED BY <3>1, <4>1
    <3>5. row.id \in DOMAIN PendingRows /\ PendingRows[row.id] = new
      <4>1. /\ PendingRow(j).id \in DOMAIN PendingRows
            /\ PendingRows[PendingRow(j).id] = MatchRowOf(task[j].verified, PendingRow(j))
        BY <1>4, <3>1 DEF PendingOK
      <4> QED BY <1>1, <2>5, <3>1, <4>1
    <3>6. Table!CommitInsert(row.id)
      BY <2>7, <3>4, <3>5 DEF Table!CommitInsert
    <3> QED BY <3>5, <3>6 DEF TableStep, Table!TableNext
  <2> QED BY <2>8, <2>9
<1> QED BY <1>7, <1>8

\* What the statements after COMMIT leave of the others.
LEMMA LaterBeside ==
  ASSUME LockInv, TableInv, TableInv', NEW j \in Jobs, AfterCommit(task[j]), Turns(j, "stored"),
         NEW S, ~Locked(j, S), \A k : k \notin S => (k \in DOMAIN db' <=> k \in DOMAIN db)
  PROVE  /\ SeenOK /\ PendingOK /\ SeenOK' /\ PendingOK'
         /\ PendingRows' = PendingRows
         /\ \A k \in S : \A i \in Jobs : k \notin DOMAIN task[i].writes
<1>1. SeenOK /\ PendingOK /\ SeenOK' /\ PendingOK'
  BY MapsAre, MapsAreNext
<1>2. /\ \A i \in Jobs \ {j} : task'[i] = task[i]
      /\ task'[j].writes = task[j].writes
  BY DEF Turns
<1>3. DOMAIN task[j].writes = {}
  BY DEF LockInv, TypeOK, AfterCommit, Open
<1>4. j \notin Pending /\ j \notin Pending'
  BY <1>2, <1>3, NothingWritten
<1>5. ASSUME NEW i \in Jobs \ {j}, MatchOf(i) \in DOMAIN task[i].writes
      PROVE  MatchOf(i) \in DOMAIN db' <=> MatchOf(i) \in DOMAIN db
  BY <1>5, WritesApart
<1>6. \A i : i # j => /\ i \in Pending' <=> i \in Pending
                      /\ i \in Pending => /\ task'[i].verified = task[i].verified
                                          /\ PendingRow(i)' = PendingRow(i)
  BY <1>2, <1>5, PendingBeside
<1>7. PendingRows' = PendingRows
  BY <1>1, <1>4, <1>6, PendingSame
<1>8. ASSUME NEW k \in S, NEW i \in Jobs PROVE k \notin DOMAIN task[i].writes
  BY <1>3, WritesApart
<1> QED BY <1>1, <1>7, <1>8

LEMMA TableMoves ==
  ASSUME LockInv, DbInv, TableInv, TableInv', NEW j \in Jobs, JobInv(j, task[j]), Moves(j)
  PROVE  TableStep
<1>1. PICK t, from, to : t = task[j] /\ from = Match(t.old) /\ to = Match(t.verified)
  OBVIOUS
<1>2. /\ t.pc = "updateMatch" /\ ~Locked(j, {from, to})
      /\ from \in DOMAIN db /\ (from = to \/ to \notin DOMAIN db)
      /\ DOMAIN db' = (DOMAIN db \ {from}) \cup {to}
      /\ db'[to] = [db[from] EXCEPT !.level = t.level]
      /\ \A k \in DOMAIN db \ {from, to} : db'[k] = db[k]
      /\ Turns(j, "stored") /\ lastId' = lastId
  BY <1>1 DEF Moves, MatchOf
<1>3. AfterCommit(task[j]) /\ Active(task[j])
  BY <1>1, <1>2 DEF AfterCommit, Active
<1>4. /\ IsRow(from, "match") /\ IsRow(to, "match") /\ from[2] = t.old /\ to[2] = t.verified
  BY <1>1, KeyParts DEF IsRow
<1>5. \A k : k \notin {from, to} => (k \in DOMAIN db' <=> k \in DOMAIN db)
  BY <1>2
<1>6. /\ SeenOK /\ PendingOK /\ SeenOK' /\ PendingOK'
      /\ PendingRows' = PendingRows
      /\ \A k \in {from, to} : \A i \in Jobs : k \notin DOMAIN task[i].writes
  BY <1>2, <1>3, <1>5, LaterBeside
<1>7. from \in MatchKeys /\ IsMatch(db[from]) /\ \A m \in MatchKeys : db[m].id = db[from].id => m = from
  BY <1>2, <1>4 DEF TableInv, MatchKeys
<1>8. db'[to].id = db[from].id /\ db'[to].level = t.level
  <2>1. db[from] = [id |-> db[from].id, level |-> db[from].level]
    BY <1>7 DEF IsMatch
  <2> QED BY <1>2, <2>1, SetLevel
<1>9. /\ to \in MatchKeys'
      /\ \A m : m \in MatchKeys' <=> m = to \/ (m \in MatchKeys /\ m # from)
      /\ \A m \in MatchKeys : m \in {from, to} => db[m].id = db[from].id
      /\ \A m \in MatchKeys \ {from, to} : db'[m] = db[m] /\ db[m].id # db[from].id
  BY <1>2, <1>4, <1>7 DEF MatchKeys
<1>10. PICK i, new : i = db[from].id /\ new = MatchRowOf(t.verified, db'[to])
  OBVIOUS
<1>11. new = [record |-> t.verified, level |-> t.level]
  BY <1>8, <1>10 DEF MatchRowOf
<1>12. SeenRows' = Table!With(SeenRows, i, new)
  <2>1. SeenRows' = Table!With(SeenRows, i, MatchRowOf(to[2], db'[to]))
    BY <1>6, <1>8, <1>9, <1>10, SeenSet
  <2> QED BY <1>4, <1>10, <2>1
<1>13. i \in DOMAIN SeenRows /\ SeenRows[i] = MatchRowOf(t.old, db[from])
  <2>1. db[from].id \in DOMAIN SeenRows /\ SeenRows[db[from].id] = MatchRowOf(from[2], db[from])
    BY <1>6, <1>7 DEF SeenOK
  <2> QED BY <1>4, <1>10, <2>1
<1>14. SeenRows[i].record = t.old /\ new.record = t.verified
  BY <1>11, <1>13 DEF MatchRowOf
<1>15. /\ t.verified \in DOMAIN db /\ IsRow(t.verified, "verified") /\ t.verified[3] = t.export.address
       /\ t.old[3] = t.export.address
  <2>1. ~t.similar /\ t.old # None
    BY <1>1, <1>2, <1>3 DEF JobInv
  <2>2. StoreInv(j, t)
    BY <1>1, <1>3, <2>1 DEF JobInv
  <2> QED BY <1>1, <1>3, <2>1, <2>2 DEF JobInv, StoreInv, Present
<1>16. t.verified \in Records /\ t.old \in Records
  BY <1>4, <1>7, <1>15, MatchParts, RowIsRecord
<1>17. new \in Table!Row
  <2>1. t.level \in MatchLevels
    BY <1>1, <1>3 DEF TableInv
  <2> QED BY <1>11, <1>16, <2>1 DEF Table!Row, MatchLevels
<1>18. new.record = SeenRows[i].record \/ ~Table!Taken(new.record)
  <2>1. CASE from = to
    BY <1>4, <1>14, <2>1
  <2>2. CASE to \notin DOMAIN db
    <3>1. \A x \in Jobs : Match(t.verified) \notin DOMAIN task[x].writes
      BY <1>1, <1>6
    <3>2. ~Table!Taken(t.verified)
      BY <1>1, <1>6, <2>2, <3>1, NotTaken
    <3> QED BY <1>14, <3>2
  <2> QED BY <1>2, <2>1, <2>2
<1>19. SeenRows' = [SeenRows EXCEPT ![i] = new]
  BY <1>6, <1>12, <1>13, ExceptIsWith DEF SeenOK
<1>20. [v \in Records |-> v[3]][new.record] = [v \in Records |-> v[3]][SeenRows[i].record]
  BY <1>14, <1>15, <1>16
<1>21. Table!Replace(i, new)
  BY <1>2, <1>6, <1>13, <1>18, <1>19, <1>20 DEF Table!Replace
<1> QED BY <1>13, <1>17, <1>21 DEF TableStep, Table!TableNext

LEMMA TableInserts ==
  ASSUME LockInv, DbInv, TableInv, TableInv', NEW j \in Jobs, JobInv(j, task[j]), Inserts(j)
  PROVE  TableStep
<1>1. PICK t, k : t = task[j] /\ k = Match(t.verified)
  OBVIOUS
<1>2. /\ t.pc = "insertMatch" /\ ~Locked(j, {k}) /\ k \notin DOMAIN db
      /\ DOMAIN db' = DOMAIN db \cup {k}
      /\ db'[k] = [id |-> lastId + 1, level |-> t.level]
      /\ \A x \in DOMAIN db : db'[x] = db[x]
      /\ Turns(j, "stored") /\ lastId' = lastId + 1
  BY <1>1 DEF Inserts, MatchOf
<1>3. AfterCommit(task[j]) /\ Active(task[j])
  BY <1>1, <1>2 DEF AfterCommit, Active
<1>4. IsRow(k, "match") /\ k[2] = t.verified
  BY <1>1, KeyParts DEF IsRow
<1>5. \A x : x \notin {k} => (x \in DOMAIN db' <=> x \in DOMAIN db)
  BY <1>2
<1>6. /\ SeenOK /\ PendingOK /\ SeenOK' /\ PendingOK'
      /\ PendingRows' = PendingRows
      /\ \A x \in {k} : \A i \in Jobs : x \notin DOMAIN task[i].writes
  BY <1>2, <1>3, <1>5, LaterBeside
<1>7. \A m \in MatchKeys : db[m].id # lastId + 1
  <2>1. lastId \in Nat /\ \A m \in MatchKeys : db[m].id \in 1..lastId
    BY DEF TableInv, IsMatch, LockInv, TypeOK
  <2> QED BY <2>1
<1>8. /\ k \in MatchKeys' /\ db'[k].id = lastId + 1
      /\ \A m : m \in MatchKeys' <=> m = k \/ (m \in MatchKeys /\ m # k)
      /\ \A m \in MatchKeys : m \in {k, k} => db[m].id = lastId + 1
      /\ \A m \in MatchKeys \ {k, k} : db'[m] = db[m] /\ db[m].id # lastId + 1
  BY <1>2, <1>4, <1>7 DEF MatchKeys
<1>9. PICK new : new = MatchRowOf(t.verified, db'[k])
  OBVIOUS
<1>10. new = [record |-> t.verified, level |-> t.level]
  BY <1>2, <1>9 DEF MatchRowOf
<1>11. SeenRows' = Table!With(SeenRows, lastId + 1, new)
  <2>1. SeenRows' = Table!With(SeenRows, lastId + 1, MatchRowOf(k[2], db'[k]))
    BY <1>6, <1>8, SeenSet
  <2> QED BY <1>4, <1>9, <2>1
<1>12. new \in Table!Row
  <2>1. t.verified \in DOMAIN db /\ IsRow(t.verified, "verified")
    BY <1>1, <1>3 DEF JobInv, Present
  <2>2. t.verified \in Records
    BY <2>1, RowIsRecord
  <2>3. t.level \in MatchLevels
    BY <1>1, <1>3 DEF TableInv
  <2> QED BY <1>10, <2>2, <2>3 DEF Table!Row, MatchLevels
<1>13. ~Table!Taken(new.record)
  <2>1. \A x \in Jobs : Match(t.verified) \notin DOMAIN task[x].writes
    BY <1>1, <1>6
  <2>2. ~Table!Taken(t.verified)
    BY <1>1, <1>2, <1>6, <2>1, NotTaken
  <2> QED BY <1>10, <2>2
<1>14. Table!InsertNow(new)
  BY <1>2, <1>6, <1>11, <1>13 DEF Table!InsertNow
<1> QED BY <1>12, <1>14 DEF TableStep, Table!TableNext

LEMMA TableInit == Init => Table!TableInit
<1> SUFFICES ASSUME Init PROVE Table!TableInit
  OBVIOUS
<1>1. MatchKeys = {}
  BY DEF Init, MatchKeys
<1>2. Pending = {}
  <2>1. \A j \in Jobs : task[j].writes = <<>>
    BY NewTaskFields DEF Init
  <2> QED BY <2>1 DEF Pending
<1>3. SeenRows = <<>>
  BY <1>1 DEF SeenRows
<1>4. PendingRows = <<>>
  BY <1>2 DEF PendingRows
<1> QED BY <1>3, <1>4 DEF Table!TableInit, Init

LEMMA TableNext ==
  ASSUME DataInv, TableInv, TableInv', [Next]_vars
  PROVE  TableStep
<1>1. LockInv /\ DbInv /\ TaskInv
  BY DEF DataInv
<1>2. CASE UNCHANGED vars
  <2>1. SeenRows' = SeenRows
    BY <1>2 DEF SeenRows, MatchKeys, vars
  <2>2. PendingRows' = PendingRows
    <3>1. SeenOK /\ PendingOK /\ SeenOK' /\ PendingOK'
      BY MapsAre, MapsAreNext
    <3>2. \A i : /\ i \in Pending' <=> i \in Pending
                 /\ task'[i].verified = task[i].verified
                 /\ PendingRow(i)' = PendingRow(i)
      BY <1>2 DEF vars, Pending, PendingRow, MatchOf
    <3> QED BY <3>1, <3>2, PendingSame
  <2> QED BY <1>2, <2>1, <2>2 DEF TableStep, vars
<1>3. ASSUME NEW j \in Jobs,
             \/ \E e \in Exports : BeginStore(j, e)
             \/ \E a \in Addresses : BeginSimilar(j, a)
             \/ Step(j) \/ LoseConnection(j) \/ Deadlock(j)
      PROVE  TableStep
  <2>1. JobInv(j, task[j])
    BY <1>1 DEF TaskInv
  <2>2. ASSUME NEW e \in Exports, BeginStore(j, e) PROVE TableStep
    BY <1>1, <2>2, BeginStoreEffect, TableAborts, TableStarts DEF StoreStarts
  <2>3. ASSUME NEW a \in Addresses, BeginSimilar(j, a) PROVE TableStep
    BY <1>1, <2>3, BeginSimilarEffect, TableAborts, TableStarts DEF SimilarStarts
  <2>4. CASE Commit(j)
    <3>1. Commits(j, NextStep(j), "none") /\ lastId' = lastId
      BY <1>1, <2>4, CommittedEffect DEF Commit
    <3> QED BY <1>1, <2>1, <3>1, TableCommits
  <2>5. CASE LoseConnection(j)
    <3>1. (Aborts(j, "fault") \/ Commits(j, "failed", "fault")) /\ lastId' = lastId
      BY <1>1, <2>5, LoseConnectionEffect
    <3> QED BY <1>1, <2>1, <3>1, TableAborts, TableCommits
  <2>6. CASE Deadlock(j)
    BY <1>1, <2>6, DeadlockEffect, TableAborts
  <2>7. CASE UpdateMatch(j) \/ InsertMatch(j)
    <3>1. AfterCommit(task[j])
      BY <2>7, <1>1, UpdateMatchEffect, InsertMatchEffect DEF AfterCommit
    <3>2. j \notin Pending
      <4>1. DOMAIN task[j].writes = {}
        BY <1>1, <3>1 DEF LockInv, TypeOK, AfterCommit, Open
      <4> QED BY <4>1, NothingWritten
    <3>3. \/ Turns(j, "insertMatch") /\ db' = db /\ lastId' = lastId
          \/ Aborts(j, "taken") /\ lastId' \in {lastId, lastId + 1}
          \/ Moves(j) \/ Inserts(j)
      BY <1>1, <2>7, UpdateMatchEffect, InsertMatchEffect
    <3> QED BY <1>1, <2>1, <3>1, <3>2, <3>3, TableTurns, TableAborts, TableMoves, TableInserts
  <2>8. CASE WriteMatch(j)
    BY <1>1, <2>1, <2>8, TableWrites
  <2>9. CASE Touch(j) \/ AddFiles(j) \/ InsertDeployment(j) \/ InsertCompiled(j)
               \/ InsertVerified(j) \/ LacksRow(j) \/ ReadOldMatch(j)
    <3>1. \/ \E rows, written :
               Executes(j, rows, written) /\ \A k \in written : ~IsRow(k, "match")
          \/ \E why : Aborts(j, why)
      BY <1>1, <2>1, <2>9, OtherStatement
    <3>2. lastId' = lastId
      BY <1>1, <2>9, TouchEffect, AddFilesEffect, InsertDeploymentEffect, InsertCompiledEffect,
         InsertVerifiedEffect, LacksRowEffect, ReadOldMatchEffect
    <3>3. task[j].similar => task'[j].verified = task[j].verified
      BY <1>1, <2>1, <2>9, CopiesKeep
    <3> QED BY <2>1, <3>1, <3>2, <3>3, TableExecutes, TableAborts
  <2> QED BY <1>3, <2>2, <2>3, <2>4, <2>5, <2>6, <2>7, <2>8, <2>9 DEF Step
<1>4. CASE Next
  <2>1. CASE Finished
    BY <1>2, <2>1 DEF Finished
  <2>2. CASE ~Finished
    BY <1>3, <1>4, <2>2 DEF Next
  <2> QED BY <2>1, <2>2
<1> QED BY <1>2, <1>4

\* Whatever the transactions of StoreBase do to sourcify_matches, those who read
\* it by id, as the backfill tool and a walk by cursor do, find
\* the table that MatchTable promises them.
THEOREM StoreImplementsMatchTable == Spec => ImplementsMatchTable
<1>1. Init => Table!TableInit
  BY TableInit
<1>2. DataInv /\ TableInv /\ (DataInv /\ TableInv)' /\ [Next]_vars
        => [Table!TableNext]_(Table!tableVars)
  BY TableNext DEF TableStep, Table!tableVars
<1> QED BY <1>1, <1>2, IdsHold, PTL DEF Spec, ImplementsMatchTable, Table!TableSpec
=============================================================================
