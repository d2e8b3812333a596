------------------------------ MODULE ExpStore ------------------------------
(***************************************************************************)
(* The portal's experiment store and those who record JSONL histories in   *)
(* it.  `experiment import jsonl` (expimport.ImportJSONL) first writes two *)
(* files beneath the store, the metric rows and a copy of the history, and *)
(* then records them with RecordRunData: under the store's file lock and in*)
(* one SQL transaction it looks up the idempotency key, inserts the rows,  *)
(* appends one line per new row to the JSONL mirrors and commits.  An      *)
(* import that fails removes its files again.  Autocapture (EnrichRunData) *)
(* and those who sort runs into experiments change the run meanwhile.      *)
(*                                                                         *)
(* One run is modelled.  A request has an idempotency key, the hash of what*)
(* it asks for (which also names its metric file), and the artifact made of*)
(* its history.  A row is in the database or not; what the code compares of*)
(* rows that exist is modelled where it can differ between two imports: the*)
(* state of the run, the durable reference of an artifact, the time stamp  *)
(* of a metric file.  The run's experiment is compared by nobody, and what *)
(* changes it writes no line.                                              *)
(***************************************************************************)
EXTENDS Naturals, Sequences, FiniteSets

CONSTANTS
  Procs,        \* processes that import
  Requests,     \* what they may be asked to import
  Keys,         \* idempotency keys
  Hashes,       \* request hashes, which name the metric files
  Artifacts,    \* artifact IDs
  Tracked,      \* the artifacts that point to files of the workload
  Bytes,        \* [Artifacts -> digest of what the artifact's file holds]
  None,         \* no key, no request, no run, no reference, nobody
  CallBudget,   \* bound: imports
  EditBudget,   \* bound: enrichments of the run, and edits of files
  FaultBudget   \* bound: failing calls and crashes

ASSUME StoreAssumption ==
  /\ Requests \subseteq [key : Keys, hash : Hashes,
                         art : (Artifacts \ Tracked) \cup {None}]
  /\ Tracked \subseteq Artifacts /\ Hashes \cap Artifacts = {}
  /\ None \notin Keys \cup Hashes \cup Artifacts \cup Procs \cup Requests
  /\ None \notin {"created", "reused", "failed", "running", "succeeded"}
  /\ {CallBudget, EditBudget, FaultBudget} \subseteq Nat

VARIABLES
  db,       \* the SQL database
  mirror,   \* the JSONL mirrors, a sequence of lines each
  disk,     \* what the files beneath the store hold, by path
  lock,     \* holder of the store's file lock
  proc,     \* the importing processes
  budget,   \* what is left of the budgets
  stray     \* history: places of lines a crash or a failed rollback left

storeVars == <<db, mirror, disk, lock, proc, budget, stray>>

Paths == Hashes \cup Artifacts
OwnPaths == Paths \ Tracked   \* where imports write
Logs == {"runs", "artifacts", "metric_files", "idempotency_keys"}
RunStates == {"running", "succeeded"}
Experiments == {"group", "other"}   \* the one implied by the run's group, another
Digests == {Bytes[a] : a \in Artifacts}

(* A durable reference: the object (named after artifact and digest) and the
   time of its upload, by which two uploads of the same object differ. *)
Refs == [art : Artifacts, digest : Digests, stamp : Nat]

(* A row of the table `artifacts`, where it is recorded at all. *)
Rows == [digest : Digests \cup {None}, ref : Refs \cup {None}]
NoRow == [digest |-> None, ref |-> None]

Idle == [pc |-> "idle", req |-> None, files |-> <<>>, wrote |-> {},
         seen |-> None, exp |-> None, todo |-> <<>>, offs |-> <<>>, answer |-> None]

Answers == {"created", "reused", "failed"}
Lines == [log : Logs, id : Keys \cup Hashes \cup Artifacts \cup RunStates, ref : Refs \cup {None}]
Offsets == [log : Logs, len : Nat]
Database == [key : [Keys -> Hashes \cup {None}], run : RunStates \cup {None},
             exp : Experiments \cup {None}, metric : SUBSET Hashes, art : SUBSET Artifacts, row : [Artifacts -> Rows]]
Process == [pc : {"idle", "open", "fill", "existing", "lock", "tx", "mirror", "cleanup", "return"},
            req : Requests \cup {None}, files : Seq(OwnPaths), wrote : SUBSET OwnPaths,
            seen : RunStates \cup {None}, exp : Experiments \cup {None},
            todo : Seq(Lines), offs : Seq(Offsets), answer : Answers \cup {None}]
Contents == {None, "torn"} \cup Paths \cup Digests

StoreTypes ==
  /\ db \in Database
  /\ mirror \in [Logs -> Seq(Lines)]
  /\ disk \in [Paths -> Contents] /\ \A a \in Tracked : disk[a] \in Digests
  /\ proc \in [Procs -> Process]
  /\ budget \in [calls : Nat, edits : Nat, faults : Nat]
  /\ stray \subseteq Logs \X Nat

StoreInit ==
  /\ db = [key |-> [k \in Keys |-> None], run |-> None, exp |-> None, metric |-> {},
           art |-> {}, row |-> [a \in Artifacts |-> NoRow]]
  /\ mirror = [l \in Logs |-> <<>>]
  /\ disk = [f \in Paths |-> IF f \in Tracked THEN Bytes[f] ELSE None]
  /\ lock = None
  /\ proc = [p \in Procs |-> Idle]
  /\ budget = [calls |-> CallBudget, edits |-> EditBudget, faults |-> FaultBudget]
  /\ stray = {}

Fault == budget.faults > 0 /\ budget' = [budget EXCEPT !.faults = @ - 1]

(***************************************************************************)
(* appendJSONLWithRollback and cleanupJSONL.  offs holds, for every line   *)
(* appended, the mirror and its length before; the rollback goes through   *)
(* it from the end.  A line whose own append fails is taken back likewise; *)
(* when that fails too, it is as if the next call had failed.              *)
(***************************************************************************)
Appended(line) == [mirror EXCEPT ![line.log] = Append(@, line)]

\* Mutant: only the last line is taken back.
LastLineTruncated(offs, done) ==
  [l \in Logs |->
     IF Len(offs) \in done /\ offs[Len(offs)].log = l
     THEN SubSeq(mirror[l], 1, offs[Len(offs)].len) ELSE mirror[l]]

Truncated(offs, done) ==
  [l \in Logs |->
     LET mine == {i \in done : offs[i].log = l}
     IN  IF mine = {} THEN mirror[l]
         ELSE SubSeq(mirror[l], 1,
                     offs[CHOOSE i \in mine : \A j \in mine : i <= j].len)]

Places(offs) == {<<offs[i].log, offs[i].len + 1>> : i \in DOMAIN offs}

(* Each truncation may fail, which stops none of the others and is at most
   reported: the lines whose truncation failed are stray, unless an earlier
   one has taken them back. *)
RolledBack(offs) ==
  \E done \in SUBSET DOMAIN offs :
    LET left == Truncated(offs, done)
        failed == {<<offs[i].log, offs[i].len + 1>> : i \in DOMAIN offs \ done}
    IN  /\ mirror' = left
        /\ stray' = stray \cup {x \in failed : x[2] <= Len(left[x[1]])}

Line(log, id, ref) == [log |-> log, id |-> id, ref |-> ref]

(***************************************************************************)
(* The lookup and the ensure functions of one RecordRunData transaction.   *)
(* The run is the one read before the lock was taken, or a new one.        *)
(***************************************************************************)
Run(p) == IF proc[p].seen = None THEN "succeeded" ELSE proc[p].seen

KeyUsed(r) == db.key[r.key] # None

Compatible(p, sameSecond) ==
  LET r == proc[p].req
  IN  /\ db.run \in {None, Run(p)}
      /\ r.art \in db.art =>
           db.row[r.art] = [digest |-> Bytes[r.art], ref |-> None]
      /\ r.hash \in db.metric => sameSecond

NewLines(p) ==
  LET r == proc[p].req
  IN  (IF db.run = None THEN <<Line("runs", Run(p), None)>> ELSE <<>>)
      \o (IF r.art \in {None} \cup db.art THEN <<>>
          ELSE <<Line("artifacts", r.art, None)>>)
      \o (IF r.hash \in db.metric THEN <<>>
          ELSE <<Line("metric_files", r.hash, None)>>)
      \o <<Line("idempotency_keys", r.key, None)>>

(* ensureRunExperimentIndexesTx, for a run recorded with or without the name of
   an experiment: the named one is set, whatever was there; otherwise a run
   without experiment gets that of its group. *)
Sorted(named) ==
  IF named # None THEN named ELSE IF db.exp = None THEN "group" ELSE db.exp

Recorded(p) ==
  LET r == proc[p].req
  IN  [db EXCEPT !.key[r.key] = r.hash,
                 !.run = IF @ = None THEN Run(p) ELSE @,
                 !.exp = Sorted(proc[p].exp),
                 !.metric = @ \cup {r.hash},
                 !.art = @ \cup ({r.art} \ {None}),
                 !.row = [a \in Artifacts |->
                            IF a = r.art /\ a \notin db.art
                            THEN [digest |-> Bytes[a], ref |-> None] ELSE @[a]]]

(***************************************************************************)
(* ImportJSONL.                                                            *)
(***************************************************************************)

(* The command is run: the history has been read and hashed. *)
Call(p) ==
  /\ proc[p].pc = "idle"
  /\ budget.calls > 0
  /\ \E r \in Requests :
       proc' = [proc EXCEPT ![p] =
                  [Idle EXCEPT !.pc = "open", !.req = r,
                               !.files = <<r.hash>> \o (IF r.art = None THEN <<>>
                                                        ELSE <<r.art>>)]]
  /\ budget' = [budget EXCEPT !.calls = @ - 1]
  /\ UNCHANGED <<db, mirror, disk, lock, stray>>

(* Neither parquet.WriteFile nor copyFile writes to a temporary file: the file
   is truncated first, *)
OpenFile(p) ==
  /\ proc[p].pc = "open"
  /\ disk' = [disk EXCEPT ![Head(proc[p].files)] = "torn"]
  /\ proc' = [proc EXCEPT ![p].pc = "fill"]
  /\ UNCHANGED <<db, mirror, lock, budget, stray>>

(* and then filled. *)
FillFile(p) ==
  LET f == Head(proc[p].files)
  IN  /\ proc[p].pc = "fill"
      /\ disk' = [disk EXCEPT ![f] = IF f \in Artifacts THEN Bytes[f] ELSE f]
      /\ proc' = [proc EXCEPT ![p].files = Tail(@),
                              ![p].wrote = @ \cup {f},
                              ![p].pc = IF Len(proc[p].files) = 1
                                        THEN "existing" ELSE "open"]
      /\ UNCHANGED <<db, mirror, lock, budget, stray>>

(* A write that fails leaves its torn file; earlier ones are removed. *)
FillFails(p) ==
  /\ proc[p].pc = "fill"
  /\ Fault
  /\ proc' = [proc EXCEPT ![p].pc = "cleanup", ![p].answer = "failed"]
  /\ UNCHANGED <<db, mirror, disk, lock, stray>>

(* existingJSONLRun, outside the lock. *)
ReadExisting(p) ==
  /\ proc[p].pc = "existing"
  /\ proc' = [proc EXCEPT ![p].pc = "lock", ![p].seen = db.run,
                          ![p].exp = db.exp]
  /\ UNCHANGED <<db, mirror, disk, lock, budget, stray>>

(* When that read fails, the files that were written stay. *)
ReadFails(p) ==
  /\ proc[p].pc = "existing"
  /\ Fault
  /\ proc' = [proc EXCEPT ![p].pc = "return", ![p].answer = "failed"]
  /\ UNCHANGED <<db, mirror, disk, lock, stray>>

(* acquireStoreWriteLock polls the lock, *)
TakeLock(p) ==
  /\ proc[p].pc = "lock"
  /\ lock = None
  /\ lock' = p
  /\ proc' = [proc EXCEPT ![p].pc = "tx"]
  /\ UNCHANGED <<db, mirror, disk, budget, stray>>

(* and gives up after storeLockTimeout. *)
LockTimesOut(p) ==
  /\ proc[p].pc = "lock"
  /\ lock # None
  /\ proc' = [proc EXCEPT ![p].pc = "cleanup", ![p].answer = "failed"]
  /\ UNCHANGED <<db, mirror, disk, lock, budget, stray>>

\* Mutant: the hash stored with the key is not compared.
ReusedUnchecked(p) ==
  /\ proc[p].pc = "tx"
  /\ KeyUsed(proc[p].req)
  /\ proc' = [proc EXCEPT ![p].pc = "return", ![p].answer = "reused"]
  /\ lock' = None
  /\ UNCHANGED <<db, mirror, disk, budget, stray>>

(* The key was used for the same request: nothing is to be done. *)
Reused(p) ==
  LET r == proc[p].req
  IN  /\ proc[p].pc = "tx"
      /\ KeyUsed(r) /\ db.key[r.key] = r.hash
      /\ proc' = [proc EXCEPT ![p].pc = "return", ![p].answer = "reused"]
      /\ lock' = None
      /\ UNCHANGED <<db, mirror, disk, budget, stray>>

(* It was used for another one, or a row exists with other metadata. *)
Conflict(p) ==
  LET r == proc[p].req
  IN  /\ proc[p].pc = "tx"
      /\ \/ KeyUsed(r) /\ db.key[r.key] # r.hash
         \/ ~KeyUsed(r) /\ \E sameSecond \in BOOLEAN : ~Compatible(p, sameSecond)
      /\ proc' = [proc EXCEPT ![p].pc = "cleanup", ![p].answer = "failed"]
      /\ lock' = None
      /\ UNCHANGED <<db, mirror, disk, budget, stray>>

Insert(p) ==
  /\ proc[p].pc = "tx"
  /\ ~KeyUsed(proc[p].req)
  /\ \E sameSecond \in BOOLEAN : Compatible(p, sameSecond)
  /\ proc' = [proc EXCEPT ![p].pc = "mirror", ![p].todo = NewLines(p)]
  /\ UNCHANGED <<db, mirror, disk, lock, budget, stray>>

(* One round of appendRecordMirrors. *)
AppendMirror(p) ==
  /\ proc[p].pc = "mirror"
  /\ proc[p].todo # <<>>
  /\ LET line == Head(proc[p].todo)
     IN  /\ mirror' = Appended(line)
         /\ proc' = [proc EXCEPT ![p].todo = Tail(@),
                       ![p].offs = Append(@, [log |-> line.log,
                                              len |-> Len(mirror[line.log])])]
  /\ UNCHANGED <<db, disk, lock, budget, stray>>

(* When the release of the lock fails after the commit (withWriteLock), the
   import is on record and is told that it failed; the lock goes with its file. *)
Commit(p) ==
  /\ proc[p].pc = "mirror"
  /\ proc[p].todo = <<>>
  /\ db' = Recorded(p)
  /\ \/ /\ proc' = [proc EXCEPT ![p].pc = "return", ![p].answer = "created"]
        /\ UNCHANGED budget
     \/ /\ Fault
        /\ proc' = [proc EXCEPT ![p].pc = "cleanup", ![p].answer = "failed"]
  /\ lock' = None
  /\ UNCHANGED <<mirror, disk, stray>>

(* A statement, an append or the commit fails: everything is rolled back, the
   lines as far as they can be. *)
TxFails(p) ==
  /\ proc[p].pc \in {"tx", "mirror"}
  /\ Fault
  /\ RolledBack(proc[p].offs)
  /\ proc' = [proc EXCEPT ![p].pc = "cleanup", ![p].answer = "failed"]
  /\ lock' = None
  /\ UNCHANGED <<db, disk>>

(* cleanupImportFiles, after the lock has been released. *)
Cleanup(p) ==
  /\ proc[p].pc = "cleanup"
  /\ disk' = [f \in Paths |-> IF f \in proc[p].wrote THEN None ELSE disk[f]]
  /\ proc' = [proc EXCEPT ![p].pc = "return"]
  /\ UNCHANGED <<db, mirror, lock, budget, stray>>

(* The command ends and reports. *)
Return(p) ==
  /\ proc[p].pc = "return"
  /\ proc' = [proc EXCEPT ![p] = [Idle EXCEPT !.answer = proc[p].answer]]
  /\ UNCHANGED <<db, mirror, disk, lock, budget, stray>>

\* Mutant: a lock file that stays when its owner dies.
LockOutlives(p) ==
  /\ proc[p].pc # "idle"
  /\ Fault
  /\ proc' = [proc EXCEPT ![p] = Idle]
  /\ UNCHANGED <<db, mirror, disk, lock, stray>>

(* The process dies.  The operating system releases its lock, SQLite rolls
   its transaction back; the mirrors and the files stay. *)
Crash(p) ==
  /\ proc[p].pc # "idle"
  /\ Fault
  /\ proc' = [proc EXCEPT ![p] = Idle]
  /\ lock' = IF lock = p THEN None ELSE lock
  /\ stray' = IF lock = p THEN stray \cup Places(proc[p].offs) ELSE stray
  /\ UNCHANGED <<db, mirror, disk>>

(* EnrichRunData: the state of the run only ever advances (mergeRunState). *)
Rank(s) == CASE s = None -> 0 [] s = "running" -> 2 [] s = "succeeded" -> 3

Enrich ==
  /\ lock = None
  /\ budget.edits > 0
  /\ \E s \in RunStates :
       /\ Rank(s) > Rank(db.run)
       /\ db' = [db EXCEPT !.run = s]
       /\ mirror' = Appended(Line("runs", s, None))
  /\ budget' = [budget EXCEPT !.edits = @ - 1]
  /\ UNCHANGED <<disk, lock, proc, stray>>

(* AssignRunToExperiment moves the run to an experiment, *)
Assign ==
  /\ lock = None
  /\ budget.edits > 0
  /\ db.run # None
  /\ \E e \in Experiments \ {db.exp} : db' = [db EXCEPT !.exp = e]
  /\ budget' = [budget EXCEPT !.edits = @ - 1]
  /\ UNCHANGED <<mirror, disk, lock, proc, stray>>

(* and EnsureExperimentIndex, before every search, a run that has none to that
   of its group. *)
EnsureIndex ==
  /\ lock = None
  /\ db.run # None
  /\ db.exp = None
  /\ db' = [db EXCEPT !.exp = "group"]
  /\ UNCHANGED <<mirror, disk, lock, proc, budget, stray>>

Importer(p) ==
  \/ OpenFile(p) \/ FillFile(p) \/ FillFails(p) \/ ReadExisting(p)
  \/ ReadFails(p) \/ TakeLock(p) \/ LockTimesOut(p) \/ Reused(p) \/ Conflict(p) \/ Insert(p)
  \/ AppendMirror(p) \/ Commit(p) \/ TxFails(p) \/ Cleanup(p) \/ Return(p)

StoreNext ==
  Enrich \/ Assign \/ EnsureIndex \/ \E p \in Procs : Call(p) \/ Crash(p) \/ Importer(p)

(***************************************************************************)
(* Properties.                                                             *)
(***************************************************************************)

(* The store implements the ledger: a request takes effect once, completely
   and together with its key, and whoever is told "created" or "reused" can
   rely on it (recordRunDataLocked), with any number of retries, crashes and
   failing calls in between. *)
Ledger == INSTANCE IdempotentLedger WITH
            ledger <- db.key,
            recorded <- db.metric \cup (db.art \ Tracked),
            pending <- [p \in Procs |-> proc[p].req],
            answer <- [p \in Procs |-> proc[p].answer]
LedgerKept == Ledger!Spec

(* The lines of a mirror that a committed transaction wrote, and the last one of
   them for a row. *)
Kept(log) == {i \in DOMAIN mirror[log] : <<log, i>> \notin stray}
Last(log, id) ==
  LET at == {i \in Kept(log) : mirror[log][i].id = id}
  IN  IF at = {} THEN None ELSE mirror[log][CHOOSE i \in at : \A j \in at : j <= i]

(* Whenever nobody writes, the mirrors can be read for what was committed
   (appendJSONLWithRollback): apart from the lines that a crash or a failed
   rollback left, every line is of a row on record, every row on record has a
   line, and the last line of an artifact gives its durable reference, that of
   the run its state.  Of the run's experiment it says nothing: Recorded, Assign
   and EnsureIndex change it without a line. *)
MirrorsAgree ==
  lock = None =>
    /\ \A h \in Hashes : (h \in db.metric) <=> (Last("metric_files", h) # None)
    /\ \A k \in Keys : (db.key[k] # None) <=> (Last("idempotency_keys", k) # None)
    /\ \A a \in Artifacts :
         Last("artifacts", a) =
           IF a \in db.art THEN Line("artifacts", a, db.row[a].ref) ELSE None
    /\ LET runs == Kept("runs")
       IN  IF db.run = None THEN runs = {}
           ELSE /\ runs # {}
                /\ mirror["runs"][CHOOSE i \in runs : \A j \in runs : j <= i].id = db.run
=============================================================================
