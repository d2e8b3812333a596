--------------------------- MODULE ArtifactOffload --------------------------
(***************************************************************************)
(* `experiment offload artifacts --watch` beside the importers of ExpStore:*)
(* a watcher that uploads the files of the recorded artifacts to an object *)
(* store, remembers what it has verified in a checkpoint file and records  *)
(* the durable references in the experiment store, until a completion      *)
(* sentinel appears.  Files may be rewritten, and calls fail, at any step. *)
(***************************************************************************)
EXTENDS ExpStore

CONSTANT CompletionFile   \* whether the watcher has a --completion-file

VARIABLES
  off,        \* the watcher: locals of runArtifactOffloadWatch and Run
  ckpt,       \* the checkpoint file
  blob,       \* what the object of an artifact and a digest holds
  clock,      \* uploads so far, as the time of the next reference
  sentinel,   \* the completion file exists
  due         \* history: the artifacts on record when it appeared

offVars == <<off, ckpt, blob, clock, sentinel, due>>
vars == <<storeVars, offVars>>

Watcher == "watcher"
ASSUME WatcherAssumption ==
  /\ Watcher \notin Procs \cup {None}
  /\ None \notin Refs \cup Lines \cup {"verified", "failed"}
  /\ CompletionFile \in BOOLEAN

Entries == [status : {None, "uploading", "verified", "failed"},
            digest : Digests \cup {None}, ref : Refs \cup {None}]
NoEntry == [status |-> None, digest |-> None, ref |-> None]

(* The process at the start of a pass. *)
Waiting == [pc |-> "idle", listed |-> {}, todo |-> {},
            rows |-> [a \in Artifacts |-> NoRow],
            ck |-> [a \in Artifacts |-> NoEntry],
            found |-> [d \in Digests |-> None],
            cur |-> None, updates |-> <<>>, offs |-> <<>>]

Init ==
  /\ StoreInit
  /\ off = Waiting
  /\ ckpt = [a \in Artifacts |-> NoEntry]
  /\ blob = [a \in Artifacts |-> [d \in Digests |-> None]]
  /\ clock = 0
  /\ sentinel = FALSE
  /\ due = {}

(***************************************************************************)
(* One pass: artifactoffload.Run.                                          *)
(***************************************************************************)
Verified(d) == {a \in Artifacts : ckpt[a].status = "verified" /\ ckpt[a].digest = d}

(* The command fails when the run has not been recorded yet. *)
NoRun ==
  /\ off.pc = "idle"
  /\ db.run = None
  /\ off' = [Waiting EXCEPT !.pc = "failed"]
  /\ UNCHANGED <<storeVars, ckpt, blob, clock, sentinel, due>>

(* readCheckpoint, ArtifactsForRun and verifiedRefsByDigest, which goes through
   a Go map in any order. *)
Begin ==
  /\ off.pc = "idle"
  /\ db.run # None
  /\ \E found \in [Digests -> {None} \cup {ckpt[a].ref : a \in Artifacts}] :
       /\ \A d \in Digests :
            IF Verified(d) = {} THEN found[d] = None
            ELSE found[d] \in {ckpt[a].ref : a \in Verified(d)}
       /\ off' = [Waiting EXCEPT !.pc = "next", !.listed = db.art, !.todo = db.art,
                                 !.rows = db.row, !.ck = ckpt, !.found = found]
  /\ UNCHANGED <<storeVars, ckpt, blob, clock, sentinel, due>>

(* updateCheckpoint, in memory. *)
Noted(a, status, d, ref) ==
  [off.ck EXCEPT ![a] = [status |-> status, digest |-> d, ref |-> ref]]

(* Whether the object of a reference is what it was when it was verified. *)
Intact(ref) == blob[ref.art][ref.digest] = ref.digest

(* The artifact has failed and is left to the next pass, *)
Failed(a, d, ref, found) ==
  off' = [off EXCEPT !.pc = "next", !.todo = @ \ {a}, !.cur = None,
                     !.ck = Noted(a, "failed", d, ref), !.found = found]

(* or it is done with, and its row is to be updated unless it has this
   reference and digest already (updatedArtifactRecord). *)
Finished(a, d, ref) ==
  off' = [off EXCEPT !.pc = "next", !.todo = @ \ {a}, !.cur = None,
                     !.ck = Noted(a, "verified", d, ref),
                     !.found = [off.found EXCEPT ![d] = ref],
                     !.updates = IF off.rows[a] = [digest |-> d, ref |-> ref] THEN @
                                 ELSE Append(@, [art |-> a, digest |-> d, ref |-> ref])]

(* The artifacts are taken in the order of their rows; here, in any order. *)
Taken(a) == off.pc = "next" /\ a \in off.todo

\* Mutant: the file is uploaded whatever was recorded of it.
AnyFile(a) == disk[a] \in Digests

(* validateArtifactIdentity: a row without a digest accepts any file. *)
SameFile(a) == disk[a] \in Digests /\ off.rows[a].digest \in {None, disk[a]}

(* What the checkpoint knows of an object with these bytes: the artifact's own
   (verifiedArtifactCheckpoint), or that of another artifact. *)
Known(a, d) ==
  IF off.ck[a].status = "verified" /\ off.ck[a].digest = d THEN off.ck[a].ref
  ELSE off.found[d]

(* The file is not there, or it is not the one that was recorded. *)
Unusable(a) ==
  /\ Taken(a)
  /\ ~SameFile(a)
  /\ Failed(a, None, None, off.found)
  /\ UNCHANGED <<storeVars, ckpt, blob, clock, sentinel, due>>

\* Mutant: what the checkpoint knows is taken for indexed.
SkipUnindexed(a) ==
  /\ Taken(a)
  /\ SameFile(a)
  /\ Known(a, disk[a]) # None
  /\ Intact(Known(a, disk[a]))
  /\ off' = [off EXCEPT !.todo = @ \ {a},
                        !.ck = Noted(a, "verified", disk[a], Known(a, disk[a]))]
  /\ UNCHANGED <<storeVars, ckpt, blob, clock, sentinel, due>>

(* An object with these bytes is known, and it is still there. *)
Skip(a) ==
  LET d == disk[a]
  IN  /\ Taken(a)
      /\ SameFile(a)
      /\ Known(a, d) # None
      /\ Intact(Known(a, d))
      /\ Finished(a, d, Known(a, d))
      /\ UNCHANGED <<storeVars, ckpt, blob, clock, sentinel, due>>

(* It is not, or Verify fails for another reason. *)
SkipFails(a) ==
  LET d == disk[a]
  IN  /\ Taken(a)
      /\ SameFile(a)
      /\ Known(a, d) # None
      /\ IF Intact(Known(a, d)) THEN Fault ELSE UNCHANGED budget
      /\ Failed(a, d, Known(a, d), [off.found EXCEPT ![d] = None])
      /\ UNCHANGED <<db, mirror, disk, lock, proc, stray,
                     ckpt, blob, clock, sentinel, due>>

(* None is known: the reference is made from the digest of the file as it is
   now, *)
StartUpload(a) ==
  /\ Taken(a)
  /\ SameFile(a)
  /\ Known(a, disk[a]) = None
  /\ LET ref == [art |-> a, digest |-> disk[a], stamp |-> clock]
     IN  off' = [off EXCEPT !.pc = "upload", !.cur = ref,
                            !.ck = Noted(a, "uploading", disk[a], ref)]
  /\ clock' = clock + 1
  /\ UNCHANGED <<storeVars, ckpt, blob, sentinel, due>>

(* and the object is written from the file as it is then (UploadFile). *)
Stored(ref) == [blob EXCEPT ![ref.art][ref.digest] = disk[ref.art]]

\* Mutant: nobody looks at the object after the upload.
UploadUnverified ==
  /\ off.pc = "upload"
  /\ disk[off.cur.art] # None
  /\ blob' = Stored(off.cur)
  /\ Finished(off.cur.art, off.cur.digest, off.cur)
  /\ UNCHANGED <<storeVars, ckpt, clock, sentinel, due>>

Upload ==
  LET ref == off.cur
  IN  /\ off.pc = "upload"
      /\ disk[ref.art] # None
      /\ blob' = Stored(ref)
      /\ IF disk[ref.art] = ref.digest THEN Finished(ref.art, ref.digest, ref)
         ELSE Failed(ref.art, ref.digest, ref, off.found)
      /\ UNCHANGED <<storeVars, ckpt, clock, sentinel, due>>

(* The file is gone, the upload fails, or Verify fails after it. *)
UploadFails ==
  LET ref == off.cur
  IN  /\ off.pc = "upload"
      /\ \/ disk[ref.art] = None /\ UNCHANGED <<blob, budget>>
         \/ disk[ref.art] # None /\ Fault /\ blob' \in {blob, Stored(ref)}
      /\ Failed(ref.art, ref.digest, ref, off.found)
      /\ UNCHANGED <<db, mirror, disk, lock, proc, stray, ckpt, clock, sentinel, due>>

(* writeCheckpoint replaces the file atomically. *)
SaveCheckpoint ==
  /\ off.pc = "next"
  /\ off.todo = {}
  /\ ckpt' = off.ck
  /\ off' = [off EXCEPT !.pc = IF off.updates = <<>> THEN "check" ELSE "index"]
  /\ UNCHANGED <<storeVars, blob, clock, sentinel, due>>

(***************************************************************************)
(* UpdateArtifactDurableRefs.                                              *)
(***************************************************************************)
IndexLock ==
  /\ off.pc = "index"
  /\ lock = None
  /\ lock' = Watcher
  /\ off' = [off EXCEPT !.pc = "mirror"]
  /\ UNCHANGED <<db, mirror, disk, proc, budget, stray,
                 ckpt, blob, clock, sentinel, due>>

(* The lock is not to be had in time: the command ends with the error. *)
IndexTimesOut ==
  /\ off.pc = "index"
  /\ lock # None
  /\ off' = [Waiting EXCEPT !.pc = "failed"]
  /\ UNCHANGED <<storeVars, ckpt, blob, clock, sentinel, due>>

(* The rows are updated; then one line for each is appended, *)
IndexAppend ==
  /\ off.pc = "mirror"
  /\ Len(off.offs) < Len(off.updates)
  /\ LET u == off.updates[Len(off.offs) + 1]
     IN  mirror' = Appended(Line("artifacts", u.art, u.ref))
  /\ off' = [off EXCEPT !.offs = Append(@, [log |-> "artifacts",
                                            len |-> Len(mirror["artifacts"])])]
  /\ UNCHANGED <<db, disk, lock, proc, budget, stray,
                 ckpt, blob, clock, sentinel, due>>

(* and the transaction is committed (the command ends, as in WatcherDies, if the
   release of the lock fails then), *)
IndexCommit ==
  /\ off.pc = "mirror"
  /\ Len(off.offs) = Len(off.updates)
  /\ db' = [db EXCEPT !.row = [a \in Artifacts |->
              LET mine == {i \in DOMAIN off.updates : off.updates[i].art = a}
              IN  IF mine = {} THEN @[a]
                  ELSE LET u == off.updates[CHOOSE i \in mine : TRUE]
                       IN  [digest |-> u.digest, ref |-> u.ref]]]
  /\ lock' = None
  /\ off' = [off EXCEPT !.pc = "check", !.updates = <<>>, !.offs = <<>>]
  /\ UNCHANGED <<mirror, disk, proc, budget, stray,
                 ckpt, blob, clock, sentinel, due>>

(* or rolled back, with the lines as far as they can be. *)
IndexFails ==
  /\ off.pc = "mirror"
  /\ Fault
  /\ RolledBack(off.offs)
  /\ lock' = None
  /\ off' = [Waiting EXCEPT !.pc = "failed"]
  /\ UNCHANGED <<db, disk, proc, ckpt, blob, clock, sentinel, due>>

(***************************************************************************)
(* runArtifactOffloadWatch, which goes on after a partial failure, and the *)
(* Deployment that runs the command again when it has ended.               *)
(***************************************************************************)
Check ==
  /\ off.pc = "check"
  /\ off' = IF sentinel THEN [Waiting EXCEPT !.pc = "exited", !.listed = off.listed]
            ELSE Waiting
  /\ UNCHANGED <<storeVars, ckpt, blob, clock, sentinel, due>>

Restart ==
  /\ off.pc \in {"exited", "failed"}
  /\ off' = Waiting
  /\ UNCHANGED <<storeVars, ckpt, blob, clock, sentinel, due>>

(* The command is killed, or its checkpoint cannot be written; when it is
   interrupted between two artifacts, it saves what it has. *)
WatcherDies ==
  /\ off.pc \notin {"idle", "exited", "failed"}
  /\ Fault
  /\ \/ UNCHANGED ckpt
     \/ off.pc = "next" /\ ckpt' = off.ck
  /\ off' = [Waiting EXCEPT !.pc = "failed"]
  /\ lock' = IF lock = Watcher THEN None ELSE lock
  /\ stray' = IF lock = Watcher THEN stray \cup Places(off.offs) ELSE stray
  /\ UNCHANGED <<db, mirror, disk, proc, blob, clock, sentinel, due>>

(***************************************************************************)
(* The workload beside the watcher.                                        *)
(***************************************************************************)

(* `experiment track` records a pointer to a file, with its digest when it is
   named by its path and without one when it is named by a file:// URI. *)
Track(a) ==
  LET lines == IF db.run = None THEN Appended(Line("runs", "succeeded", None))
               ELSE mirror
  IN  /\ budget.calls > 0
      /\ lock = None
      /\ a \in Tracked \ db.art
      /\ \E d \in {None, disk[a]} :
           db' = [db EXCEPT !.art = @ \cup {a}, !.row[a].digest = d,
                            !.run = IF @ = None THEN "succeeded" ELSE @,
                            !.exp = Sorted(None)]
      /\ mirror' = [lines EXCEPT !["artifacts"] = Append(@, Line("artifacts", a, None))]
      /\ budget' = [budget EXCEPT !.calls = @ - 1]
      /\ UNCHANGED <<disk, lock, proc, stray, offVars>>

(* It rewrites a file, *)
Edit(a) ==
  /\ budget.edits > 0
  /\ a \in Tracked
  /\ \E d \in Digests \ {disk[a]} : disk' = [disk EXCEPT ![a] = d]
  /\ budget' = [budget EXCEPT !.edits = @ - 1]
  /\ UNCHANGED <<db, mirror, lock, proc, stray, offVars>>

(* and it writes the completion file when it has recorded everything. *)
Complete ==
  /\ CompletionFile /\ ~sentinel
  /\ sentinel' = TRUE
  /\ due' = db.art
  /\ UNCHANGED <<storeVars, off, ckpt, blob, clock>>

Pass ==
  \/ NoRun \/ Begin \/ Upload \/ SaveCheckpoint \/ IndexLock \/ IndexAppend
  \/ IndexCommit \/ Check \/ Restart
  \/ \E a \in Artifacts : Unusable(a) \/ Skip(a) \/ StartUpload(a)

PassFails ==
  \/ UploadFails \/ IndexTimesOut \/ IndexFails \/ \E a \in Artifacts : SkipFails(a)

Workload == Complete \/ \E a \in Artifacts : Track(a) \/ Edit(a)

Next == (StoreNext /\ UNCHANGED offVars) \/ Pass \/ PassFails \/ WatcherDies \/ Workload

(* The watcher polls for ever, and whoever has called the store goes on. *)
Fairness ==
  /\ WF_vars(Pass \/ PassFails)
  /\ \A p \in Procs : WF_vars(Importer(p) /\ UNCHANGED offVars)

Spec == Init /\ [][Next]_vars /\ Fairness

(***************************************************************************)
(* Properties.                                                             *)
(***************************************************************************)
Updates == [art : Artifacts, digest : Digests, ref : Refs]
Watch == [pc : {"idle", "next", "upload", "index", "mirror", "check", "exited", "failed"},
          listed : SUBSET Artifacts, todo : SUBSET Artifacts,
          rows : [Artifacts -> Rows], ck : [Artifacts -> Entries],
          found : [Digests -> Refs \cup {None}], cur : Refs \cup {None},
          updates : Seq(Updates), offs : Seq(Offsets)]

WatcherTypes ==
  /\ off \in Watch
  /\ ckpt \in [Artifacts -> Entries]
  /\ blob \in [Artifacts -> [Digests -> Contents]]
  /\ clock \in Nat
  /\ sentinel \in BOOLEAN
  /\ due \subseteq Artifacts

(* The file lock is held by whoever is in a transaction, and by nobody else. *)
LockAgrees ==
  /\ lock \in Procs \cup {None, Watcher}
  /\ \A p \in Procs : lock = p <=> proc[p].pc \in {"tx", "mirror"}
  /\ lock = Watcher <=> off.pc = "mirror"

TypeOK ==
  /\ StoreTypes /\ WatcherTypes /\ LockAgrees
  /\ \A a \in Artifacts : db.row[a].ref # None => db.row[a].ref.digest = db.row[a].digest
  /\ \A x \in stray : x[2] \in DOMAIN mirror[x[1]]

(* A reference gets into the database only when the object it names has the
   recorded bytes at that moment, although the file may be rewritten while it
   is uploaded and the pass verifies long before it indexes (Run).  The object
   can have been overwritten in between by a failing upload of the artifact it
   is named after; then the checkpoint says so, and the artifact is uploaded again. *)
OnlyIntactIndexed ==
  [][\A a \in Artifacts :
       LET ref == db'.row[a].ref
       IN  ref \notin {None, db.row[a].ref} => Intact(ref) \/ ckpt[ref.art].status = "failed"]_vars

(* Once recorded, the digest of an artifact never changes: what is behind its
   reference is what was recorded (validateArtifactIdentity). *)
IdentityKept ==
  [][\A a \in Artifacts :
       db.row[a].digest # None => db'.row[a].digest = db.row[a].digest]_vars

(* An artifact whose file is there and is the recorded one is indexed in the
   end, whatever failed before. *)
OffloadEnds ==
  \A a \in Artifacts :
    <>[](a \in db.art /\ disk[a] \in Digests /\ db.row[a].digest \in {None, disk[a]})
      => <>[](db.row[a].ref # None)

(* The flag --completion-file promises a final drain: when the command ends
   because of the sentinel, its last pass has seen all artifacts on record
   when the sentinel appeared. *)
FinalDrain == off.pc = "exited" => due \subseteq off.listed
=============================================================================
