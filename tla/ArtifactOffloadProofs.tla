------------------------ MODULE ArtifactOffloadProofs ------------------------
(***************************************************************************)
(* Machine-checked proofs about the experiment store (ExpStore) and the    *)
(* watcher beside it (ArtifactOffload), for any sets of processes,         *)
(* requests, keys, hashes and artifacts and any bounds: types and locking, *)
(* the refinement of IdempotentLedger, and what the watcher indexes.       *)
(***************************************************************************)
EXTENDS ArtifactOffload, NaturalOrder, SequenceTheorems, TLAPS

-----------------------------------------------------------------------------
(* The inductive invariant *)

\* How far an import is shows in what it holds: a request from the call to the
\* reply, no answer before the decision, a file while it writes.
Staged ==
    \A p \in Procs :
       /\ proc[p].pc = "idle" <=> proc[p].req = None
       /\ proc[p].pc \in {"open", "fill", "existing", "lock", "tx", "mirror"} => proc[p].answer = None
       /\ proc[p].pc \in {"cleanup", "return"} => proc[p].answer # None
       /\ proc[p].pc \in {"open", "fill"} => proc[p].files # <<>>
       /\ proc[p].pc \in {"open", "fill", "existing", "lock", "tx"} => proc[p].offs = <<>>

\* The watcher has something in hand while it uploads, and has appended lines only
\* while it is in its transaction.
WatchStaged ==
    /\ off.pc = "upload" => off.cur # None /\ off.cur.art \in off.todo
    /\ off.pc # "mirror" => off.offs = <<>>

\* Nobody else can use the key between the lookup and the commit.
KeyFree == \A p \in Procs : proc[p].pc = "mirror" => db.key[proc[p].req.key] = None

\* The lines that a transaction would take back are there.
Within(offs) == \A i \in DOMAIN offs : offs[i].len < Len(mirror[offs[i].log])
OffsetsWithin ==
    /\ \A p \in Procs : proc[p].pc \in {"tx", "mirror"} => Within(proc[p].offs)
    /\ off.pc = "mirror" => Within(off.offs)

\* The run is moved to an experiment, and nothing else is changed.
Sorts == Assign \/ EnsureIndex

CoreInv == /\ StoreTypes /\ WatcherTypes /\ LockAgrees
           /\ Staged /\ WatchStaged /\ KeyFree /\ OffsetsWithin

-----------------------------------------------------------------------------
(* Types *)

\* The initial and the reset values are well typed.
LEMMA ResetsType ==
    /\ NoRow \in Rows /\ NoEntry \in Entries /\ Idle \in Process /\ Waiting \in Watch
BY EmptySeq DEF NoRow, Rows, NoEntry, Entries, Idle, Process, Waiting, Watch

\* A process is written as a whole.
LEMMA ProcSet ==
    ASSUME proc \in [Procs -> Process], NEW p \in Procs, proc'[p] \in Process,
           proc' = [proc EXCEPT ![p] = proc'[p]]
    PROVE  proc' \in [Procs -> Process]
BY Zenon

\* The lines that a transaction appends are well formed.
LEMMA NewLinesType ==
    ASSUME StoreTypes, NEW p \in Procs, proc[p].req \in Requests
    PROVE  NewLines(p) \in Seq(Lines)
<1> DEFINE r == proc[p].req
           s1 == IF db.run = None THEN <<Line("runs", Run(p), None)>> ELSE <<>>
           s2 == IF r.art \in {None} \cup db.art THEN <<>> ELSE <<Line("artifacts", r.art, None)>>
           s3 == IF r.hash \in db.metric THEN <<>> ELSE <<Line("metric_files", r.hash, None)>>
           s4 == <<Line("idempotency_keys", r.key, None)>>
<1>1. r.key \in Keys /\ r.hash \in Hashes /\ r.art \in Artifacts \cup {None}
  BY StoreAssumption
<1>2. Run(p) \in RunStates
  <2>1. proc[p] \in Process
    BY DEF StoreTypes
  <2> QED BY <2>1 DEF Run, Process, RunStates
<1>3. /\ Line("runs", Run(p), None) \in Lines
      /\ r.art # None => Line("artifacts", r.art, None) \in Lines
      /\ Line("metric_files", r.hash, None) \in Lines
      /\ Line("idempotency_keys", r.key, None) \in Lines
  BY <1>1, <1>2 DEF Line, Lines, Logs
<1>4. s1 \in Seq(Lines) /\ s2 \in Seq(Lines) /\ s3 \in Seq(Lines) /\ s4 \in Seq(Lines)
  <2> HIDE DEF r
  <2> QED BY <1>3, EmptySeq
<1>5. NewLines(p) = ((s1 \o s2) \o s3) \o s4
  BY DEF NewLines
<1> HIDE DEF s1, s2, s3, s4
<1> QED BY <1>4, <1>5, ConcatProperties

\* What the lock holder takes back leaves sequences of lines.
LEMMA TruncatedType ==
    ASSUME StoreTypes, NEW offs \in Seq(Offsets), Within(offs), NEW done \in SUBSET DOMAIN offs
    PROVE  /\ Truncated(offs, done) \in [Logs -> Seq(Lines)]
           /\ \A l \in Logs : Len(Truncated(offs, done)[l]) <= Len(mirror[l])
<1> SUFFICES ASSUME NEW l \in Logs
             PROVE  Truncated(offs, done)[l] \in Seq(Lines) /\ Len(Truncated(offs, done)[l]) <= Len(mirror[l])
  BY DEF Truncated
<1> DEFINE mine == {i \in done : offs[i].log = l}
           k == CHOOSE i \in mine : \A j \in mine : i <= j
<1>1. mirror[l] \in Seq(Lines) /\ Len(mirror[l]) \in Nat
  BY LenProperties DEF StoreTypes
<1>2. CASE mine = {}
  BY <1>1, <1>2 DEF Truncated
<1>3. CASE mine # {}
  <2>1. mine \subseteq Nat
    BY LenProperties
  <2>2. k \in mine
    <3> HIDE DEF mine
    <3> QED BY <1>3, <2>1, LeastExists
  <2>3. offs[k] \in Offsets /\ offs[k].log = l /\ offs[k].len < Len(mirror[l])
    <3> HIDE DEF k
    <3> QED BY <2>2, ElementOfSeq, LenProperties DEF Within
  <2> DEFINE n == offs[k].len
  <2>4. n \in Nat /\ n < Len(mirror[l])
    BY <2>3 DEF Offsets
  <2>5. Truncated(offs, done)[l] = SubSeq(mirror[l], 1, n)
    BY <1>3 DEF Truncated
  <2> HIDE DEF n
  <2>6. \A i \in 1..n : mirror[l][i] \in Lines
    BY <1>1, <2>4, ElementOfSeq
  <2>7. SubSeq(mirror[l], 1, n) \in Seq(Lines) /\ Len(SubSeq(mirror[l], 1, n)) = n
    BY <1>1, <2>4, <2>6, SubSeqProperties
  <2> QED BY <1>1, <2>4, <2>5, <2>7
<1> QED BY <1>2, <1>3

\* An append to a mirror.
LEMMA AppendedType ==
    ASSUME StoreTypes, NEW line \in Lines
    PROVE  /\ Appended(line) \in [Logs -> Seq(Lines)]
           /\ \A l \in Logs : Len(mirror[l]) <= Len(Appended(line)[l])
           /\ Len(Appended(line)[line.log]) = Len(mirror[line.log]) + 1
<1>1. mirror \in [Logs -> Seq(Lines)] /\ line.log \in Logs
  BY DEF StoreTypes, Lines
<1>2. \A l \in Logs : Len(mirror[l]) \in Nat
  BY <1>1, LenProperties
<1>3. /\ Append(mirror[line.log], line) \in Seq(Lines)
      /\ Len(Append(mirror[line.log], line)) = Len(mirror[line.log]) + 1
  BY <1>1, AppendProperties
<1> QED BY <1>1, <1>2, <1>3 DEF Appended

\* An import keeps its shape, whatever it does next.
LEMMA ImporterShape ==
    ASSUME CoreInv, NEW p \in Procs, Call(p) \/ Crash(p) \/ Importer(p)
    PROVE  /\ proc' = [proc EXCEPT ![p] = proc'[p]]
           /\ proc'[p] \in Process
           /\ Staged'
<1>0. /\ proc \in [Procs -> Process] /\ proc[p] \in Process /\ db \in Database
      /\ mirror \in [Logs -> Seq(Lines)] /\ Staged
      /\ proc[p].pc # "idle" => proc[p].req \in Requests
  BY DEF CoreInv, StoreTypes, Process, Staged
<1> DEFINE Good(q) == /\ q \in Process
                      /\ q.pc = "idle" <=> q.req = None
                      /\ q.pc \in {"open", "fill", "existing", "lock", "tx", "mirror"} => q.answer = None
                      /\ q.pc \in {"cleanup", "return"} => q.answer # None
                      /\ q.pc \in {"open", "fill"} => q.files # <<>>
                      /\ q.pc \in {"open", "fill", "existing", "lock", "tx"} => q.offs = <<>>
<1>1. ASSUME NEW q, Good(q), proc' = [proc EXCEPT ![p] = q]
      PROVE  /\ proc' = [proc EXCEPT ![p] = proc'[p]]
             /\ proc'[p] \in Process
             /\ Staged'
  BY <1>0, <1>1 DEF Staged
<1>2. Good(proc[p])
  BY <1>0 DEF Staged
<1>3. CASE Call(p)
  <2>1. PICK r \in Requests :
           proc' = [proc EXCEPT ![p] = [Idle EXCEPT !.pc = "open", !.req = r,
                       !.files = <<r.hash>> \o (IF r.art = None THEN <<>> ELSE <<r.art>>)]]
    BY <1>3 DEF Call
  <2> DEFINE f == <<r.hash>> \o (IF r.art = None THEN <<>> ELSE <<r.art>>)
  <2>2. f \in Seq(OwnPaths) /\ f # <<>>
    <3>1. r.hash \in OwnPaths /\ (r.art # None => r.art \in OwnPaths)
      BY StoreAssumption DEF Paths, OwnPaths
    <3>2. <<r.hash>> \in Seq(OwnPaths) /\ (IF r.art = None THEN <<>> ELSE <<r.art>>) \in Seq(OwnPaths) /\ <<r.hash>> # <<>>
      BY <3>1
    <3> HIDE DEF f
    <3> QED BY <3>2, ConcatProperties, ConcatEqualIffEmpty DEF f
  <2>3. proc' = [proc EXCEPT ![p] = [Idle EXCEPT !.pc = "open", !.req = r, !.files = f]]
    BY <2>1
  <2> HIDE DEF f
  <2>4. Good([Idle EXCEPT !.pc = "open", !.req = r, !.files = f])
    BY <2>2, ResetsType, StoreAssumption DEF Idle, Process
  <2> QED BY <1>1, <2>3, <2>4
<1>4. CASE Crash(p)
  <2>1. Good(Idle)
    BY ResetsType DEF Idle
  <2> QED BY <1>1, <1>4, <2>1 DEF Crash
<1>5. CASE OpenFile(p)
  <2>1. Good([proc[p] EXCEPT !.pc = "fill"])
    BY <1>0, <1>2, <1>5 DEF OpenFile, Process
  <2> QED BY <1>0, <1>1, <1>5, <2>1 DEF OpenFile
<1>6. CASE FillFile(p)
  <2> DEFINE fs == proc[p].files
             c == IF Len(fs) = 1 THEN "existing" ELSE "open"
             q == [proc[p] EXCEPT !.files = Tail(fs), !.wrote = @ \cup {Head(fs)}, !.pc = c]
  <2>1. proc[p].pc = "fill" /\ fs \in Seq(OwnPaths) /\ fs # <<>>
    BY <1>0, <1>2, <1>6 DEF FillFile, Process
  <2>2. /\ Tail(fs) \in Seq(OwnPaths) /\ Head(fs) \in OwnPaths
        /\ Len(Tail(fs)) = Len(fs) - 1 /\ Len(fs) \in Nat /\ Len(fs) # 0
    BY <2>1, HeadTailProperties, EmptySeq
  <2>3. c = "open" => Tail(fs) # <<>>
    <3>1. Tail(fs) = <<>> => Len(Tail(fs)) = 0
      BY EmptySeq
    <3>2. Tail(fs) = <<>> => Len(fs) = 1
      BY <2>2, <3>1
    <3> QED BY <3>2
  <2>4. c \in {"existing", "open"}
    OBVIOUS
  <2> HIDE DEF c
  <2>5. Good(q)
    BY <1>0, <1>2, <2>1, <2>2, <2>3, <2>4 DEF Process
  <2>6. proc' = [proc EXCEPT ![p] = q]
    BY <1>0, <1>6 DEF FillFile, c
  <2> QED BY <1>1, <2>5, <2>6
<1>7. CASE FillFails(p) \/ LockTimesOut(p) \/ Conflict(p) \/ TxFails(p)
  <2>1. proc[p].pc # "idle"
    BY <1>7 DEF FillFails, LockTimesOut, Conflict, TxFails
  <2>2. Good([proc[p] EXCEPT !.pc = "cleanup", !.answer = "failed"])
    BY <1>0, <1>2, <2>1, StoreAssumption DEF Process, Answers
  <2> QED BY <1>0, <1>1, <1>7, <2>2 DEF FillFails, LockTimesOut, Conflict, TxFails
<1>8. CASE ReadExisting(p)
  <2>1. Good([proc[p] EXCEPT !.pc = "lock", !.seen = db.run, !.exp = db.exp])
    BY <1>0, <1>2, <1>8 DEF ReadExisting, Process, Database
  <2> QED BY <1>0, <1>1, <1>8, <2>1 DEF ReadExisting
<1>9. ASSUME NEW a \in Answers, proc[p].pc # "idle",
             proc' = [proc EXCEPT ![p].pc = "return", ![p].answer = a]
      PROVE  /\ proc' = [proc EXCEPT ![p] = proc'[p]]
             /\ proc'[p] \in Process
             /\ Staged'
  <2>1. Good([proc[p] EXCEPT !.pc = "return", !.answer = a])
    BY <1>0, <1>2, <1>9, StoreAssumption DEF Process, Answers
  <2> QED BY <1>0, <1>1, <1>9, <2>1
<1>10. CASE ReadFails(p) \/ Reused(p) \/ Commit(p)
  <2>1. Good([proc[p] EXCEPT !.pc = "cleanup", !.answer = "failed"])
    BY <1>0, <1>2, <1>10, StoreAssumption DEF ReadFails, Reused, Commit, Process, Answers
  <2>2. ASSUME proc' = [proc EXCEPT ![p].pc = "cleanup", ![p].answer = "failed"]
        PROVE  /\ proc' = [proc EXCEPT ![p] = proc'[p]]
               /\ proc'[p] \in Process
               /\ Staged'
    BY <1>0, <1>1, <2>1, <2>2
  <2> QED BY <1>9, <1>10, <2>2 DEF ReadFails, Reused, Commit, Answers
<1>11. CASE TakeLock(p)
  <2>1. Good([proc[p] EXCEPT !.pc = "tx"])
    BY <1>0, <1>2, <1>11 DEF TakeLock, Process
  <2> QED BY <1>0, <1>1, <1>11, <2>1 DEF TakeLock
<1>12. CASE Insert(p)
  <2> DEFINE n == NewLines(p)
  <2>1. n \in Seq(Lines) /\ proc[p].pc = "tx"
    BY <1>0, <1>12, NewLinesType DEF CoreInv, Insert
  <2> HIDE DEF n
  <2>2. Good([proc[p] EXCEPT !.pc = "mirror", !.todo = n])
    BY <1>0, <1>2, <2>1 DEF Process
  <2> QED BY <1>0, <1>1, <1>12, <2>2 DEF Insert, n
<1>13. CASE AppendMirror(p)
  <2> DEFINE line == Head(proc[p].todo)
             o == [log |-> line.log, len |-> Len(mirror[line.log])]
             q == [proc[p] EXCEPT !.todo = Tail(@), !.offs = Append(@, o)]
  <2>1. proc[p].pc = "mirror" /\ proc[p].todo \in Seq(Lines) /\ proc[p].todo # <<>> /\ proc[p].offs \in Seq(Offsets)
    BY <1>0, <1>13 DEF AppendMirror, Process
  <2>2. line \in Lines /\ Tail(proc[p].todo) \in Seq(Lines)
    BY <2>1, HeadTailProperties
  <2>3. o \in Offsets
    BY <1>0, <2>2, LenProperties DEF Lines, Offsets
  <2>4. Append(proc[p].offs, o) \in Seq(Offsets)
    BY <2>1, <2>3, AppendProperties
  <2>5. proc' = [proc EXCEPT ![p] = q]
    BY <1>0, <1>13 DEF AppendMirror
  <2> HIDE DEF line, o
  <2>6. Good(q)
    BY <1>0, <1>2, <2>1, <2>2, <2>4 DEF Process
  <2> QED BY <1>1, <2>5, <2>6
<1>14. CASE Cleanup(p)
  <2>1. Good([proc[p] EXCEPT !.pc = "return"])
    BY <1>0, <1>2, <1>14 DEF Cleanup, Process
  <2> QED BY <1>0, <1>1, <1>14, <2>1 DEF Cleanup
<1>15. CASE Return(p)
  <2>1. Good([Idle EXCEPT !.answer = proc[p].answer])
    BY <1>0, ResetsType DEF Idle, Process
  <2> QED BY <1>1, <1>15, <2>1 DEF Return
<1> QED BY <1>3, <1>4, <1>5, <1>6, <1>7, <1>8, <1>10, <1>11, <1>12, <1>13, <1>14, <1>15 DEF Importer

\* The store's processes leave the watcher alone, and it leaves them alone.
LEMMA Frames ==
    /\ StoreNext /\ UNCHANGED offVars => UNCHANGED <<off, ckpt, blob, clock, sentinel, due>>
    /\ Pass \/ PassFails \/ WatcherDies => UNCHANGED <<disk, proc, sentinel, due>>
    /\ Workload => UNCHANGED <<off, ckpt, blob, clock, lock, proc, stray>>
<1>1. StoreNext /\ UNCHANGED offVars => UNCHANGED <<off, ckpt, blob, clock, sentinel, due>>
  BY DEF offVars
<1>2. Pass \/ PassFails \/ WatcherDies => UNCHANGED <<disk, proc, sentinel, due>>
  BY DEF Pass, PassFails, WatcherDies, storeVars, NoRun, Begin, Upload, SaveCheckpoint, IndexLock, IndexAppend, IndexCommit,
     Check, Restart, Unusable, Skip, StartUpload, UploadFails, IndexTimesOut, IndexFails, SkipFails
<1>3. Workload => UNCHANGED <<off, ckpt, blob, clock, lock, proc, stray>>
  BY DEF Workload, Complete, Track, Edit, storeVars, offVars
<1> QED BY <1>1, <1>2, <1>3

\* What the checkpoint knows of an object is a reference or nothing.
LEMMA KnownType ==
    ASSUME CoreInv, NEW a \in Artifacts, NEW d \in Digests
    PROVE  Known(a, d) \in Refs \cup {None}
<1>1. off.ck[a] \in Entries /\ off.found[d] \in Refs \cup {None}
  BY DEF CoreInv, WatcherTypes, Watch
<1> QED BY <1>1 DEF Known, Entries

\* The watcher keeps its shape, whatever it does next.
LEMMA WatcherShape ==
    ASSUME CoreInv, Pass \/ PassFails \/ WatcherDies
    PROVE  WatcherTypes' /\ WatchStaged'
<1>0. /\ off \in Watch /\ ckpt \in [Artifacts -> Entries] /\ blob \in [Artifacts -> [Digests -> Contents]]
      /\ clock \in Nat /\ WatchStaged /\ disk \in [Paths -> Contents] /\ db \in Database
      /\ mirror \in [Logs -> Seq(Lines)] /\ sentinel \in BOOLEAN /\ due \subseteq Artifacts
  BY DEF CoreInv, WatcherTypes, StoreTypes
<1> DEFINE Good(o) == /\ o \in Watch
                      /\ o.pc = "upload" => o.cur # None /\ o.cur.art \in o.todo
                      /\ o.pc # "mirror" => o.offs = <<>>
<1>1. Good(off)
  BY <1>0 DEF WatchStaged
<1>2. ASSUME Good(off'), UNCHANGED <<ckpt, blob, clock>> PROVE WatcherTypes' /\ WatchStaged'
  BY <1>0, <1>2, Frames DEF WatcherTypes, WatchStaged
<1>3. Good(Waiting) /\ \A c \in {"failed", "exited"} : Good([Waiting EXCEPT !.pc = c])
  BY ResetsType DEF Waiting, Watch
<1>4. CASE NoRun \/ IndexTimesOut \/ IndexFails \/ Restart \/ WatcherDies
  <2>1. Good(off') /\ UNCHANGED <<blob, clock>> /\ ckpt' \in {ckpt, off.ck}
    BY <1>3, <1>4 DEF NoRun, IndexTimesOut, IndexFails, Restart, WatcherDies, storeVars
  <2>2. off.ck \in [Artifacts -> Entries]
    BY <1>0 DEF Watch
  <2> QED BY <1>0, <2>1, <2>2, Frames DEF WatcherTypes, WatchStaged
<1>5. CASE Check
  <2>1. off.listed \in SUBSET Artifacts
    BY <1>0 DEF Watch
  <2>2. Good([Waiting EXCEPT !.pc = "exited", !.listed = off.listed])
    BY <2>1, ResetsType DEF Waiting, Watch
  <2> QED BY <1>2, <1>3, <1>5, <2>2 DEF Check
<1>6. CASE Begin
  <2>1. PICK found \in [Digests -> {None} \cup {ckpt[a].ref : a \in Artifacts}] :
           off' = [Waiting EXCEPT !.pc = "next", !.listed = db.art, !.todo = db.art,
                                  !.rows = db.row, !.ck = ckpt, !.found = found]
    BY <1>6 DEF Begin
  <2>2. found \in [Digests -> Refs \cup {None}]
    <3>1. \A a \in Artifacts : ckpt[a].ref \in Refs \cup {None}
      BY <1>0 DEF Entries
    <3> QED BY <3>1
  <2>3. db.art \in SUBSET Artifacts /\ db.row \in [Artifacts -> Rows]
    BY <1>0 DEF Database
  <2>4. Good(off')
    BY <1>0, <2>1, <2>2, <2>3, ResetsType DEF Waiting, Watch
  <2> QED BY <1>2, <1>6, <2>4 DEF Begin, storeVars
<1>7. ASSUME NEW a \in Artifacts, NEW d \in Digests \cup {None}, NEW ref \in Refs \cup {None},
             NEW found \in [Digests -> Refs \cup {None}], Failed(a, d, ref, found), off.pc # "mirror"
      PROVE  Good(off')
  <2>1. [status |-> "failed", digest |-> d, ref |-> ref] \in Entries
    BY DEF Entries
  <2>2. Noted(a, "failed", d, ref) \in [Artifacts -> Entries]
    BY <1>0, <2>1 DEF Noted, Watch
  <2> DEFINE n == Noted(a, "failed", d, ref)
  <2>3. off' = [off EXCEPT !.pc = "next", !.todo = @ \ {a}, !.cur = None, !.ck = n, !.found = found]
    BY <1>7 DEF Failed
  <2> HIDE DEF n
  <2> QED BY <1>0, <1>1, <1>7, <2>2, <2>3 DEF Watch, n
<1>8. ASSUME NEW a \in Artifacts, NEW d \in Digests, NEW ref \in Refs, Finished(a, d, ref), off.pc # "mirror"
      PROVE  Good(off')
  <2>1. [status |-> "verified", digest |-> d, ref |-> ref] \in Entries /\ [art |-> a, digest |-> d, ref |-> ref] \in Updates
    BY DEF Entries, Updates
  <2> DEFINE n == Noted(a, "verified", d, ref)
             f == [off.found EXCEPT ![d] = ref]
             u == IF off.rows[a] = [digest |-> d, ref |-> ref] THEN off.updates
                  ELSE Append(off.updates, [art |-> a, digest |-> d, ref |-> ref])
  <2>2. n \in [Artifacts -> Entries] /\ f \in [Digests -> Refs \cup {None}]
    BY <1>0, <2>1 DEF Noted, Watch
  <2>3. u \in Seq(Updates)
    <3>1. off.updates \in Seq(Updates)
      BY <1>0 DEF Watch
    <3> QED BY <2>1, <3>1, AppendProperties
  <2>4. off' = [off EXCEPT !.pc = "next", !.todo = @ \ {a}, !.cur = None, !.ck = n, !.found = f, !.updates = u]
    BY <1>8 DEF Finished
  <2> HIDE DEF n, f, u
  <2> QED BY <1>0, <1>1, <1>8, <2>2, <2>3, <2>4 DEF Watch
<1>9. off.found \in [Digests -> Refs \cup {None}]
  BY <1>0 DEF Watch
<1>10. ASSUME NEW a \in Artifacts, Unusable(a) PROVE WatcherTypes' /\ WatchStaged'
  BY <1>2, <1>7, <1>9, <1>10 DEF Unusable, Taken
<1>11. ASSUME NEW a \in Artifacts, Skip(a) PROVE WatcherTypes' /\ WatchStaged'
  <2>1. disk[a] \in Digests /\ Known(a, disk[a]) \in Refs
    BY <1>11, KnownType DEF Skip, SameFile
  <2>2. Finished(a, disk[a], Known(a, disk[a])) /\ off.pc = "next"
    BY <1>11 DEF Skip, Taken
  <2>3. Good(off')
    BY <1>8, <2>1, <2>2
  <2> QED BY <1>2, <1>11, <2>3 DEF Skip
<1>12. ASSUME NEW a \in Artifacts, SkipFails(a) PROVE WatcherTypes' /\ WatchStaged'
  <2> DEFINE k == Known(a, disk[a])
             f == [off.found EXCEPT ![disk[a]] = None]
  <2>1. disk[a] \in Digests /\ k \in Refs
    BY <1>12, KnownType DEF SkipFails, SameFile
  <2>2. Failed(a, disk[a], k, f) /\ off.pc = "next"
    BY <1>12 DEF SkipFails, Taken
  <2>3. f \in [Digests -> Refs \cup {None}]
    BY <1>9
  <2> HIDE DEF k, f
  <2>4. Good(off')
    BY <1>7, <2>1, <2>2, <2>3
  <2> QED BY <1>2, <1>12, <2>4 DEF SkipFails
<1>13. ASSUME NEW a \in Artifacts, StartUpload(a) PROVE WatcherTypes' /\ WatchStaged'
  <2> DEFINE ref == [art |-> a, digest |-> disk[a], stamp |-> clock]
             n == Noted(a, "uploading", disk[a], ref)
  <2>1. disk[a] \in Digests /\ off.pc = "next" /\ a \in off.todo /\ clock' = clock + 1 /\ UNCHANGED <<ckpt, blob>>
    BY <1>13 DEF StartUpload, SameFile, Taken
  <2>2. ref \in Refs /\ ref.art = a
    BY <1>0, <2>1 DEF Refs
  <2>3. [status |-> "uploading", digest |-> disk[a], ref |-> ref] \in Entries
    <3> HIDE DEF ref
    <3> QED BY <2>1, <2>2 DEF Entries
  <2>4. n \in [Artifacts -> Entries]
    <3> HIDE DEF ref
    <3> QED BY <1>0, <2>3 DEF Noted, Watch, n
  <2>5. off' = [off EXCEPT !.pc = "upload", !.cur = ref, !.ck = n]
    BY <1>13 DEF StartUpload
  <2>6. ref # None
    BY <2>2, WatcherAssumption
  <2> HIDE DEF ref, n
  <2>7. Good(off')
    BY <1>0, <1>1, <2>1, <2>2, <2>4, <2>5, <2>6 DEF Watch
  <2> QED BY <1>0, <2>1, <2>7, Frames DEF WatcherTypes, WatchStaged
<1>14. CASE Upload \/ UploadFails
  <2> DEFINE ref == off.cur
             b == [blob EXCEPT ![ref.art][ref.digest] = disk[ref.art]]
  <2>1. off.pc = "upload" /\ ref \in Refs
    BY <1>0, <1>14 DEF Upload, UploadFails, WatchStaged, Watch
  <2>2. ref.art \in Artifacts /\ ref.digest \in Digests
    BY <2>1 DEF Refs
  <2>3. disk[ref.art] \in Contents
    BY <1>0, <2>2 DEF Paths
  <2>4. b \in [Artifacts -> [Digests -> Contents]]
    <3> HIDE DEF ref
    <3> QED BY <1>0, <2>2, <2>3
  <2>5. blob' \in {blob, b} /\ UNCHANGED <<ckpt, clock>>
    BY <1>14 DEF Upload, UploadFails, Stored
  <2>6. Finished(ref.art, ref.digest, ref) \/ Failed(ref.art, ref.digest, ref, off.found)
    BY <1>14 DEF Upload, UploadFails
  <2>7. Good(off')
    <3> HIDE DEF ref
    <3> QED BY <1>7, <1>8, <1>9, <2>1, <2>2, <2>6
  <2> HIDE DEF b
  <2> QED BY <1>0, <2>4, <2>5, <2>7, Frames DEF WatcherTypes, WatchStaged
<1>15. CASE SaveCheckpoint
  <2> DEFINE c == IF off.updates = <<>> THEN "check" ELSE "index"
  <2>1. off.pc = "next" /\ off' = [off EXCEPT !.pc = c] /\ c \in {"check", "index"}
    BY <1>15 DEF SaveCheckpoint
  <2> HIDE DEF c
  <2>2. Good(off')
    BY <1>0, <1>1, <2>1 DEF Watch
  <2>3. ckpt' \in [Artifacts -> Entries] /\ UNCHANGED <<blob, clock>>
    BY <1>0, <1>15 DEF SaveCheckpoint, Watch
  <2> QED BY <1>0, <2>2, <2>3, Frames DEF WatcherTypes, WatchStaged
<1>16. CASE IndexLock
  <2>1. Good(off')
    BY <1>0, <1>1, <1>16 DEF IndexLock, Watch
  <2> QED BY <1>2, <1>16, <2>1 DEF IndexLock
<1>17. CASE IndexAppend
  <2> DEFINE o == [log |-> "artifacts", len |-> Len(mirror["artifacts"])]
  <2>1. o \in Offsets
    BY <1>0, LenProperties DEF Offsets, Logs
  <2>2. off.pc = "mirror" /\ off' = [off EXCEPT !.offs = Append(off.offs, o)]
    BY <1>17 DEF IndexAppend
  <2> HIDE DEF o
  <2>3. Append(off.offs, o) \in Seq(Offsets)
    BY <1>0, <2>1, AppendProperties DEF Watch
  <2>4. Good(off')
    BY <1>0, <2>2, <2>3 DEF Watch
  <2> QED BY <1>2, <1>17, <2>4 DEF IndexAppend
<1>18. CASE IndexCommit
  <2>1. off' = [off EXCEPT !.pc = "check", !.updates = <<>>, !.offs = <<>>]
    BY <1>18 DEF IndexCommit
  <2>2. Good(off')
    BY <1>0, <2>1, EmptySeq DEF Watch
  <2> QED BY <1>2, <1>18, <2>2 DEF IndexCommit
<1> QED BY <1>4, <1>5, <1>6, <1>10, <1>11, <1>12, <1>13, <1>14, <1>15, <1>16, <1>17, <1>18 DEF Pass, PassFails

\* The tables stay well formed, and only the transactions write them.
LEMMA DbShape ==
    ASSUME CoreInv, [Next]_vars
    PROVE  /\ db' \in Database
           /\ \/ db' = db
              \/ \E p \in Procs : Commit(p)
              \/ Enrich /\ UNCHANGED <<db.key, db.metric, db.art, db.row>>
              \/ Sorts /\ UNCHANGED <<db.key, db.run, db.metric, db.art, db.row>>
              \/ /\ \E a \in Tracked \ db.art : Track(a) /\ db'.art = db.art \cup {a}
                 /\ UNCHANGED <<db.key, db.metric>>
              \/ IndexCommit /\ UNCHANGED <<db.key, db.run, db.metric, db.art>>
<1>0. db \in Database /\ off \in Watch /\ proc \in [Procs -> Process] /\ disk \in [Paths -> Contents] /\ Staged
  BY DEF CoreInv, StoreTypes, WatcherTypes
<1>1. ASSUME NEW p \in Procs, Commit(p) PROVE db' \in Database
  <2> DEFINE r == proc[p].req
             q == Run(p)
             w == [a \in Artifacts |-> IF a = r.art /\ a \notin db.art THEN [digest |-> Bytes[a], ref |-> None] ELSE db.row[a]]
             e == Sorted(proc[p].exp)
  <2>1. r \in Requests
    BY <1>0, <1>1 DEF Commit, Staged, Process
  <2>2. r.key \in Keys /\ r.hash \in Hashes /\ r.art \in Artifacts \cup {None}
    BY <2>1, StoreAssumption
  <2>3. q \in RunStates
    BY <1>0 DEF Run, Process, RunStates
  <2>4. w \in [Artifacts -> Rows]
    <3>1. \A a \in Artifacts : [digest |-> Bytes[a], ref |-> None] \in Rows /\ db.row[a] \in Rows
      BY <1>0 DEF Rows, Digests, Database
    <3> QED BY <3>1
  <2>5. db' = [db EXCEPT !.key[r.key] = r.hash, !.run = IF @ = None THEN q ELSE @, !.exp = e, !.metric = @ \cup {r.hash},
                         !.art = @ \cup ({r.art} \ {None}), !.row = w]
    BY <1>1 DEF Commit, Recorded
  <2>6. e \in Experiments \cup {None}
    BY <1>0 DEF Sorted, Experiments, Process, Database
  <2> HIDE DEF r, q, w, e
  <2> QED BY <1>0, <2>2, <2>3, <2>4, <2>5, <2>6 DEF Database
<1>2. ASSUME Enrich PROVE db' \in Database /\ UNCHANGED <<db.key, db.metric, db.art, db.row>>
  <2>1. PICK s \in RunStates : db' = [db EXCEPT !.run = s]
    BY <1>2 DEF Enrich
  <2> QED BY <1>0, <2>1 DEF Database
<1>3. ASSUME NEW a \in Artifacts, Track(a)
      PROVE  db' \in Database /\ a \in Tracked \ db.art /\ db'.art = db.art \cup {a} /\ UNCHANGED <<db.key, db.metric>>
  <2>1. a \in Tracked \ db.art
    BY <1>3 DEF Track
  <2>2. PICK d \in {None, disk[a]} : db' = [db EXCEPT !.art = @ \cup {a}, !.row[a].digest = d,
                                                      !.run = IF @ = None THEN "succeeded" ELSE @,
                                                      !.exp = Sorted(None)]
    BY <1>3 DEF Track
  <2>3. d \in Digests \cup {None}
    BY <2>1 DEF CoreInv, StoreTypes
  <2>4. [db.row EXCEPT ![a].digest = d] \in [Artifacts -> Rows]
    BY <1>0, <2>3 DEF Database, Rows
  <2>5. Sorted(None) \in Experiments \cup {None}
    BY <1>0 DEF Sorted, Experiments, Database
  <2> QED BY <1>0, <2>1, <2>2, <2>3, <2>4, <2>5 DEF Database, RunStates
<1>4. ASSUME IndexCommit
      PROVE  db' \in Database /\ UNCHANGED <<db.key, db.run, db.metric, db.art>>
  <2> DEFINE mine(a) == {i \in DOMAIN off.updates : off.updates[i].art = a}
             u(a) == off.updates[CHOOSE i \in mine(a) : TRUE]
             w == [a \in Artifacts |-> IF mine(a) = {} THEN db.row[a] ELSE [digest |-> u(a).digest, ref |-> u(a).ref]]
  <2>1. ASSUME NEW a \in Artifacts, mine(a) # {} PROVE [digest |-> u(a).digest, ref |-> u(a).ref] \in Rows
    <3> DEFINE k == CHOOSE i \in mine(a) : TRUE
    <3>1. k \in DOMAIN off.updates
      BY <2>1
    <3>2. off.updates \in Seq(Updates)
      BY <1>0 DEF Watch
    <3> HIDE DEF k
    <3>3. off.updates[k] \in Updates
      BY <3>1, <3>2, ElementOfSeq, LenProperties
    <3>4. u(a) = off.updates[k]
      BY DEF k
    <3> QED BY <3>3, <3>4 DEF Updates, Rows
  <2>2. w \in [Artifacts -> Rows]
    <3>1. \A a \in Artifacts : db.row[a] \in Rows
      BY <1>0 DEF Database
    <3> HIDE DEF mine, u
    <3> QED BY <2>1, <3>1
  <2>3. db' = [db EXCEPT !.row = w]
    BY <1>4 DEF IndexCommit
  <2> HIDE DEF w
  <2> QED BY <1>0, <2>2, <2>3 DEF Database
<1>5. ASSUME Sorts PROVE db' \in Database /\ UNCHANGED <<db.key, db.run, db.metric, db.art, db.row>>
  <2>1. PICK e \in Experiments : db' = [db EXCEPT !.exp = e]
    BY <1>5 DEF Sorts, Assign, EnsureIndex, Experiments
  <2> QED BY <1>0, <2>1 DEF Database
<1>6. \/ db' = db \/ Enrich \/ Sorts \/ IndexCommit
      \/ \E p \in Procs : Commit(p)
      \/ \E a \in Artifacts : Track(a)
  BY DEF Next, vars, StoreNext, Call, Crash, Importer, OpenFile, FillFile, FillFails, ReadExisting, ReadFails, TakeLock,
     LockTimesOut, Reused, Conflict, Insert, AppendMirror, TxFails, Cleanup, Return, Pass, PassFails, WatcherDies, Workload,
     storeVars, NoRun, Begin, Upload, SaveCheckpoint, IndexLock, IndexAppend, Check, Restart, Unusable, Skip, StartUpload,
     UploadFails, IndexTimesOut, IndexFails, SkipFails, Complete, Edit, Sorts
<1> QED BY <1>0, <1>1, <1>2, <1>3, <1>4, <1>5, <1>6

\* The files stay well formed, and nobody but the workload writes its own.
LEMMA DiskShape ==
    ASSUME CoreInv, [Next]_vars
    PROVE  disk' \in [Paths -> Contents] /\ \A a \in Tracked : disk'[a] \in Digests
<1>0. /\ disk \in [Paths -> Contents] /\ \A a \in Tracked : disk[a] \in Digests
      /\ proc \in [Procs -> Process] /\ Staged /\ Digests \subseteq Contents /\ Tracked \subseteq Paths
  BY StoreAssumption DEF CoreInv, StoreTypes, Contents, Paths
<1>1. ASSUME NEW p \in Procs, OpenFile(p) \/ FillFile(p)
      PROVE  disk' \in [Paths -> Contents] /\ \A a \in Tracked : disk'[a] \in Digests
  <2> DEFINE f == Head(proc[p].files)
             c == IF f \in Artifacts THEN Bytes[f] ELSE f
  <2>1. f \in OwnPaths
    <3>1. proc[p].files \in Seq(OwnPaths) /\ proc[p].files # <<>>
      BY <1>0, <1>1 DEF OpenFile, FillFile, Staged, Process
    <3> QED BY <3>1, HeadTailProperties
  <2>2. f \in Paths /\ f \notin Tracked
    BY <2>1 DEF OwnPaths
  <2>3. c \in Contents /\ "torn" \in Contents
    BY <2>2 DEF Contents, Digests, Paths
  <2>4. disk' = [disk EXCEPT ![f] = c] \/ disk' = [disk EXCEPT ![f] = "torn"]
    BY <1>1 DEF OpenFile, FillFile
  <2> HIDE DEF f, c
  <2> QED BY <1>0, <2>2, <2>3, <2>4
<1>2. ASSUME NEW p \in Procs, Cleanup(p)
      PROVE  disk' \in [Paths -> Contents] /\ \A a \in Tracked : disk'[a] \in Digests
  <2>1. proc[p].wrote \subseteq OwnPaths
    BY <1>0 DEF Process
  <2> QED BY <1>0, <1>2, <2>1 DEF Cleanup, OwnPaths, Contents
<1>3. ASSUME NEW a \in Artifacts, Edit(a)
      PROVE  disk' \in [Paths -> Contents] /\ \A x \in Tracked : disk'[x] \in Digests
  BY <1>0, <1>3 DEF Edit
<1>4. \/ disk' = disk
      \/ \E p \in Procs : OpenFile(p) \/ FillFile(p) \/ Cleanup(p)
      \/ \E a \in Artifacts : Edit(a)
  BY DEF Next, vars, StoreNext, Enrich, Assign, EnsureIndex, Call, Crash, Importer, FillFails, ReadExisting, ReadFails, TakeLock, Commit,
     LockTimesOut, Reused, Conflict, Insert, AppendMirror, TxFails, Return, Pass, PassFails, WatcherDies, Workload,
     storeVars, NoRun, Begin, Upload, SaveCheckpoint, IndexLock, IndexAppend, IndexCommit, Check, Restart, Unusable, Skip,
     StartUpload, UploadFails, IndexTimesOut, IndexFails, SkipFails, Complete, Track
<1> QED BY <1>0, <1>1, <1>2, <1>3, <1>4

\* The budgets count down to zero.
LEMMA BudgetShape ==
    ASSUME CoreInv, [Next]_vars
    PROVE  budget' \in [calls : Nat, edits : Nat, faults : Nat]
<1>0. budget \in [calls : Nat, edits : Nat, faults : Nat]
  BY DEF CoreInv, StoreTypes
<1>1. \/ budget' = budget \/ Fault
      \/ budget.edits > 0 /\ budget' = [budget EXCEPT !.edits = @ - 1]
      \/ budget.calls > 0 /\ budget' = [budget EXCEPT !.calls = @ - 1]
  BY DEF Next, vars, StoreNext, Enrich, Assign, EnsureIndex, Call, Crash, Importer, OpenFile, FillFile, FillFails, ReadExisting, ReadFails, TakeLock,
     LockTimesOut, Reused, Conflict, Insert, AppendMirror, Commit, TxFails, Cleanup, Return, Pass, PassFails, WatcherDies, Workload,
     storeVars, NoRun, Begin, Upload, SaveCheckpoint, IndexLock, IndexAppend, IndexCommit, Check, Restart, Unusable, Skip,
     StartUpload, UploadFails, IndexTimesOut, IndexFails, SkipFails, Complete, Track, Edit
<1> QED BY <1>0, <1>1 DEF Fault
-----------------------------------------------------------------------------
(* Locking *)

InTx(q) == q.pc \in {"tx", "mirror"}

\* A transaction begins and ends with the lock: what a step does to the lock shows
\* in how far the one who takes it is.
LEMMA ImporterLock ==
    ASSUME CoreInv, NEW p \in Procs, Call(p) \/ Crash(p) \/ Importer(p)
    PROVE  \/ lock' = lock /\ (InTx(proc'[p]) <=> InTx(proc[p]))
           \/ lock = None /\ lock' = p /\ InTx(proc'[p])
           \/ lock = p /\ lock' = None /\ ~InTx(proc'[p])
<1>0. proc \in [Procs -> Process] /\ proc[p] \in Process /\ (lock = p <=> InTx(proc[p])) /\ p # None
  BY StoreAssumption DEF CoreInv, StoreTypes, LockAgrees, InTx
<1> DEFINE Fits == \/ lock' = lock /\ (InTx(proc'[p]) <=> InTx(proc[p]))
                   \/ lock = None /\ lock' = p /\ InTx(proc'[p])
                   \/ lock = p /\ lock' = None /\ ~InTx(proc'[p])
<1>1. ASSUME NEW q, proc' = [proc EXCEPT ![p] = q] PROVE proc'[p] = q
  BY <1>0, <1>1
<1>2. ASSUME Call(p) PROVE Fits
  <2>1. PICK r \in Requests :
           proc' = [proc EXCEPT ![p] = [Idle EXCEPT !.pc = "open", !.req = r,
                       !.files = <<r.hash>> \o (IF r.art = None THEN <<>> ELSE <<r.art>>)]]
    BY <1>2 DEF Call
  <2>2. proc'[p].pc = "open" /\ proc[p].pc = "idle" /\ lock' = lock
    BY <1>0, <1>2, <2>1 DEF Call, Idle
  <2> QED BY <2>2 DEF InTx
<1>3. ASSUME Crash(p) PROVE Fits
  <2>1. proc'[p].pc = "idle"
    BY <1>0, <1>3 DEF Crash, Idle
  <2> QED BY <1>0, <1>3, <2>1 DEF Crash, InTx
<1>4. ASSUME Return(p) PROVE Fits
  <2>1. proc'[p].pc = "idle" /\ proc[p].pc = "return" /\ lock' = lock
    BY <1>0, <1>4 DEF Return, Idle
  <2> QED BY <2>1 DEF InTx
<1>5. ASSUME OpenFile(p) \/ FillFails(p) \/ ReadExisting(p) \/ ReadFails(p) \/ LockTimesOut(p) \/ Insert(p) \/ Cleanup(p)
      PROVE  Fits
  <2>1. /\ lock' = lock
        /\ \/ proc[p].pc \in {"open", "fill", "existing", "lock", "cleanup"} /\ proc'[p].pc \in {"fill", "cleanup", "lock", "return"}
           \/ proc[p].pc = "tx" /\ proc'[p].pc = "mirror"
    BY <1>0, <1>5 DEF OpenFile, FillFails, ReadExisting, ReadFails, LockTimesOut, Insert, Cleanup, Process
  <2> QED BY <2>1 DEF InTx
<1>6. ASSUME FillFile(p) PROVE Fits
  <2>1. lock' = lock /\ proc[p].pc = "fill" /\ proc'[p].pc \in {"existing", "open"}
    BY <1>0, <1>6 DEF FillFile, Process
  <2> QED BY <2>1 DEF InTx
<1>7. ASSUME TakeLock(p) PROVE Fits
  BY <1>0, <1>7 DEF TakeLock, Process, InTx
<1>8. ASSUME Reused(p) \/ Conflict(p) \/ Commit(p) \/ TxFails(p) PROVE Fits
  <2>1. lock' = None /\ InTx(proc[p]) /\ proc'[p].pc \in {"return", "cleanup"}
    BY <1>0, <1>8 DEF Reused, Conflict, Commit, TxFails, Process, InTx
  <2> QED BY <1>0, <2>1 DEF InTx
<1>9. ASSUME AppendMirror(p) PROVE Fits
  <2>1. lock' = lock /\ proc[p].pc = "mirror" /\ proc'[p].pc = "mirror"
    BY <1>0, <1>9 DEF AppendMirror, Process
  <2> QED BY <2>1 DEF InTx
<1> QED BY <1>2, <1>3, <1>4, <1>5, <1>6, <1>7, <1>8, <1>9 DEF Importer

\* The same for the watcher.
LEMMA WatcherLock ==
    ASSUME CoreInv, Pass \/ PassFails \/ WatcherDies
    PROVE  \/ lock' = lock /\ (off'.pc = "mirror" <=> off.pc = "mirror")
           \/ lock = None /\ lock' = Watcher /\ off'.pc = "mirror"
           \/ lock = Watcher /\ lock' = None /\ off'.pc # "mirror"
<1>0. off \in Watch /\ (lock = Watcher <=> off.pc = "mirror") /\ Watcher # None
  BY WatcherAssumption DEF CoreInv, WatcherTypes, LockAgrees
<1> DEFINE Fits == \/ lock' = lock /\ (off'.pc = "mirror" <=> off.pc = "mirror")
                   \/ lock = None /\ lock' = Watcher /\ off'.pc = "mirror"
                   \/ lock = Watcher /\ lock' = None /\ off'.pc # "mirror"
<1>1. ASSUME NoRun \/ IndexTimesOut \/ Restart \/ Check PROVE Fits
  <2>1. lock' = lock /\ off.pc # "mirror"
    BY <1>1 DEF NoRun, IndexTimesOut, Restart, Check, storeVars
  <2>2. /\ Waiting.pc = "idle" /\ [Waiting EXCEPT !.pc = "failed"].pc = "failed"
        /\ [Waiting EXCEPT !.pc = "exited", !.listed = off.listed].pc = "exited"
    BY DEF Waiting
  <2>3. off'.pc # "mirror"
    BY <1>1, <2>2 DEF NoRun, IndexTimesOut, Restart, Check
  <2> QED BY <2>1, <2>3
<1>2. ASSUME IndexFails \/ WatcherDies PROVE Fits
  BY <1>0, <1>2 DEF IndexFails, WatcherDies, Waiting
<1>3. ASSUME Begin PROVE Fits
  <2>1. off.pc = "idle" /\ lock' = lock /\ off'.pc = "next"
    BY <1>3 DEF Begin, Waiting, storeVars
  <2> QED BY <2>1
<1>4. ASSUME NEW a \in Artifacts, Unusable(a) \/ Skip(a) \/ SkipFails(a) \/ StartUpload(a) PROVE Fits
  <2>1. off.pc = "next" /\ lock' = lock
    BY <1>4 DEF Unusable, Skip, SkipFails, StartUpload, Taken, storeVars
  <2>2. off'.pc \in {"next", "upload"}
    BY <1>0, <1>4 DEF Unusable, Skip, SkipFails, StartUpload, Finished, Failed, Watch
  <2> QED BY <2>1, <2>2
<1>5. ASSUME Upload \/ UploadFails PROVE Fits
  <2>1. off.pc = "upload" /\ lock' = lock
    BY <1>5 DEF Upload, UploadFails, storeVars
  <2>2. off'.pc = "next"
    BY <1>0, <1>5 DEF Upload, UploadFails, Finished, Failed, Watch
  <2> QED BY <2>1, <2>2
<1>6. ASSUME SaveCheckpoint PROVE Fits
  <2>1. off.pc = "next" /\ lock' = lock /\ off'.pc \in {"check", "index"}
    BY <1>0, <1>6 DEF SaveCheckpoint, storeVars, Watch
  <2> QED BY <2>1
<1>7. ASSUME IndexLock \/ IndexAppend \/ IndexCommit PROVE Fits
  BY <1>0, <1>7 DEF IndexLock, IndexAppend, IndexCommit, Watch
<1> QED BY <1>1, <1>2, <1>3, <1>4, <1>5, <1>6, <1>7 DEF Pass, PassFails

\* Who takes a step.
LEMMA Steps ==
    ASSUME [Next]_vars
    PROVE  \/ UNCHANGED <<storeVars, offVars>>
           \/ (Enrich \/ Sorts) /\ UNCHANGED <<off, ckpt, blob, clock, sentinel, due>>
           \/ \E p \in Procs : (Call(p) \/ Crash(p) \/ Importer(p)) /\ UNCHANGED <<off, ckpt, blob, clock, sentinel, due>>
           \/ Pass \/ PassFails \/ WatcherDies
           \/ Workload
BY DEF Next, vars, StoreNext, offVars, Sorts

\* The lock is held by whoever is in a transaction, after every step.
LEMMA LockStep ==
    ASSUME CoreInv, [Next]_vars
    PROVE  LockAgrees'
<1>0. LockAgrees /\ proc \in [Procs -> Process] /\ Watcher \notin Procs \cup {None} /\ None \notin Procs
  BY StoreAssumption, WatcherAssumption DEF CoreInv, StoreTypes
<1>1. ASSUME NEW p \in Procs, Call(p) \/ Crash(p) \/ Importer(p), off' = off
      PROVE  LockAgrees'
  BY <1>0, <1>1, ImporterShape, ImporterLock DEF LockAgrees, InTx
<1>2. ASSUME Pass \/ PassFails \/ WatcherDies PROVE LockAgrees'
  BY <1>0, <1>2, WatcherLock, Frames DEF LockAgrees
<1>3. ASSUME UNCHANGED <<lock, proc, off>> PROVE LockAgrees'
  BY <1>0, <1>3 DEF LockAgrees
<1>4. ASSUME Enrich \/ Sorts PROVE UNCHANGED <<lock, proc>>
  BY <1>4 DEF Enrich, Sorts, Assign, EnsureIndex
<1> QED BY <1>1, <1>2, <1>3, <1>4, Steps, Frames DEF storeVars, offVars
-----------------------------------------------------------------------------
(* The mirrors *)

\* The mirrors stay sequences of lines, and they grow except where the holder of the
\* lock takes its lines back.
LEMMA MirrorShape ==
    ASSUME CoreInv, [Next]_vars
    PROVE  /\ mirror' \in [Logs -> Seq(Lines)]
           /\ \/ \A l \in Logs : Len(mirror[l]) <= Len(mirror'[l])
              \/ \E p \in Procs : TxFails(p)
              \/ IndexFails
<1> DEFINE Grows == mirror' \in [Logs -> Seq(Lines)] /\ \A l \in Logs : Len(mirror[l]) <= Len(mirror'[l])
<1>0. /\ StoreTypes /\ mirror \in [Logs -> Seq(Lines)] /\ proc \in [Procs -> Process] /\ off \in Watch
      /\ \A l \in Logs : Len(mirror[l]) \in Nat
  BY LenProperties DEF CoreInv, StoreTypes, WatcherTypes
<1>1. ASSUME NEW line \in Lines, mirror' = Appended(line) PROVE Grows
  BY <1>0, <1>1, AppendedType
<1>2. ASSUME NEW p \in Procs, AppendMirror(p) PROVE Grows
  <2>1. proc[p].todo \in Seq(Lines) /\ proc[p].todo # <<>> /\ mirror' = Appended(Head(proc[p].todo))
    BY <1>0, <1>2 DEF AppendMirror, Process
  <2>2. Head(proc[p].todo) \in Lines
    BY <2>1, HeadTailProperties
  <2> QED BY <1>1, <2>1, <2>2
<1>3. ASSUME NEW p \in Procs, TxFails(p) PROVE mirror' \in [Logs -> Seq(Lines)]
  <2>1. proc[p].offs \in Seq(Offsets) /\ Within(proc[p].offs)
    BY <1>0, <1>3 DEF TxFails, Process, CoreInv, OffsetsWithin
  <2>2. PICK done \in SUBSET DOMAIN proc[p].offs : mirror' = Truncated(proc[p].offs, done)
    BY <1>3 DEF TxFails, RolledBack
  <2> QED BY <1>0, <2>1, <2>2, TruncatedType
<1>4. ASSUME IndexFails PROVE mirror' \in [Logs -> Seq(Lines)]
  <2>1. off.offs \in Seq(Offsets) /\ Within(off.offs)
    BY <1>0, <1>4 DEF IndexFails, Watch, CoreInv, OffsetsWithin
  <2>2. PICK done \in SUBSET DOMAIN off.offs : mirror' = Truncated(off.offs, done)
    BY <1>4 DEF IndexFails, RolledBack
  <2> QED BY <1>0, <2>1, <2>2, TruncatedType
<1>5. ASSUME Enrich PROVE Grows
  <2>1. PICK s \in RunStates : mirror' = Appended(Line("runs", s, None))
    BY <1>5 DEF Enrich
  <2>2. Line("runs", s, None) \in Lines
    BY DEF Line, Lines, Logs
  <2> QED BY <1>1, <2>1, <2>2
<1>6. ASSUME IndexAppend PROVE Grows
  <2> DEFINE k == Len(off.offs) + 1
             u == off.updates[k]
  <2>1. off.offs \in Seq(Offsets) /\ off.updates \in Seq(Updates) /\ Len(off.offs) < Len(off.updates)
    BY <1>0, <1>6 DEF Watch, IndexAppend
  <2>2. k \in 1..Len(off.updates)
    BY <2>1, LenProperties
  <2>3. u \in Updates
    <3> HIDE DEF k
    <3> QED BY <2>1, <2>2, ElementOfSeq
  <2>4. mirror' = Appended(Line("artifacts", u.art, u.ref))
    BY <1>6 DEF IndexAppend
  <2> HIDE DEF u
  <2>5. Line("artifacts", u.art, u.ref) \in Lines
    BY <2>3 DEF Updates, Line, Lines, Logs
  <2> QED BY <1>1, <2>4, <2>5
<1>7. ASSUME NEW a \in Artifacts, Track(a) PROVE Grows
  <2> DEFINE first == IF db.run = None THEN Appended(Line("runs", "succeeded", None)) ELSE mirror
  <2>1. Line("runs", "succeeded", None) \in Lines /\ Line("artifacts", a, None) \in Lines
    BY DEF Line, Lines, Logs, RunStates
  <2>2. first \in [Logs -> Seq(Lines)] /\ \A l \in Logs : Len(mirror[l]) <= Len(first[l])
    BY <1>0, <2>1, AppendedType
  <2>3. mirror' = [first EXCEPT !["artifacts"] = Append(@, Line("artifacts", a, None))]
    BY <1>7 DEF Track
  <2> HIDE DEF first
  <2>4. /\ Append(first["artifacts"], Line("artifacts", a, None)) \in Seq(Lines)
        /\ Len(Append(first["artifacts"], Line("artifacts", a, None))) = Len(first["artifacts"]) + 1
    BY <2>1, <2>2, AppendProperties DEF Logs
  <2>5. \A l \in Logs : Len(first[l]) \in Nat
    BY <2>2, LenProperties
  <2>6. \A l \in Logs : mirror'[l] = IF l = "artifacts" THEN Append(first["artifacts"], Line("artifacts", a, None)) ELSE first[l]
    BY <2>2, <2>3
  <2>7. mirror' \in [Logs -> Seq(Lines)]
    BY <2>2, <2>3, <2>4
  <2>8. ASSUME NEW l \in Logs PROVE Len(first[l]) <= Len(mirror'[l])
    <3>1. CASE l = "artifacts"
      <4>1. mirror'[l] = Append(first["artifacts"], Line("artifacts", a, None)) /\ first[l] = first["artifacts"]
        BY <2>6, <3>1
      <4>2. Len(mirror'[l]) = Len(first[l]) + 1 /\ Len(first[l]) \in Nat
        BY <2>4, <2>5, <4>1
      <4> QED BY <4>2
    <3>2. CASE l # "artifacts"
      BY <2>5, <2>6, <3>2
    <3> QED BY <3>1, <3>2
  <2> QED BY <1>0, <2>2, <2>5, <2>7, <2>8
<1>8. \/ mirror' = mirror \/ Enrich \/ IndexAppend \/ IndexFails
      \/ \E p \in Procs : AppendMirror(p) \/ TxFails(p)
      \/ \E a \in Artifacts : Track(a)
  BY DEF Next, vars, StoreNext, Assign, EnsureIndex, Call, Crash, Importer, OpenFile, FillFile, FillFails, ReadExisting, ReadFails, TakeLock,
     LockTimesOut, Reused, Conflict, Insert, Commit, Cleanup, Return, Pass, PassFails, WatcherDies, Workload,
     storeVars, NoRun, Begin, Upload, SaveCheckpoint, IndexLock, IndexCommit, Check, Restart, Unusable, Skip, StartUpload,
     UploadFails, IndexTimesOut, SkipFails, Complete, Edit
<1> QED BY <1>0, <1>2, <1>3, <1>4, <1>5, <1>6, <1>7, <1>8

\* Places of lines are places of lines.
LEMMA StrayShape ==
    ASSUME CoreInv, [Next]_vars
    PROVE  stray' \subseteq Logs \X Nat
<1>0. stray \subseteq Logs \X Nat /\ proc \in [Procs -> Process] /\ off \in Watch
  BY DEF CoreInv, StoreTypes, WatcherTypes
<1>1. ASSUME NEW offs \in Seq(Offsets) PROVE Places(offs) \subseteq Logs \X Nat
  <2>1. \A i \in DOMAIN offs : offs[i] \in Offsets
    BY ElementOfSeq, LenProperties
  <2> QED BY <2>1 DEF Places, Offsets
<1>2. /\ \A p \in Procs : Places(proc[p].offs) \subseteq Logs \X Nat
      /\ Places(off.offs) \subseteq Logs \X Nat
  BY <1>0, <1>1 DEF Process, Watch
<1>3. ASSUME NEW offs, RolledBack(offs) PROVE stray' \subseteq stray \cup Places(offs)
  BY <1>3 DEF RolledBack, Places
<1>4. \/ stray' = stray
      \/ \E p \in Procs : stray' = stray \cup Places(proc[p].offs) \/ RolledBack(proc[p].offs)
      \/ stray' = stray \cup Places(off.offs)
      \/ RolledBack(off.offs)
  BY DEF Next, vars, StoreNext, Enrich, Assign, EnsureIndex, Call, Crash, Importer, OpenFile, FillFile, FillFails, ReadExisting, ReadFails, TakeLock,
     LockTimesOut, Reused, Conflict, Insert, AppendMirror, Commit, TxFails, Cleanup, Return, Pass, PassFails, WatcherDies, Workload,
     storeVars, NoRun, Begin, Upload, SaveCheckpoint, IndexLock, IndexAppend, IndexCommit, Check, Restart, Unusable, Skip,
     StartUpload, UploadFails, IndexTimesOut, IndexFails, SkipFails, Complete, Track, Edit
<1> QED BY <1>0, <1>2, <1>3, <1>4
\* Nobody uses a key between another one's lookup and commit: both are in one
\* transaction, and there is one at a time.
LEMMA KeyStep ==
    ASSUME CoreInv, [Next]_vars
    PROVE  KeyFree'
<1>0. /\ proc \in [Procs -> Process] /\ db \in Database /\ LockAgrees /\ KeyFree /\ Staged
      /\ Watcher \notin Procs \cup {None} /\ None \notin Procs
  BY StoreAssumption, WatcherAssumption DEF CoreInv, StoreTypes
<1>1. ASSUME UNCHANGED proc, db'.key = db.key PROVE KeyFree'
  BY <1>0, <1>1 DEF KeyFree
<1>2. ASSUME ~ \E p \in Procs : Commit(p) PROVE db'.key = db.key
  BY <1>2, DbShape
<1>3. ASSUME NEW p \in Procs, Call(p) \/ Crash(p) \/ Importer(p) PROVE KeyFree'
  <2>1. ASSUME Commit(p) PROVE KeyFree'
    <3>1. lock = p /\ lock' = None
      BY <1>0, <2>1 DEF Commit, LockAgrees
    <3>2. \A q \in Procs : proc'[q].pc \notin {"tx", "mirror"}
      BY <3>1, <1>0, LockStep DEF LockAgrees
    <3> QED BY <3>2 DEF KeyFree
  <2>2. ASSUME ~Commit(p) PROVE KeyFree'
    <3>1. ASSUME NEW q \in Procs, Commit(q) PROVE q = p
      <4>1. lock = q /\ lock' = None
        BY <1>0, <3>1 DEF Commit, LockAgrees
      <4>2. proc' = [proc EXCEPT ![p] = proc'[p]]
        BY <1>3, ImporterShape
      <4>3. proc'[q].pc \in {"return", "cleanup"} /\ proc[q].pc = "mirror"
        BY <1>0, <3>1, <4>1 DEF Commit, Process
      <4> QED BY <1>0, <4>2, <4>3
    <3>2. db'.key = db.key
      BY <1>2, <2>2, <3>1
    <3>3. proc' = [proc EXCEPT ![p] = proc'[p]]
      BY <1>3, ImporterShape
    <3>4. ASSUME proc'[p].pc = "mirror" PROVE db.key[proc'[p].req.key] = None
      <4>1. Insert(p) \/ AppendMirror(p)
        <5>1. Idle.pc = "idle"
          BY DEF Idle
        <5>2. ASSUME OpenFile(p) \/ FillFile(p) \/ FillFails(p) \/ ReadExisting(p) \/ ReadFails(p) \/ TakeLock(p)
                     \/ LockTimesOut(p) \/ Reused(p) \/ Conflict(p) \/ Commit(p) \/ TxFails(p) \/ Cleanup(p)
              PROVE  FALSE
          BY <1>0, <3>4, <5>2 DEF OpenFile, FillFile, FillFails, ReadExisting, ReadFails, TakeLock, LockTimesOut, Reused,
             Conflict, Commit, TxFails, Cleanup, Process
        <5>3. ASSUME Crash(p) \/ Return(p) PROVE FALSE
          BY <1>0, <3>4, <5>3 DEF Crash, Return, Idle
        <5>4. ASSUME Call(p) PROVE FALSE
          <6>1. PICK r \in Requests :
                   proc' = [proc EXCEPT ![p] = [Idle EXCEPT !.pc = "open", !.req = r,
                       !.files = <<r.hash>> \o (IF r.art = None THEN <<>> ELSE <<r.art>>)]]
            BY <5>4 DEF Call
          <6> QED BY <1>0, <3>4, <6>1 DEF Idle
        <5> QED BY <1>3, <5>2, <5>3, <5>4 DEF Importer
      <4>2. CASE Insert(p)
        BY <1>0, <4>2 DEF Insert, KeyUsed, Process
      <4>3. CASE AppendMirror(p)
        BY <1>0, <4>3 DEF AppendMirror, KeyFree, Process
      <4> QED BY <4>1, <4>2, <4>3
    <3> QED BY <1>0, <3>2, <3>3, <3>4 DEF KeyFree
  <2> QED BY <2>1, <2>2
<1>4. ASSUME UNCHANGED proc PROVE ~ \E p \in Procs : Commit(p)
  <2> SUFFICES ASSUME NEW p \in Procs, Commit(p) PROVE FALSE
    OBVIOUS
  <2>1. proc[p].pc = "mirror" /\ proc'[p].pc \in {"return", "cleanup"}
    BY <1>0 DEF Commit, Process
  <2> QED BY <1>4, <2>1
<1>5. ASSUME Enrich \/ Sorts PROVE UNCHANGED proc
  BY <1>5 DEF Enrich, Sorts, Assign, EnsureIndex
<1> QED BY <1>1, <1>2, <1>3, <1>4, <1>5, Steps, Frames DEF storeVars

\* The lines that a transaction would take back are there, after every step: a
\* transaction begins without any, and nobody else cuts a mirror meanwhile.
LEMMA WithinStep ==
    ASSUME CoreInv, [Next]_vars
    PROVE  OffsetsWithin'
<1>0. /\ proc \in [Procs -> Process] /\ off \in Watch /\ LockAgrees /\ OffsetsWithin /\ Staged /\ WatchStaged
      /\ mirror \in [Logs -> Seq(Lines)] /\ mirror' \in [Logs -> Seq(Lines)] /\ StoreTypes
      /\ Watcher \notin Procs \cup {None} /\ None \notin Procs /\ LockAgrees'
      /\ \A l \in Logs : Len(mirror[l]) \in Nat /\ Len(mirror'[l]) \in Nat
  BY StoreAssumption, WatcherAssumption, LockStep, MirrorShape, LenProperties DEF CoreInv, StoreTypes, WatcherTypes
<1>1. CASE lock' = None
  BY <1>0, <1>1 DEF LockAgrees, OffsetsWithin
<1>2. CASE lock' # None
  <2>1. \A l \in Logs : Len(mirror[l]) <= Len(mirror'[l])
    BY <1>2, MirrorShape DEF TxFails, IndexFails
  <2>2. ASSUME NEW offs \in Seq(Offsets), Within(offs)
        PROVE  \A i \in DOMAIN offs : offs[i].len < Len(mirror'[offs[i].log])
    <3> SUFFICES ASSUME NEW i \in DOMAIN offs PROVE offs[i].len < Len(mirror'[offs[i].log])
      OBVIOUS
    <3>1. offs[i] \in Offsets /\ offs[i].len < Len(mirror[offs[i].log])
      BY <2>2, ElementOfSeq, LenProperties DEF Within
    <3>2. offs[i].log \in Logs /\ offs[i].len \in Nat
      BY <3>1 DEF Offsets
    <3> QED BY <1>0, <2>1, <3>1, <3>2
  <2> DEFINE Fits(offs) == \A i \in DOMAIN offs : offs[i].len < Len(mirror'[offs[i].log])
  <2>3. ASSUME NEW offs \in Seq(Offsets), Within(offs), NEW l \in Logs, Len(mirror'[l]) = Len(mirror[l]) + 1
        PROVE  Fits(Append(offs, [log |-> l, len |-> Len(mirror[l])]))
    <3> DEFINE o == [log |-> l, len |-> Len(mirror[l])]
               n == Append(offs, o)
    <3>1. /\ Len(n) = Len(offs) + 1 /\ DOMAIN n = 1..Len(n) /\ DOMAIN offs = 1..Len(offs) /\ Len(offs) \in Nat
          /\ n[Len(offs) + 1] = o /\ \A i \in 1..Len(offs) : n[i] = offs[i]
      <4> HIDE DEF o
      <4>1. o \in Offsets
        BY <1>0 DEF o, Offsets
      <4> QED BY <4>1, AppendProperties, LenProperties
    <3>2. o.log = l /\ o.len < Len(mirror'[l])
      BY <1>0, <2>3
    <3> HIDE DEF o, n
    <3>3. \A i \in DOMAIN n : i \in DOMAIN offs \/ i = Len(offs) + 1
      BY <3>1
    <3>4. Fits(n)
      BY <2>2, <2>3, <3>1, <3>2, <3>3
    <3> QED BY <3>4 DEF n, o
  <2>4. \A l \in Logs : Len(mirror'[l]) \in Nat
    BY <1>0
  <2>5. Fits(<<>>)
    BY EmptySeq
  <2>6. ASSUME NEW p \in Procs, InTx(proc'[p]) PROVE Fits(proc'[p].offs)
    <3>1. CASE proc'[p] = proc[p]
      BY <1>0, <2>2, <2>6, <3>1 DEF InTx, OffsetsWithin, Process
    <3>2. CASE proc'[p] # proc[p]
      <4>1. PICK q \in Procs : Call(q) \/ Crash(q) \/ Importer(q)
        BY <3>2, Steps, Frames DEF storeVars, Enrich, Sorts, Assign, EnsureIndex
      <4>2. q = p
        BY <1>0, <3>2, <4>1, ImporterShape
      <4>3. CASE TakeLock(p)
        BY <1>0, <2>5, <4>3 DEF TakeLock, Staged, Process
      <4>4. CASE Insert(p)
        BY <1>0, <2>5, <4>4 DEF Insert, Staged, Process
      <4>5. CASE AppendMirror(p)
        <5> DEFINE line == Head(proc[p].todo)
        <5>1. /\ proc[p].todo \in Seq(Lines) /\ proc[p].todo # <<>> /\ mirror' = Appended(line)
              /\ proc[p].offs \in Seq(Offsets) /\ Within(proc[p].offs)
              /\ proc'[p].offs = Append(proc[p].offs, [log |-> line.log, len |-> Len(mirror[line.log])])
          BY <1>0, <4>5 DEF AppendMirror, Process, OffsetsWithin
        <5>2. line \in Lines
          BY <5>1, HeadTailProperties
        <5> HIDE DEF line
        <5>3. line.log \in Logs /\ Len(mirror'[line.log]) = Len(mirror[line.log]) + 1
          BY <1>0, <5>1, <5>2, AppendedType DEF Lines
        <5> QED BY <2>3, <5>1, <5>3
      <4>6. ASSUME OpenFile(p) \/ FillFile(p) \/ FillFails(p) \/ ReadExisting(p) \/ ReadFails(p)
                     \/ LockTimesOut(p) \/ Cleanup(p) \/ Reused(p) \/ Conflict(p) \/ Commit(p) \/ TxFails(p)
            PROVE  FALSE
        BY <1>0, <2>6, <4>6 DEF OpenFile, FillFile, FillFails, ReadExisting, ReadFails, LockTimesOut, Reused,
           Conflict, Commit, TxFails, Cleanup, Process, InTx
      <4>7. ASSUME Call(p) \/ Crash(p) \/ Return(p) PROVE FALSE
        <5>1. CASE Call(p)
          <6>1. PICK r \in Requests :
                   proc' = [proc EXCEPT ![p] = [Idle EXCEPT !.pc = "open", !.req = r,
                       !.files = <<r.hash>> \o (IF r.art = None THEN <<>> ELSE <<r.art>>)]]
            BY <5>1 DEF Call
          <6> QED BY <1>0, <2>6, <6>1 DEF Idle, InTx
        <5>2. CASE Crash(p) \/ Return(p)
          BY <1>0, <2>6, <5>2 DEF Crash, Return, Idle, InTx
        <5> QED BY <4>7, <5>1, <5>2
      <4> QED BY <4>1, <4>2, <4>3, <4>4, <4>5, <4>6, <4>7 DEF Importer
    <3> QED BY <3>1, <3>2
  <2>7. ASSUME off'.pc = "mirror" PROVE Fits(off'.offs)
    <3>1. CASE off' = off
      BY <1>0, <2>2, <2>7, <3>1 DEF OffsetsWithin, Watch
    <3>2. CASE IndexLock
      BY <1>0, <2>5, <3>2 DEF IndexLock, WatchStaged, Watch
    <3>3. CASE IndexAppend
      <4> DEFINE k == Len(off.offs) + 1
                 u == off.updates[k]
      <4>1. /\ off.offs \in Seq(Offsets) /\ off.updates \in Seq(Updates) /\ Len(off.offs) < Len(off.updates)
            /\ Within(off.offs) /\ off'.offs = Append(off.offs, [log |-> "artifacts", len |-> Len(mirror["artifacts"])])
        BY <1>0, <3>3 DEF Watch, IndexAppend, OffsetsWithin
      <4>2. k \in 1..Len(off.updates)
        BY <4>1, LenProperties
      <4>3. u \in Updates
        <5> HIDE DEF k
        <5> QED BY <4>1, <4>2, ElementOfSeq
      <4>4. mirror' = Appended(Line("artifacts", u.art, u.ref))
        BY <3>3 DEF IndexAppend
      <4> HIDE DEF u
      <4>5. Line("artifacts", u.art, u.ref) \in Lines /\ Line("artifacts", u.art, u.ref).log = "artifacts"
        BY <4>3 DEF Updates, Line, Lines, Logs
      <4>6. Len(mirror'["artifacts"]) = Len(mirror["artifacts"]) + 1 /\ "artifacts" \in Logs
        BY <1>0, <4>4, <4>5, AppendedType DEF Logs
      <4> QED BY <2>3, <4>1, <4>6
    <3>4. CASE ~(IndexLock \/ IndexAppend) /\ off' # off
      <4>1. Pass \/ PassFails \/ WatcherDies
        BY <3>4, Steps, Frames DEF offVars, storeVars
      <4>2. ASSUME NoRun \/ IndexTimesOut \/ Restart \/ IndexFails \/ WatcherDies PROVE FALSE
        BY <2>7, <4>2 DEF NoRun, IndexTimesOut, Restart, IndexFails, WatcherDies, Waiting
      <4>3. ASSUME Check \/ Begin PROVE FALSE
        <5>1. off.pc # "mirror" /\ lock' = lock
          BY <4>3 DEF Check, Begin, storeVars
        <5> QED BY <1>0, <2>7, <5>1 DEF LockAgrees
      <4>4. ASSUME NEW a \in Artifacts, Unusable(a) \/ Skip(a) \/ SkipFails(a) \/ StartUpload(a) PROVE FALSE
        <5>1. off.pc # "mirror" /\ lock' = lock
          BY <4>4 DEF Unusable, Skip, SkipFails, StartUpload, storeVars, Taken
        <5> QED BY <1>0, <2>7, <5>1 DEF LockAgrees
      <4>5. ASSUME Upload \/ UploadFails \/ SaveCheckpoint PROVE FALSE
        <5>1. off.pc # "mirror" /\ lock' = lock
          BY <4>5 DEF Upload, UploadFails, SaveCheckpoint, storeVars
        <5> QED BY <1>0, <2>7, <5>1 DEF LockAgrees
      <4>6. ASSUME IndexCommit PROVE FALSE
        BY <1>2, <4>6 DEF IndexCommit
      <4> QED BY <3>4, <4>1, <4>2, <4>3, <4>4, <4>5, <4>6 DEF Pass, PassFails
    <3> QED BY <3>1, <3>2, <3>3, <3>4
  <2> QED BY <2>6, <2>7 DEF OffsetsWithin, Within, InTx
<1> QED BY <1>1, <1>2
-----------------------------------------------------------------------------
(* The core invariant, and the refinement *)

LEMMA CoreInit == Init => CoreInv
<1> SUFFICES ASSUME Init PROVE CoreInv
  OBVIOUS
<1>1. db \in Database
  <2>1. NoRow \in Rows
    BY ResetsType
  <2> QED BY <2>1 DEF Init, StoreInit, Database
<1>2. mirror \in [Logs -> Seq(Lines)]
  BY EmptySeq DEF Init, StoreInit
<1>3. disk \in [Paths -> Contents] /\ \A a \in Tracked : disk[a] \in Digests
  BY StoreAssumption DEF Init, StoreInit, Contents, Digests, Paths
<1>4. proc \in [Procs -> Process]
  BY ResetsType DEF Init, StoreInit
<1>5. budget \in [calls : Nat, edits : Nat, faults : Nat] /\ stray \subseteq Logs \X Nat
  BY StoreAssumption DEF Init, StoreInit
<1>6. /\ off = Waiting /\ off \in Watch /\ Waiting.pc = "idle" /\ Waiting.offs = <<>>
      /\ ckpt \in [Artifacts -> Entries] /\ clock \in Nat /\ sentinel \in BOOLEAN /\ due \subseteq Artifacts
  BY ResetsType DEF Init, Waiting
<1>7. blob \in [Artifacts -> [Digests -> Contents]]
  BY DEF Init, Contents
<1>8. LockAgrees /\ Staged /\ WatchStaged /\ KeyFree /\ OffsetsWithin
  <2>1. \A p \in Procs : proc[p] = Idle
    BY DEF Init, StoreInit
  <2>2. Idle.pc = "idle" /\ Idle.req = None
    BY DEF Idle
  <2>3. \A p \in Procs : proc[p].pc = "idle" /\ proc[p].req = None
    BY <2>1, <2>2
  <2> QED BY <1>6, <2>3, StoreAssumption, WatcherAssumption
          DEF Init, StoreInit, LockAgrees, Staged, WatchStaged, KeyFree, OffsetsWithin
<1> QED BY <1>1, <1>2, <1>3, <1>4, <1>5, <1>6, <1>7, <1>8 DEF CoreInv, StoreTypes, WatcherTypes

LEMMA CoreNext == CoreInv /\ [Next]_vars => CoreInv'
<1> SUFFICES ASSUME CoreInv, [Next]_vars PROVE CoreInv'
  OBVIOUS
<1>0. proc \in [Procs -> Process] /\ Staged /\ WatchStaged /\ WatcherTypes /\ due \subseteq Artifacts
  BY DEF CoreInv, StoreTypes, WatcherTypes
<1>1. proc' \in [Procs -> Process] /\ Staged'
  <2>1. ASSUME NEW p \in Procs, Call(p) \/ Crash(p) \/ Importer(p) PROVE proc' \in [Procs -> Process] /\ Staged'
    BY <1>0, <2>1, ImporterShape, ProcSet
  <2>2. ASSUME UNCHANGED proc PROVE proc' \in [Procs -> Process] /\ Staged'
    BY <1>0, <2>2 DEF Staged
  <2>3. ASSUME Enrich \/ Sorts PROVE UNCHANGED proc
    BY <2>3 DEF Enrich, Sorts, Assign, EnsureIndex
  <2> QED BY <2>1, <2>2, <2>3, Steps, Frames DEF storeVars
<1>2. StoreTypes'
  BY <1>1, DbShape, MirrorShape, DiskShape, BudgetShape, StrayShape DEF StoreTypes
<1>3. WatcherTypes' /\ WatchStaged'
  <2>1. CASE Pass \/ PassFails \/ WatcherDies
    BY <2>1, WatcherShape
  <2>2. CASE UNCHANGED <<off, ckpt, blob, clock, sentinel, due>>
    BY <1>0, <2>2 DEF WatcherTypes, WatchStaged
  <2>3. CASE Workload
    <3>1. db.art \subseteq Artifacts
      BY DEF CoreInv, StoreTypes, Database
    <3>2. sentinel' \in BOOLEAN /\ due' \subseteq Artifacts
      BY <1>0, <2>3, <3>1 DEF Workload, Complete, Track, Edit, offVars, WatcherTypes
    <3> QED BY <1>0, <2>3, <3>2, Frames DEF WatcherTypes, WatchStaged
  <2> QED BY <2>1, <2>2, <2>3, Steps DEF offVars
<1> QED BY <1>1, <1>2, <1>3, LockStep, KeyStep, WithinStep DEF CoreInv
\* What an import does to its request and its answer, and whether it records.
LEMMA ImporterAnswers ==
    ASSUME CoreInv, NEW p \in Procs, Call(p) \/ Crash(p) \/ Importer(p)
    PROVE  \/ /\ proc'[p].req = proc[p].req /\ proc'[p].answer = proc[p].answer /\ db' = db
           \/ /\ proc[p].req # None /\ proc[p].answer = None
              /\ proc'[p].req = proc[p].req /\ proc'[p].answer = "failed" /\ db' = db
           \/ /\ proc[p].req = None /\ proc'[p].req \in Requests /\ proc'[p].answer = None /\ db' = db
           \/ /\ proc[p].req # None /\ proc[p].answer # None
              /\ proc'[p].req = None /\ proc'[p].answer = proc[p].answer /\ db' = db
           \/ /\ proc[p].req # None /\ proc'[p].req = None /\ proc'[p].answer = None /\ db' = db
           \/ /\ proc[p].req # None /\ proc[p].answer = None /\ db.key[proc[p].req.key] = proc[p].req.hash
              /\ proc'[p].req = proc[p].req /\ proc'[p].answer = "reused" /\ db' = db
           \/ /\ proc[p].req # None /\ proc[p].answer = None /\ db.key[proc[p].req.key] = None
              /\ proc'[p].req = proc[p].req /\ proc'[p].answer \in {"created", "failed"} /\ db' = Recorded(p)
<1>0. /\ proc \in [Procs -> Process] /\ proc[p] \in Process /\ Staged /\ KeyFree
  BY DEF CoreInv, StoreTypes
<1>1. /\ proc[p].pc = "idle" <=> proc[p].req = None
      /\ proc[p].pc \in {"open", "fill", "existing", "lock", "tx", "mirror"} => proc[p].answer = None
      /\ proc[p].pc \in {"cleanup", "return"} => proc[p].answer # None
      /\ proc[p].pc = "mirror" => db.key[proc[p].req.key] = None
  BY <1>0 DEF Staged, KeyFree
<1>2. CASE OpenFile(p) \/ FillFile(p) \/ ReadExisting(p) \/ TakeLock(p) \/ Insert(p) \/ AppendMirror(p) \/ Cleanup(p)
  <2>1. proc'[p].req = proc[p].req /\ proc'[p].answer = proc[p].answer /\ db' = db
    BY <1>0, <1>2 DEF OpenFile, FillFile, ReadExisting, TakeLock, Insert, AppendMirror, Cleanup, Process
  <2> QED BY <2>1
<1>3. CASE FillFails(p) \/ ReadFails(p) \/ LockTimesOut(p) \/ Conflict(p) \/ TxFails(p)
  <2>1. proc[p].pc \in {"fill", "existing", "lock", "tx", "mirror"} /\ db' = db
    BY <1>3 DEF FillFails, ReadFails, LockTimesOut, Conflict, TxFails
  <2>2. proc'[p].req = proc[p].req /\ proc'[p].answer = "failed"
    BY <1>0, <1>3 DEF FillFails, ReadFails, LockTimesOut, Conflict, TxFails, Process
  <2> QED BY <1>1, <2>1, <2>2
<1>4. CASE Call(p)
  <2>1. PICK r \in Requests :
           proc' = [proc EXCEPT ![p] = [Idle EXCEPT !.pc = "open", !.req = r,
                       !.files = <<r.hash>> \o (IF r.art = None THEN <<>> ELSE <<r.art>>)]]
    BY <1>4 DEF Call
  <2>2. proc'[p].req = r /\ proc'[p].answer = None /\ proc[p].pc = "idle" /\ db' = db
    BY <1>0, <1>4, <2>1 DEF Call, Idle
  <2> QED BY <1>1, <2>2
<1>5. CASE Crash(p)
  <2>1. proc'[p].req = None /\ proc'[p].answer = None /\ proc[p].pc # "idle" /\ db' = db
    BY <1>0, <1>5 DEF Crash, Idle
  <2> QED BY <1>1, <2>1
<1>6. CASE Return(p)
  <2>1. proc'[p].req = None /\ proc'[p].answer = proc[p].answer /\ proc[p].pc = "return" /\ db' = db
    BY <1>0, <1>6 DEF Return, Idle
  <2> QED BY <1>1, <2>1
<1>7. CASE Reused(p)
  <2>1. proc[p].pc = "tx" /\ db.key[proc[p].req.key] = proc[p].req.hash /\ db' = db
    BY <1>7 DEF Reused
  <2>2. proc'[p].req = proc[p].req /\ proc'[p].answer = "reused"
    BY <1>0, <1>7 DEF Reused, Process
  <2> QED BY <1>1, <2>1, <2>2
<1>8. CASE Commit(p)
  <2>1. proc[p].pc = "mirror" /\ db' = Recorded(p)
    BY <1>8 DEF Commit
  <2>2. proc'[p].req = proc[p].req /\ proc'[p].answer \in {"created", "failed"}
    BY <1>0, <1>8 DEF Commit, Process
  <2> QED BY <1>1, <2>1, <2>2
<1> QED BY <1>2, <1>3, <1>4, <1>5, <1>6, <1>7, <1>8 DEF Importer

\* Every step of the store and the watcher is a step of the ledger, or none.
LEMMA LedgerStep ==
    ASSUME CoreInv, [Next]_vars
    PROVE  [Ledger!Next]_(Ledger!vars)
<1> DEFINE rec == db.metric \cup (db.art \ Tracked)
           pend == [p \in Procs |-> proc[p].req]
           ans == [p \in Procs |-> proc[p].answer]
           key == db.key
<1>0. proc \in [Procs -> Process] /\ db \in Database /\ Staged
  BY DEF CoreInv, StoreTypes
<1>1. ASSUME key' = key, rec' = rec, UNCHANGED proc PROVE [Ledger!Next]_(Ledger!vars)
  <2>1. pend' = pend /\ ans' = ans
    BY <1>1
  <2> QED BY <1>1, <2>1 DEF Ledger!vars
<1>2. ASSUME db' = db PROVE key' = key /\ rec' = rec
  BY <1>2
<1>3. ASSUME NEW p \in Procs, Call(p) \/ Crash(p) \/ Importer(p) PROVE [Ledger!Next]_(Ledger!vars)
  <2> DEFINE r == proc[p].req
             q == proc'[p]
  <2>1. pend' = [pend EXCEPT ![p] = q.req] /\ ans' = [ans EXCEPT ![p] = q.answer]
    <3>1. proc' = [proc EXCEPT ![p] = q]
      BY <1>3, ImporterShape
    <3> HIDE DEF q
    <3> QED BY <1>0, <3>1
  <2>2. pend[p] = r /\ ans[p] = proc[p].answer
    OBVIOUS
  <2>3. CASE q.req = r /\ q.answer = proc[p].answer /\ db' = db
    <3>1. pend' = pend /\ ans' = ans /\ key' = key /\ rec' = rec
      BY <2>1, <2>2, <2>3
    <3> QED BY <3>1 DEF Ledger!vars
  <2>4. CASE r # None /\ proc[p].answer = None /\ q.req = r /\ q.answer = "failed" /\ db' = db
    <3>1. pend' = pend /\ ans' = [ans EXCEPT ![p] = "failed"] /\ key' = key /\ rec' = rec
      BY <2>1, <2>2, <2>4
    <3>2. Ledger!Refuse(p)
      BY <2>2, <2>4, <3>1 DEF Ledger!Refuse, Ledger!Undecided
    <3> QED BY <3>2 DEF Ledger!Next
  <2>5. CASE r = None /\ q.req \in Requests /\ q.answer = None /\ db' = db
    <3>1. pend' = [pend EXCEPT ![p] = q.req] /\ ans' = [ans EXCEPT ![p] = None] /\ key' = key /\ rec' = rec
      BY <2>1, <2>5
    <3>2. Ledger!Submit(p)
      BY <2>2, <2>5, <3>1 DEF Ledger!Submit
    <3> QED BY <3>2 DEF Ledger!Next
  <2>6. CASE r # None /\ proc[p].answer # None /\ q.req = None /\ q.answer = proc[p].answer /\ db' = db
    <3>1. pend' = [pend EXCEPT ![p] = None] /\ ans' = ans /\ key' = key /\ rec' = rec
      BY <2>1, <2>2, <2>6
    <3>2. Ledger!Reply(p)
      BY <2>2, <2>6, <3>1 DEF Ledger!Reply
    <3> QED BY <3>2 DEF Ledger!Next
  <2>7. CASE r # None /\ q.req = None /\ q.answer = None /\ db' = db
    <3>1. pend' = [pend EXCEPT ![p] = None] /\ ans' = [ans EXCEPT ![p] = None] /\ key' = key /\ rec' = rec
      BY <2>1, <2>7
    <3>2. Ledger!Die(p)
      BY <2>2, <2>7, <3>1 DEF Ledger!Die
    <3> QED BY <3>2 DEF Ledger!Next
  <2>8. CASE r # None /\ proc[p].answer = None /\ db.key[r.key] = r.hash /\ q.req = r /\ q.answer = "reused" /\ db' = db
    <3>1. pend' = pend /\ ans' = [ans EXCEPT ![p] = "reused"] /\ key' = key /\ rec' = rec
      BY <2>1, <2>2, <2>8
    <3>2. Ledger!Reuse(p)
      BY <2>2, <2>8, <3>1 DEF Ledger!Reuse, Ledger!Undecided
    <3> QED BY <3>2 DEF Ledger!Next
  <2>9. CASE r # None /\ proc[p].answer = None /\ db.key[r.key] = None /\ q.req = r /\ q.answer \in {"created", "failed"} /\ db' = Recorded(p)
    <3>1. pend' = pend /\ ans' = [ans EXCEPT ![p] = q.answer]
      BY <2>1, <2>2, <2>9
    <3>2. r \in Requests
      BY <1>0, <2>9 DEF Process
    <3>3. r.art \notin Tracked /\ r.key \in Keys /\ r.hash \in Hashes
      BY <3>2, StoreAssumption
    <3>4. key' = [key EXCEPT ![r.key] = r.hash]
      BY <1>0, <2>9 DEF Recorded, Database
    <3>5. db'.metric = db.metric \cup {r.hash} /\ db'.art = db.art \cup ({r.art} \ {None})
      BY <1>0, <2>9 DEF Recorded, Database
    <3>6. rec' = rec \cup Ledger!Content(r)
      BY <3>3, <3>5 DEF Ledger!Content
    <3>7. Ledger!Accept(p)
      BY <2>2, <2>9, <3>1, <3>4, <3>6 DEF Ledger!Accept, Ledger!Undecided
    <3> QED BY <3>7 DEF Ledger!Next
  <2> QED BY <1>3, <2>3, <2>4, <2>5, <2>6, <2>7, <2>8, <2>9, ImporterAnswers
<1>4. ASSUME UNCHANGED proc PROVE [Ledger!Next]_(Ledger!vars)
  <2>1. ASSUME NEW p \in Procs, Commit(p) PROVE FALSE
    <3>1. proc[p].pc = "mirror" /\ proc'[p].pc \in {"return", "cleanup"}
      BY <1>0, <2>1 DEF Commit, Process
    <3> QED BY <1>4, <3>1
  <2>2. key' = key /\ rec' = rec
    BY <2>1, DbShape
  <2> QED BY <1>1, <1>4, <2>2
<1>5. ASSUME Enrich \/ Sorts PROVE UNCHANGED proc
  BY <1>5 DEF Enrich, Sorts, Assign, EnsureIndex
<1> QED BY <1>3, <1>4, <1>5, Steps, Frames DEF storeVars

\* The store implements the ledger (recordRunDataLocked): a request takes effect once,
\* completely and together with its key, and whoever is told "created" or "reused" can
\* rely on it, for any number of importers, retries, crashes and failing calls, and
\* with the watcher and the workload beside them.
THEOREM StoreImplementsLedger == Spec => LedgerKept
<1>1. Init => Ledger!Init
  <2> SUFFICES ASSUME Init PROVE Ledger!Init
    OBVIOUS
  <2>1. db.key = [k \in Keys |-> None] /\ db.metric = {} /\ db.art = {}
    BY DEF Init, StoreInit
  <2>2. \A p \in Procs : proc[p].req = None /\ proc[p].answer = None
    BY DEF Init, StoreInit, Idle
  <2> QED BY <2>1, <2>2 DEF Ledger!Init
<1>2. CoreInv /\ [Next]_vars => [Ledger!Next]_(Ledger!vars)
  BY LedgerStep
<1> QED BY <1>1, <1>2, CoreInit, CoreNext, PTL DEF Spec, LedgerKept, Ledger!Spec
-----------------------------------------------------------------------------
(* What the watcher indexes *)

\* Nothing is known of an artifact that is not on record, and the reference of a row
\* names an object of the recorded digest.
RowsSound ==
    /\ \A a \in Artifacts : a \notin db.art => db.row[a] = NoRow
    /\ \A a \in Artifacts : db.row[a].ref # None => db.row[a].ref.digest = db.row[a].digest

\* What a checkpoint calls verified has a reference to an object of its digest.
CheckpointSound(ck) ==
    \A a \in Artifacts : ck[a].status = "verified" => ck[a].ref \in Refs /\ ck[a].ref.digest = ck[a].digest

KnownSound ==
    /\ CheckpointSound(ckpt) /\ CheckpointSound(off.ck)
    /\ \A d \in Digests : off.found[d] # None => off.found[d].digest = d

\* What the pass read at its beginning is still so when it indexes, although the
\* store was not locked: nobody else writes the row of an artifact on record.
InPass == off.pc \in {"next", "upload", "index", "mirror"}
PassView ==
    InPass =>
      /\ off.listed \subseteq db.art /\ off.todo \subseteq off.listed
      /\ \A a \in off.listed : off.rows[a] = db.row[a]
      /\ off.pc = "upload" => off.rows[off.cur.art].digest \in {None, off.cur.digest}
      /\ off.pc \in {"index", "mirror"} => off.todo = {} /\ ckpt = off.ck

\* The object of a reference is as it was verified, or a failing upload of the artifact
\* it is named after has overwritten it, which is on record.
Vouched(ref) ==
    Intact(ref) \/ (ref.art \notin off.todo /\ off.ck[ref.art].status = "failed")

\* An update is of an artifact that the pass has done with, of its recorded digest.
UpdateSound(u) ==
    /\ u.art \in off.listed \ off.todo
    /\ u.ref.digest = u.digest
    /\ off.rows[u.art].digest \in {None, u.digest}
    /\ Vouched(u.ref)

UpdatesSound ==
    InPass =>
      /\ \A i \in DOMAIN off.updates : UpdateSound(off.updates[i])
      /\ \A i, j \in DOMAIN off.updates : off.updates[i].art = off.updates[j].art => i = j

IndexInv == RowsSound /\ KnownSound /\ PassView /\ UpdatesSound
\* Who writes the row of an artifact: the one who records it, and then the watcher.
LEMMA RowEffect ==
    ASSUME CoreInv, RowsSound, [Next]_vars, NEW a \in Artifacts
    PROVE  /\ a \in db.art => a \in db'.art
           /\ \/ db'.row[a] = db.row[a] /\ (a \in db'.art => a \in db.art \/ db.row[a] = NoRow)
              \/ a \notin db.art /\ a \in db'.art /\ db'.row[a].ref = None
              \/ IndexCommit /\ \E i \in DOMAIN off.updates :
                    /\ off.updates[i].art = a
                    /\ db'.row[a] = [digest |-> off.updates[i].digest, ref |-> off.updates[i].ref]
<1>0. db \in Database /\ off \in Watch /\ proc \in [Procs -> Process] /\ NoRow.ref = None
  BY DEF CoreInv, StoreTypes, WatcherTypes, NoRow
<1>2. ASSUME NEW p \in Procs, Commit(p)
      PROVE  /\ a \in db.art => a \in db'.art
             /\ \/ db'.row[a] = db.row[a] /\ (a \in db'.art => a \in db.art \/ db.row[a] = NoRow)
                \/ a \notin db.art /\ a \in db'.art /\ db'.row[a].ref = None
  <2> DEFINE r == proc[p].req
  <2>1. /\ db'.art = db.art \cup ({r.art} \ {None})
        /\ db'.row[a] = IF a = r.art /\ a \notin db.art THEN [digest |-> Bytes[a], ref |-> None] ELSE db.row[a]
    BY <1>0, <1>2 DEF Commit, Recorded, Database
  <2>2. a # None
    BY StoreAssumption
  <2> HIDE DEF r
  <2>3. CASE a = r.art /\ a \notin db.art
    BY <2>1, <2>2, <2>3
  <2>4. CASE ~(a = r.art /\ a \notin db.art)
    BY <2>1, <2>4 DEF RowsSound
  <2> QED BY <2>3, <2>4
<1>3. ASSUME NEW x \in Tracked \ db.art, Track(x), db'.art = db.art \cup {x}
      PROVE  /\ a \in db.art => a \in db'.art
             /\ \/ db'.row[a] = db.row[a] /\ (a \in db'.art => a \in db.art \/ db.row[a] = NoRow)
                \/ a \notin db.art /\ a \in db'.art /\ db'.row[a].ref = None
  <2>1. PICK d \in {None, disk[x]} : db' = [db EXCEPT !.art = @ \cup {x}, !.row[x].digest = d,
                                                      !.run = IF @ = None THEN "succeeded" ELSE @,
                                                      !.exp = Sorted(None)]
    BY <1>3 DEF Track
  <2>2. x \in Artifacts
    BY StoreAssumption
  <2>3. db'.row[a] = IF a = x THEN [db.row[x] EXCEPT !.digest = d] ELSE db.row[a]
    BY <1>0, <2>1, <2>2 DEF Database
  <2>4. db.row[x].ref = None /\ db.row[x] \in Rows
    BY <1>0, <2>2 DEF RowsSound, Database
  <2>5. a = x => db'.row[a].ref = None
    BY <2>3, <2>4 DEF Rows
  <2> QED BY <1>3, <2>3, <2>5
<1>4. ASSUME IndexCommit, db'.art = db.art
      PROVE  \/ db'.row[a] = db.row[a]
             \/ \E i \in DOMAIN off.updates :
                  /\ off.updates[i].art = a
                  /\ db'.row[a] = [digest |-> off.updates[i].digest, ref |-> off.updates[i].ref]
  <2> DEFINE mine == {i \in DOMAIN off.updates : off.updates[i].art = a}
             k == CHOOSE i \in mine : TRUE
  <2>1. db'.row[a] = IF mine = {} THEN db.row[a] ELSE [digest |-> off.updates[k].digest, ref |-> off.updates[k].ref]
    BY <1>0, <1>4 DEF IndexCommit, Database
  <2>2. CASE mine = {}
    BY <2>1, <2>2
  <2>3. CASE mine # {}
    <3>1. k \in mine
      BY <2>3
    <3>2. db'.row[a] = [digest |-> off.updates[k].digest, ref |-> off.updates[k].ref]
      BY <2>1, <2>3
    <3> HIDE DEF k
    <3> QED BY <3>1, <3>2
  <2> QED BY <2>2, <2>3
<1>5. CASE db'.row = db.row /\ db'.art = db.art
  BY <1>5
<1> QED BY <1>2, <1>3, <1>4, <1>5, DbShape

\* Rows stay sound.
LEMMA RowsStep ==
    ASSUME CoreInv, IndexInv, [Next]_vars
    PROVE  RowsSound'
<1>0. RowsSound /\ PassView /\ UpdatesSound /\ off \in Watch
  BY DEF IndexInv, CoreInv, WatcherTypes
<1> SUFFICES ASSUME NEW a \in Artifacts
             PROVE  /\ a \notin db'.art => db'.row[a] = NoRow
                    /\ db'.row[a].ref # None => db'.row[a].ref.digest = db'.row[a].digest
  BY DEF RowsSound
<1>1. CASE db'.row[a] = db.row[a] /\ (a \in db.art => a \in db'.art)
  BY <1>0, <1>1 DEF RowsSound
<1>2. CASE a \in db'.art /\ db'.row[a].ref = None
  BY <1>2
<1>3. CASE IndexCommit /\ \E i \in DOMAIN off.updates :
             /\ off.updates[i].art = a
             /\ db'.row[a] = [digest |-> off.updates[i].digest, ref |-> off.updates[i].ref]
  <2>1. PICK i \in DOMAIN off.updates :
             /\ off.updates[i].art = a
             /\ db'.row[a] = [digest |-> off.updates[i].digest, ref |-> off.updates[i].ref]
    BY <1>3
  <2>2. InPass
    BY <1>3 DEF IndexCommit, InPass
  <2>3. UpdateSound(off.updates[i])
    BY <1>0, <2>1, <2>2 DEF UpdatesSound
  <2>4. a \in db.art
    BY <1>0, <2>1, <2>2, <2>3 DEF UpdateSound, PassView
  <2>5. a \in db'.art
    BY <1>0, <2>4, RowEffect
  <2> QED BY <2>1, <2>3, <2>5 DEF UpdateSound
<1> QED BY <1>0, <1>1, <1>2, <1>3, RowEffect
\* The steps that leave the watcher alone do not touch what its pass relies on.
LEMMA OthersStep ==
    ASSUME CoreInv, IndexInv, [Next]_vars, UNCHANGED <<off, ckpt, blob>>
    PROVE  KnownSound' /\ PassView' /\ UpdatesSound'
<1>0. RowsSound /\ KnownSound /\ PassView /\ UpdatesSound /\ off \in Watch
  BY DEF IndexInv, CoreInv, WatcherTypes
<1>1. KnownSound'
  BY <1>0 DEF KnownSound, CheckpointSound
<1>2. UpdatesSound'
  BY <1>0 DEF UpdatesSound, InPass, UpdateSound, Vouched, Intact
<1>3. ASSUME IndexCommit PROVE FALSE
  <2>1. off.pc = "mirror" /\ off'.pc = "check"
    BY <1>0, <1>3 DEF IndexCommit, Watch
  <2> QED BY <2>1
<1>4. ASSUME InPass PROVE off.listed \subseteq db'.art /\ \A a \in off.listed : db'.row[a] = db.row[a]
  <2>1. off.listed \subseteq Artifacts /\ off.listed \subseteq db.art
    BY <1>0, <1>4 DEF Watch, PassView
  <2> QED BY <1>0, <1>3, <2>1, RowEffect
<1>5. PassView'
  BY <1>0, <1>4 DEF PassView, InPass
<1> QED BY <1>1, <1>2, <1>5

\* The pass: what is noted as verified names its object, what was read stays true, and
\* every update is vouched for until it is committed.
LEMMA PassStep ==
    ASSUME CoreInv, IndexInv, Pass \/ PassFails \/ WatcherDies
    PROVE  KnownSound' /\ PassView' /\ UpdatesSound'
<1>0. /\ RowsSound /\ KnownSound /\ PassView /\ UpdatesSound /\ off \in Watch /\ WatchStaged
      /\ ckpt \in [Artifacts -> Entries] /\ blob \in [Artifacts -> [Digests -> Contents]] /\ db \in Database
  BY DEF IndexInv, CoreInv, WatcherTypes, StoreTypes
<1>00. /\ off.ck \in [Artifacts -> Entries] /\ off.found \in [Digests -> Refs \cup {None}]
       /\ off.updates \in Seq(Updates) /\ \A i \in DOMAIN off.updates : off.updates[i] \in Updates
       /\ off.listed \subseteq Artifacts /\ off.todo \subseteq Artifacts
  BY <1>0, ElementOfSeq, LenProperties DEF Watch
<1> DEFINE Known2(ck, found) == /\ CheckpointSound(ck)
                                /\ \A d \in Digests : found[d] # None => found[d].digest = d
           Vouched2(ref) == \/ blob'[ref.art][ref.digest] = ref.digest
                            \/ ref.art \notin off'.todo /\ off'.ck[ref.art].status = "failed"
           Sound2(u) == /\ u.art \in off'.listed \ off'.todo
                        /\ u.ref.digest = u.digest
                        /\ off'.rows[u.art].digest \in {None, u.digest}
                        /\ Vouched2(u.ref)
<1>1. ASSUME Known2(off'.ck, off'.found), UNCHANGED ckpt PROVE KnownSound'
  BY <1>0, <1>1 DEF KnownSound, CheckpointSound
<1>2. Known2(off.ck, off.found) /\ CheckpointSound(ckpt)
  BY <1>0 DEF KnownSound
<1>3. Known2(Waiting.ck, Waiting.found)
  BY WatcherAssumption DEF Waiting, NoEntry, CheckpointSound
<1>4. ASSUME off'.pc \notin {"next", "upload", "index", "mirror"} PROVE PassView' /\ UpdatesSound'
  BY <1>4 DEF PassView, UpdatesSound, InPass
<1>5. CASE NoRun \/ IndexTimesOut \/ IndexFails \/ Restart \/ WatcherDies \/ Check
  <2>1. off'.ck = Waiting.ck /\ off'.found = Waiting.found /\ off'.pc \in {"failed", "exited", "idle"} /\ ckpt' \in {ckpt, off.ck}
    <3>1. \A c \in {"failed", "exited"} : /\ [Waiting EXCEPT !.pc = c].ck = Waiting.ck
                                          /\ [Waiting EXCEPT !.pc = c].found = Waiting.found
                                          /\ [Waiting EXCEPT !.pc = c].pc = c
      BY DEF Waiting
    <3>2. /\ [Waiting EXCEPT !.pc = "exited", !.listed = off.listed].ck = Waiting.ck
          /\ [Waiting EXCEPT !.pc = "exited", !.listed = off.listed].found = Waiting.found
          /\ [Waiting EXCEPT !.pc = "exited", !.listed = off.listed].pc = "exited" /\ Waiting.pc = "idle"
      BY DEF Waiting
    <3>3. CASE WatcherDies
      BY <3>1, <3>3 DEF WatcherDies
    <3>4. CASE NoRun \/ IndexTimesOut \/ IndexFails \/ Restart \/ Check
      BY <3>1, <3>2, <3>4 DEF NoRun, IndexTimesOut, IndexFails, Restart, Check
    <3> QED BY <1>5, <3>3, <3>4
  <2>2. KnownSound'
    BY <1>2, <1>3, <2>1 DEF KnownSound, CheckpointSound
  <2> QED BY <1>4, <2>1, <2>2
<1>6. CASE IndexCommit
  <2>1. off'.ck = off.ck /\ off'.found = off.found /\ off'.pc = "check" /\ UNCHANGED ckpt
    BY <1>0, <1>6 DEF IndexCommit, Watch
  <2> QED BY <1>1, <1>2, <1>4, <2>1
<1>7. CASE Begin
  <2>1. PICK found \in [Digests -> {None} \cup {ckpt[a].ref : a \in Artifacts}] :
           /\ \A d \in Digests : IF Verified(d) = {} THEN found[d] = None
                                 ELSE found[d] \in {ckpt[a].ref : a \in Verified(d)}
           /\ off' = [Waiting EXCEPT !.pc = "next", !.listed = db.art, !.todo = db.art,
                                     !.rows = db.row, !.ck = ckpt, !.found = found]
    BY <1>7 DEF Begin
  <2>2. /\ off'.pc = "next" /\ off'.listed = db.art /\ off'.todo = db.art /\ off'.rows = db.row
        /\ off'.ck = ckpt /\ off'.found = found /\ off'.updates = <<>> /\ UNCHANGED <<db, ckpt>>
    BY <1>7, <2>1 DEF Begin, Waiting, storeVars
  <2>3. \A d \in Digests : found[d] # None => found[d].digest = d
    BY <1>2, <2>1 DEF Verified, CheckpointSound
  <2>4. KnownSound'
    BY <1>1, <1>2, <2>2, <2>3
  <2>5. PassView'
    BY <2>2 DEF PassView, InPass
  <2>6. UpdatesSound'
    BY <2>2, EmptySeq DEF UpdatesSound, InPass
  <2> QED BY <2>4, <2>5, <2>6
<1>8. ASSUME NEW a \in Artifacts, NEW e \in Entries, Known2(off.ck, off.found),
             e.status = "verified" => e.ref \in Refs /\ e.ref.digest = e.digest
      PROVE  CheckpointSound([off.ck EXCEPT ![a] = e])
  BY <1>00, <1>8 DEF CheckpointSound
<1>9. ASSUME InPass, off'.listed = off.listed, off'.rows = off.rows, off'.todo \subseteq off.todo,
             \A x \in Artifacts : x \notin off.todo => off'.ck[x] = off.ck[x],
             \A ref \in Refs : Intact(ref) => Vouched2(ref),
             NEW i \in DOMAIN off.updates
      PROVE  Sound2(off.updates[i])
  <2> DEFINE u == off.updates[i]
  <2>1. UpdateSound(u) /\ u \in Updates
    BY <1>0, <1>00, <1>9 DEF UpdatesSound
  <2>2. u.ref \in Refs /\ u.ref.art \in Artifacts
    BY <2>1 DEF Updates, Refs
  <2> HIDE DEF u
  <2>3. Vouched2(u.ref)
    <3>1. CASE Intact(u.ref)
      BY <1>9, <2>2, <3>1
    <3>2. CASE u.ref.art \notin off.todo /\ off.ck[u.ref.art].status = "failed"
      BY <1>9, <2>2, <3>2
    <3> QED BY <2>1, <3>1, <3>2 DEF UpdateSound, Vouched
  <2>4. Sound2(u)
    BY <1>9, <2>1, <2>3 DEF UpdateSound
  <2> QED BY <2>4 DEF u
<1>10. ASSUME InPass, off'.updates = off.updates, \A i \in DOMAIN off.updates : Sound2(off.updates[i]) PROVE UpdatesSound'
  <2>1. \A i \in DOMAIN off'.updates : UpdateSound(off.updates[i])'
    BY <1>10 DEF UpdateSound, Vouched, Intact
  <2>2. \A i, j \in DOMAIN off'.updates : off'.updates[i].art = off'.updates[j].art => i = j
    BY <1>0, <1>10 DEF UpdatesSound
  <2> QED BY <1>10, <2>1, <2>2 DEF UpdatesSound
<1>11. ASSUME off.pc \in {"next", "upload"}, off'.pc = "next", off'.listed = off.listed, off'.rows = off.rows,
              off'.todo \subseteq off.todo, UNCHANGED db
       PROVE  PassView'
  BY <1>0, <1>11 DEF PassView, InPass
<1>12. ASSUME NEW a \in Artifacts, a \in off.todo, NEW d \in Digests \cup {None}, NEW ref \in Refs \cup {None},
              NEW f \in [Digests -> Refs \cup {None}], Known2(off.ck, f), Failed(a, d, ref, f), off.pc \in {"next", "upload"},
              UNCHANGED <<db, ckpt>>,
              \A x \in Artifacts : \A y \in Digests : x # a => blob'[x][y] = blob[x][y]
       PROVE  KnownSound' /\ PassView' /\ UpdatesSound'
  <2> DEFINE e == [status |-> "failed", digest |-> d, ref |-> ref]
  <2>1. e \in Entries /\ e.status = "failed"
    BY DEF Entries
  <2>2. /\ off'.pc = "next" /\ off'.listed = off.listed /\ off'.rows = off.rows /\ off'.todo = off.todo \ {a}
        /\ off'.ck = [off.ck EXCEPT ![a] = e] /\ off'.found = f /\ off'.updates = off.updates
    BY <1>0, <1>12 DEF Failed, Noted, Watch
  <2> HIDE DEF e
  <2>3. Known2(off'.ck, off'.found)
    BY <1>8, <1>12, <1>2, <2>1, <2>2
  <2>4. off'.ck[a].status = "failed" /\ \A x \in Artifacts : x # a => off'.ck[x] = off.ck[x]
    BY <1>00, <2>1, <2>2
  <2>5. ASSUME NEW x \in Refs, Intact(x) PROVE Vouched2(x)
    <3>1. x.art \in Artifacts /\ x.digest \in Digests
      BY DEF Refs
    <3> QED BY <1>12, <2>2, <2>4, <2>5, <3>1 DEF Intact
  <2>6. InPass
    BY <1>12 DEF InPass
  <2>7. UpdatesSound'
    <3>1. \A i \in DOMAIN off.updates : Sound2(off.updates[i])
      <4> HIDE DEF Vouched2, Sound2
      <4>1. \A x \in Artifacts : x \notin off.todo => off'.ck[x] = off.ck[x]
        BY <1>12, <2>4
      <4>2. off'.todo \subseteq off.todo
        BY <2>2
      <4> QED BY <1>9, <2>2, <2>5, <2>6, <4>1, <4>2
    <3> QED BY <1>10, <2>2, <2>6, <3>1
  <2> QED BY <1>1, <1>11, <1>12, <2>2, <2>3, <2>7
<1>13. ASSUME NEW a \in Artifacts, a \in off.todo, NEW d \in Digests, NEW ref \in Refs, ref.digest = d,
              Finished(a, d, ref), off.pc \in {"next", "upload"}, UNCHANGED <<db, ckpt>>,
              off.rows[a].digest \in {None, d}, blob'[ref.art][d] = d,
              \A x \in Artifacts : \A y \in Digests : blob[x][y] = y => blob'[x][y] = y
       PROVE  KnownSound' /\ PassView' /\ UpdatesSound'
  <2> DEFINE e == [status |-> "verified", digest |-> d, ref |-> ref]
             v == [art |-> a, digest |-> d, ref |-> ref]
  <2>1. e \in Entries /\ e.ref = ref /\ e.digest = d /\ v.art = a /\ v.digest = d /\ v.ref = ref /\ v \in Updates
    BY DEF Entries, Updates
  <2>2. /\ off'.pc = "next" /\ off'.listed = off.listed /\ off'.rows = off.rows /\ off'.todo = off.todo \ {a}
        /\ off'.ck = [off.ck EXCEPT ![a] = e] /\ off'.found = [off.found EXCEPT ![d] = ref]
        /\ off'.updates = off.updates \/ off'.updates = Append(off.updates, v)
    BY <1>0, <1>13 DEF Finished, Noted, Watch
  <2> HIDE DEF e, v
  <2>3. Known2(off'.ck, off'.found)
    <3>1. CheckpointSound(off'.ck)
      BY <1>8, <1>2, <1>13, <2>1, <2>2
    <3>2. \A x \in Digests : off'.found[x] # None => off'.found[x].digest = x
      BY <1>00, <1>2, <1>13, <2>2
    <3> QED BY <3>1, <3>2
  <2>4. \A x \in Artifacts : x # a => off'.ck[x] = off.ck[x]
    BY <1>00, <2>2
  <2>5. ASSUME NEW x \in Refs, Intact(x) PROVE Vouched2(x)
    <3>1. x.art \in Artifacts /\ x.digest \in Digests
      BY DEF Refs
    <3> QED BY <1>13, <2>5, <3>1 DEF Intact
  <2>6. InPass /\ off.todo \subseteq off.listed
    BY <1>0, <1>13 DEF InPass, PassView
  <2>7. \A i \in DOMAIN off.updates : Sound2(off.updates[i])
    <3> HIDE DEF Vouched2, Sound2
    <3>1. \A x \in Artifacts : x \notin off.todo => off'.ck[x] = off.ck[x]
      BY <1>13, <2>4
    <3>2. off'.todo \subseteq off.todo
      BY <2>2
    <3> QED BY <1>9, <2>2, <2>5, <2>6, <3>1, <3>2
  <2>8. Sound2(v)
    BY <1>13, <2>1, <2>2, <2>6
  <2>9. UpdatesSound'
    <3>1. CASE off'.updates = off.updates
      BY <1>10, <2>6, <2>7, <3>1
    <3>2. CASE off'.updates = Append(off.updates, v)
      <4> DEFINE n == Len(off.updates)
      <4>1. /\ n \in Nat /\ DOMAIN off.updates = 1..n /\ DOMAIN off'.updates = 1..(n + 1)
            /\ off'.updates[n + 1] = v /\ \A i \in 1..n : off'.updates[i] = off.updates[i]
        <5>1. /\ n \in Nat /\ DOMAIN off.updates = 1..n
          BY <1>00, LenProperties
        <5>2. /\ Append(off.updates, v) \in Seq(Updates) /\ Len(Append(off.updates, v)) = n + 1
              /\ Append(off.updates, v)[n + 1] = v /\ \A i \in 1..n : Append(off.updates, v)[i] = off.updates[i]
          BY <1>00, <2>1, AppendProperties
        <5>3. DOMAIN Append(off.updates, v) = 1..(n + 1)
          BY <5>2, LenProperties
        <5> QED BY <3>2, <5>1, <5>2, <5>3
      <4> HIDE DEF n
      <4>2. \A i \in 1..(n + 1) : i \in 1..n \/ i = n + 1
        BY <4>1
      <4>3. \A i \in DOMAIN off'.updates : Sound2(off'.updates[i])
        <5> HIDE DEF Sound2, Vouched2
        <5> QED BY <2>7, <2>8, <4>1, <4>2
      <4>4. \A i \in DOMAIN off.updates : off.updates[i].art # a
        BY <1>0, <1>13, <2>6 DEF UpdatesSound, UpdateSound
      <4>5. ASSUME NEW i \in DOMAIN off'.updates, NEW j \in DOMAIN off'.updates, off'.updates[i].art = off'.updates[j].art
            PROVE  i = j
        <5>1. CASE i \in 1..n /\ j \in 1..n
          BY <1>0, <2>6, <4>1, <4>5, <5>1 DEF UpdatesSound
        <5>2. CASE i = n + 1 \/ j = n + 1
          BY <2>1, <4>1, <4>2, <4>4, <4>5, <5>2
        <5> QED BY <4>1, <4>2, <5>1, <5>2
      <4>6. (\A i \in DOMAIN off.updates : UpdateSound(off.updates[i]))'
        BY <4>3 DEF UpdateSound, Vouched, Intact
      <4> QED BY <4>5, <4>6 DEF UpdatesSound
    <3> QED BY <2>2, <3>1, <3>2
  <2> QED BY <1>1, <1>11, <1>13, <2>2, <2>3, <2>9
<1>14. ASSUME NEW a \in Artifacts, Unusable(a) PROVE KnownSound' /\ PassView' /\ UpdatesSound'
  <2>1. a \in off.todo /\ off.pc = "next" /\ Failed(a, None, None, off.found) /\ UNCHANGED <<db, ckpt, blob>>
    BY <1>14 DEF Unusable, Taken, storeVars
  <2> HIDE DEF Known2
  <2> QED BY <1>00, <1>2, <1>12, <2>1
<1>15. ASSUME NEW a \in Artifacts, NEW d \in Digests, Known(a, d) # None
       PROVE  Known(a, d) \in Refs /\ Known(a, d).digest = d
  BY <1>2, <1>15, KnownType DEF Known, CheckpointSound
<1>16. ASSUME NEW a \in Artifacts, Skip(a) PROVE KnownSound' /\ PassView' /\ UpdatesSound'
  <2> DEFINE d == disk[a]
             k == Known(a, d)
  <2>1. /\ a \in off.todo /\ off.pc = "next" /\ d \in Digests /\ off.rows[a].digest \in {None, d} /\ k # None
        /\ Intact(k) /\ Finished(a, d, k) /\ UNCHANGED <<db, ckpt, blob>>
    BY <1>16 DEF Skip, Taken, SameFile, storeVars
  <2>2. k \in Refs /\ k.digest = d
    BY <1>15, <2>1
  <2> HIDE DEF d, k
  <2>3. blob'[k.art][d] = d
    BY <2>1, <2>2 DEF Intact
  <2> QED BY <1>13, <2>1, <2>2, <2>3
<1>17. ASSUME NEW a \in Artifacts, SkipFails(a) PROVE KnownSound' /\ PassView' /\ UpdatesSound'
  <2> DEFINE d == disk[a]
             k == Known(a, d)
             f == [off.found EXCEPT ![d] = None]
  <2>1. /\ a \in off.todo /\ off.pc = "next" /\ d \in Digests /\ k # None
        /\ Failed(a, d, k, f) /\ UNCHANGED <<db, ckpt, blob>>
    BY <1>17 DEF SkipFails, Taken, SameFile
  <2>2. k \in Refs
    BY <1>15, <2>1
  <2> HIDE DEF d, k
  <2>3. f \in [Digests -> Refs \cup {None}] /\ \A x \in Digests : f[x] = None \/ f[x] = off.found[x]
    BY <1>00, <2>1
  <2> HIDE DEF f
  <2>4. Known2(off.ck, f)
    BY <1>2, <2>3
  <2> HIDE DEF Known2
  <2> QED BY <1>12, <2>1, <2>2, <2>3, <2>4
<1>18. CASE Upload \/ UploadFails
  <2> DEFINE ref == off.cur
  <2>1. off.pc = "upload" /\ ref \in Refs /\ ref.art \in off.todo /\ UNCHANGED <<db, ckpt>>
    BY <1>0, <1>18 DEF Upload, UploadFails, WatchStaged, Watch, storeVars
  <2>2. ref.art \in Artifacts /\ ref.digest \in Digests /\ off.rows[ref.art].digest \in {None, ref.digest}
    BY <1>0, <2>1 DEF Refs, PassView, InPass
  <2>3. blob' = blob \/ blob' = [blob EXCEPT ![ref.art][ref.digest] = disk[ref.art]]
    BY <1>18 DEF Upload, UploadFails, Stored
  <2>4. CASE Failed(ref.art, ref.digest, ref, off.found)
    <3>1. \A x \in Artifacts : \A y \in Digests : x # ref.art => blob'[x][y] = blob[x][y]
      <4> HIDE DEF ref
      <4> QED BY <1>0, <2>2, <2>3
    <3> HIDE DEF ref, Known2
    <3> QED BY <1>00, <1>2, <1>12, <2>1, <2>2, <2>4, <3>1
  <2>5. CASE ~Failed(ref.art, ref.digest, ref, off.found)
    <3>1. Finished(ref.art, ref.digest, ref) /\ disk[ref.art] = ref.digest /\ blob' = [blob EXCEPT ![ref.art][ref.digest] = disk[ref.art]]
      BY <1>18, <2>5 DEF Upload, UploadFails, Stored
    <3> HIDE DEF ref
    <3>2. /\ blob'[ref.art][ref.digest] = ref.digest
          /\ \A x \in Artifacts : \A y \in Digests : blob[x][y] = y => blob'[x][y] = y
      BY <1>0, <2>2, <3>1
    <3> QED BY <1>13, <2>1, <2>2, <3>1, <3>2
  <2> QED BY <2>4, <2>5
<1>19. ASSUME NEW a \in Artifacts, StartUpload(a) PROVE KnownSound' /\ PassView' /\ UpdatesSound'
  <2> DEFINE ref == [art |-> a, digest |-> disk[a], stamp |-> clock]
             e == [status |-> "uploading", digest |-> disk[a], ref |-> ref]
  <2>1. /\ a \in off.todo /\ off.pc = "next" /\ disk[a] \in Digests /\ off.rows[a].digest \in {None, disk[a]}
        /\ UNCHANGED <<db, ckpt, blob>> /\ off' = [off EXCEPT !.pc = "upload", !.cur = ref, !.ck = [off.ck EXCEPT ![a] = e]]
    BY <1>19 DEF StartUpload, Taken, SameFile, storeVars, Noted
  <2>2. ref \in Refs /\ ref.art = a /\ ref.digest = disk[a]
    BY <2>1 DEF Refs, CoreInv, WatcherTypes
  <2> HIDE DEF ref
  <2>3. e \in Entries /\ e.status = "uploading"
    BY <2>1, <2>2 DEF Entries
  <2> HIDE DEF e
  <2>4. /\ off'.pc = "upload" /\ off'.cur = ref /\ off'.ck = [off.ck EXCEPT ![a] = e] /\ off'.listed = off.listed
        /\ off'.todo = off.todo /\ off'.rows = off.rows /\ off'.found = off.found /\ off'.updates = off.updates
    BY <1>0, <2>1 DEF Watch
  <2>5. CheckpointSound(off'.ck)
    BY <1>2, <1>8, <2>3, <2>4
  <2>6. KnownSound'
    BY <1>1, <1>2, <2>1, <2>4, <2>5
  <2>7. PassView'
    BY <1>0, <2>1, <2>2, <2>4 DEF PassView, InPass
  <2>8. InPass
    BY <2>1 DEF InPass
  <2>9. \A x \in Refs : Intact(x) => Vouched2(x)
    BY <2>1 DEF Intact
  <2>10. \A x \in Artifacts : x \notin off.todo => off'.ck[x] = off.ck[x]
    BY <1>00, <2>1, <2>4
  <2>11. \A i \in DOMAIN off.updates : Sound2(off.updates[i])
    <3> HIDE DEF Sound2, Vouched2
    <3> QED BY <1>9, <2>4, <2>8, <2>9, <2>10
  <2>12. UpdatesSound'
    BY <1>10, <2>4, <2>8, <2>11
  <2> QED BY <2>6, <2>7, <2>12
<1>20. ASSUME InPass, off'.ck = off.ck, off'.found = off.found, off'.listed = off.listed, off'.todo = off.todo,
              off'.rows = off.rows, off'.updates = off.updates, UNCHANGED <<db, blob>>, ckpt' \in {ckpt, off.ck},
              off'.pc \in {"index", "mirror"} => off.todo = {} /\ ckpt' = off.ck, off'.pc # "upload"
       PROVE  KnownSound' /\ PassView' /\ UpdatesSound'
  <2>1. KnownSound'
    BY <1>0, <1>20 DEF KnownSound, CheckpointSound
  <2>2. PassView'
    BY <1>0, <1>20 DEF PassView, InPass
  <2>3. UpdatesSound'
    BY <1>0, <1>20 DEF UpdatesSound, InPass, UpdateSound, Vouched, Intact
  <2> QED BY <2>1, <2>2, <2>3
<1>21. CASE SaveCheckpoint
  <2>1. /\ off.pc = "next" /\ off.todo = {} /\ UNCHANGED <<db, blob>> /\ ckpt' = off.ck
        /\ off'.ck = off.ck /\ off'.found = off.found /\ off'.listed = off.listed /\ off'.todo = off.todo
        /\ off'.rows = off.rows /\ off'.updates = off.updates /\ off'.pc \in {"check", "index"}
    BY <1>0, <1>21 DEF SaveCheckpoint, storeVars, Watch
  <2>2. InPass
    BY <2>1 DEF InPass
  <2> QED BY <1>20, <2>1, <2>2
<1>22. CASE IndexLock \/ IndexAppend
  <2>1. off.pc \in {"index", "mirror"} /\ UNCHANGED <<db, blob, ckpt>>
    BY <1>22 DEF IndexLock, IndexAppend
  <2>2. /\ off'.ck = off.ck /\ off'.found = off.found /\ off'.listed = off.listed /\ off'.todo = off.todo
        /\ off'.rows = off.rows /\ off'.updates = off.updates /\ off'.pc = "mirror"
    BY <1>0, <1>22 DEF IndexLock, IndexAppend, Watch
  <2>3. InPass /\ off.todo = {} /\ ckpt = off.ck
    BY <1>0, <2>1 DEF InPass, PassView
  <2> QED BY <1>20, <2>1, <2>2, <2>3
<1> QED BY <1>5, <1>6, <1>7, <1>14, <1>16, <1>17, <1>18, <1>19, <1>21, <1>22 DEF Pass, PassFails

LEMMA IndexInit == Init => IndexInv
<1> SUFFICES ASSUME Init PROVE IndexInv
  OBVIOUS
<1>1. RowsSound
  BY DEF Init, StoreInit, RowsSound, NoRow
<1>2. KnownSound
  BY WatcherAssumption DEF Init, KnownSound, CheckpointSound, Waiting, NoEntry
<1>3. PassView /\ UpdatesSound
  BY DEF Init, Waiting, PassView, UpdatesSound, InPass
<1> QED BY <1>1, <1>2, <1>3 DEF IndexInv

LEMMA IndexNext == CoreInv /\ IndexInv /\ [Next]_vars => IndexInv'
<1> SUFFICES ASSUME CoreInv, IndexInv, [Next]_vars PROVE IndexInv'
  OBVIOUS
<1>1. KnownSound' /\ PassView' /\ UpdatesSound'
  BY PassStep, OthersStep, Steps, Frames DEF offVars
<1> QED BY <1>1, RowsStep DEF IndexInv

\* A reference gets into the database only when the object it names has the recorded
\* bytes at that moment, or the checkpoint says that a failing upload has overwritten
\* it since it was verified (Run), whatever the workload rewrites meanwhile.
THEOREM IndexedIntact == Spec => OnlyIntactIndexed
<1> DEFINE Fits == \A a \in Artifacts :
                     LET ref == db'.row[a].ref
                     IN  ref \notin {None, db.row[a].ref} => Intact(ref) \/ ckpt[ref.art].status = "failed"
<1>1. CoreInv /\ IndexInv /\ [Next]_vars => [Fits]_vars
  <2> SUFFICES ASSUME CoreInv, IndexInv, [Next]_vars, NEW a \in Artifacts, db'.row[a].ref \notin {None, db.row[a].ref}
               PROVE  Intact(db'.row[a].ref) \/ ckpt[db'.row[a].ref.art].status = "failed"
    OBVIOUS
  <2>1. IndexCommit /\ \E i \in DOMAIN off.updates :
                    /\ off.updates[i].art = a
                    /\ db'.row[a] = [digest |-> off.updates[i].digest, ref |-> off.updates[i].ref]
    BY RowEffect DEF IndexInv
  <2>2. PICK i \in DOMAIN off.updates : db'.row[a] = [digest |-> off.updates[i].digest, ref |-> off.updates[i].ref]
    BY <2>1
  <2>3. InPass /\ off.pc = "mirror"
    BY <2>1 DEF IndexCommit, InPass
  <2>4. Vouched(off.updates[i].ref) /\ ckpt = off.ck
    BY <2>2, <2>3 DEF IndexInv, UpdatesSound, UpdateSound, PassView
  <2> QED BY <2>2, <2>4 DEF Vouched
<1> QED BY <1>1, CoreInit, CoreNext, IndexInit, IndexNext, PTL DEF Spec, OnlyIntactIndexed

\* Once recorded, the digest of an artifact never changes (validateArtifactIdentity),
\* although the row is read without the lock long before it is written.
THEOREM DigestsKept == Spec => IdentityKept
<1> DEFINE Fits == \A a \in Artifacts : db.row[a].digest # None => db'.row[a].digest = db.row[a].digest
<1>1. CoreInv /\ IndexInv /\ [Next]_vars => [Fits]_vars
  <2> SUFFICES ASSUME CoreInv, IndexInv, [Next]_vars, NEW a \in Artifacts, db.row[a].digest # None
               PROVE  db'.row[a].digest = db.row[a].digest
    OBVIOUS
  <2>1. a \in db.art
    BY DEF IndexInv, RowsSound, NoRow
  <2>2. CASE IndexCommit /\ \E i \in DOMAIN off.updates :
                    /\ off.updates[i].art = a
                    /\ db'.row[a] = [digest |-> off.updates[i].digest, ref |-> off.updates[i].ref]
    <3>1. PICK i \in DOMAIN off.updates : /\ off.updates[i].art = a
                                          /\ db'.row[a] = [digest |-> off.updates[i].digest, ref |-> off.updates[i].ref]
      BY <2>2
    <3>2. InPass
      BY <2>2 DEF IndexCommit, InPass
    <3>3. UpdateSound(off.updates[i])
      BY <3>1, <3>2 DEF IndexInv, UpdatesSound
    <3>4. off.rows[a] = db.row[a]
      BY <3>1, <3>2, <3>3 DEF IndexInv, PassView, UpdateSound
    <3> QED BY <3>1, <3>3, <3>4 DEF UpdateSound
  <2> QED BY <2>1, <2>2, RowEffect DEF IndexInv
<1> QED BY <1>1, CoreInit, CoreNext, IndexInit, IndexNext, PTL DEF Spec, IdentityKept
=============================================================================
