---------------------------- MODULE MirrorProofs ----------------------------
(***************************************************************************)
(* Machine-checked proof that the JSONL mirrors of the experiment store    *)
(* give what was committed whenever nobody writes (MirrorsAgree), for any  *)
(* number of importers and bounds, and of ArtifactOffload's full type      *)
(* invariant.                                                              *)
(*                                                                         *)
(* The argument: at any moment the lines of the mirrors are those that a   *)
(* crash or a failed rollback left (stray), those of the transaction that  *)
(* is under way, and the settled ones.  The settled lines agree with the   *)
(* tables at all times.  An append adds to the lines of the transaction; a *)
(* rollback removes none but these, because nobody else appends meanwhile  *)
(* and they are at the end of their files, and those it fails to remove    *)
(* become stray; a crash makes all of them stray; and a commit settles     *)
(* them, at which moment they are what the transaction puts into the       *)
(* tables.                                                                 *)
(***************************************************************************)
EXTENDS ArtifactOffloadProofs

-----------------------------------------------------------------------------
(* The inductive invariant *)

\* What the transaction under way would take back.
HeldOffs == IF lock = Watcher THEN off.offs ELSE IF lock = None THEN <<>> ELSE proc[lock].offs

\* Its lines are the last ones of their files, in the order of their offsets, and none
\* of them is stray.
AtEnd(offs) ==
    /\ \A i, j \in DOMAIN offs : i < j /\ offs[i].log = offs[j].log => offs[i].len < offs[j].len
    /\ \A i \in DOMAIN offs : \A n \in DOMAIN mirror[offs[i].log] :
          n > offs[i].len => <<offs[i].log, n>> \in Places(offs)
    /\ Places(offs) \cap stray = {}
HeldAtEnd == AtEnd(HeldOffs)

StrayThere == \A x \in stray : x[2] \in DOMAIN mirror[x[1]]

\* A line is in the file it belongs to.
LinesFiled == \A l \in Logs : \A i \in DOMAIN mirror[l] : mirror[l][i].log = l

\* The lines of an import: one per new row.
NewSet(p) ==
    LET r == proc[p].req
    IN  (IF db.run = None THEN {Line("runs", Run(p), None)} ELSE {})
        \cup (IF r.art \in {None} \cup db.art THEN {} ELSE {Line("artifacts", r.art, None)})
        \cup (IF r.hash \in db.metric THEN {} ELSE {Line("metric_files", r.hash, None)})
        \cup {Line("idempotency_keys", r.key, None)}

\* The line that was written at an offset.
Written(o) == mirror[o.log][o.len + 1]

\* An import has written or still has to write the lines of its new rows, and no others.
ImportWrites(p) ==
    /\ \A i \in DOMAIN proc[p].todo : proc[p].todo[i] \in NewSet(p)
    /\ \A i \in DOMAIN proc[p].offs : Written(proc[p].offs[i]) \in NewSet(p)
    /\ \A x \in NewSet(p) :
          \/ \E i \in DOMAIN proc[p].todo : proc[p].todo[i] = x
          \/ \E i \in DOMAIN proc[p].offs : Written(proc[p].offs[i]) = x

\* The watcher has written the lines of its first updates.
WatchWrites ==
    /\ Len(off.offs) <= Len(off.updates)
    /\ \A i \in DOMAIN off.offs :
          /\ off.offs[i].log = "artifacts"
          /\ Written(off.offs[i]) = Line("artifacts", off.updates[i].art, off.updates[i].ref)

HeldWrites ==
    /\ \A p \in Procs : proc[p].pc = "mirror" => ImportWrites(p)
    /\ off.pc = "mirror" => WatchWrites

Settled(l) == {i \in DOMAIN mirror[l] : <<l, i>> \notin stray \cup Places(HeldOffs)}

\* The settled lines agree with the tables.
SettledAgree ==
    /\ \A h \in Hashes : h \in db.metric <=> \E i \in Settled("metric_files") : mirror["metric_files"][i].id = h
    /\ \A k \in Keys : db.key[k] # None <=> \E i \in Settled("idempotency_keys") : mirror["idempotency_keys"][i].id = k
    /\ \A a \in Artifacts : a \notin db.art => \A i \in Settled("artifacts") : mirror["artifacts"][i].id # a
    /\ \A a \in db.art : \E i \in Settled("artifacts") :
          /\ mirror["artifacts"][i] = Line("artifacts", a, db.row[a].ref)
          /\ \A j \in Settled("artifacts") : mirror["artifacts"][j].id = a => j <= i
    /\ db.run = None => Settled("runs") = {}
    /\ db.run # None => \E i \in Settled("runs") :
          mirror["runs"][i].id = db.run /\ \A j \in Settled("runs") : j <= i

MirrorInv == HeldAtEnd /\ StrayThere /\ LinesFiled /\ HeldWrites /\ SettledAgree
-----------------------------------------------------------------------------
(* What a step does to the transaction under way *)

\* It changes nothing that has lines (the run's experiment has none).
SameRows == UNCHANGED <<db.key, db.run, db.metric, db.art, db.row>>

\* The transaction may see nothing of it,
HeldKept == HeldOffs' = HeldOffs /\ SameRows /\ UNCHANGED <<mirror, stray>>

\* one line more,
HeldGrows(line) ==
    /\ HeldOffs' = Append(HeldOffs, [log |-> line.log, len |-> Len(mirror[line.log])])
    /\ mirror' = Appended(line)
    /\ UNCHANGED <<stray, db>>

\* a rollback,
HeldTakenBack == HeldOffs' = <<>> /\ RolledBack(HeldOffs) /\ UNCHANGED db

\* or a crash.
HeldLost == HeldOffs' = <<>> /\ stray' = stray \cup Places(HeldOffs) /\ UNCHANGED <<mirror, db>>

\* What is held is a sequence of offsets of lines that are there.
LEMMA HeldType ==
    ASSUME CoreInv
    PROVE  /\ HeldOffs \in Seq(Offsets) /\ Within(HeldOffs)
           /\ DOMAIN HeldOffs = 1..Len(HeldOffs) /\ Len(HeldOffs) \in Nat
           /\ \A i \in DOMAIN HeldOffs : /\ HeldOffs[i] \in Offsets /\ HeldOffs[i].log \in Logs /\ HeldOffs[i].len \in Nat
                                         /\ HeldOffs[i].len + 1 \in DOMAIN mirror[HeldOffs[i].log]
           /\ mirror \in [Logs -> Seq(Lines)]
           /\ \A l \in Logs : Len(mirror[l]) \in Nat /\ DOMAIN mirror[l] = 1..Len(mirror[l])
<1>1. /\ LockAgrees /\ OffsetsWithin /\ proc \in [Procs -> Process] /\ off \in Watch
      /\ mirror \in [Logs -> Seq(Lines)]
  BY DEF CoreInv, StoreTypes, WatcherTypes
<1>2. HeldOffs \in Seq(Offsets) /\ Within(HeldOffs)
  <2>1. CASE lock = Watcher
    BY <1>1, <2>1 DEF HeldOffs, LockAgrees, OffsetsWithin, Watch
  <2>2. CASE lock = None
    BY <2>2, EmptySeq, WatcherAssumption DEF HeldOffs, Within
  <2>3. CASE lock \in Procs
    BY <1>1, <2>3, StoreAssumption, WatcherAssumption DEF HeldOffs, LockAgrees, OffsetsWithin, Process
  <2> QED BY <1>1, <2>1, <2>2, <2>3 DEF LockAgrees
<1>3. DOMAIN HeldOffs = 1..Len(HeldOffs) /\ Len(HeldOffs) \in Nat
  BY <1>2, LenProperties
<1>4. \A l \in Logs : Len(mirror[l]) \in Nat /\ DOMAIN mirror[l] = 1..Len(mirror[l])
  BY <1>1, LenProperties
<1>5. ASSUME NEW i \in DOMAIN HeldOffs
      PROVE  /\ HeldOffs[i] \in Offsets /\ HeldOffs[i].log \in Logs /\ HeldOffs[i].len \in Nat
             /\ HeldOffs[i].len + 1 \in DOMAIN mirror[HeldOffs[i].log]
  <2>1. HeldOffs[i] \in Offsets
    BY <1>2, <1>3, ElementOfSeq
  <2>2. HeldOffs[i].log \in Logs /\ HeldOffs[i].len \in Nat
    BY <2>1 DEF Offsets
  <2>3. HeldOffs[i].len < Len(mirror[HeldOffs[i].log])
    BY <1>2 DEF Within
  <2> QED BY <1>4, <2>1, <2>2, <2>3
<1> QED BY <1>1, <1>2, <1>3, <1>4, <1>5

\* Whose transaction it is.
LEMMA HeldBy ==
    ASSUME CoreInv
    PROVE  /\ \A p \in Procs : lock = p => HeldOffs = proc[p].offs
           /\ lock = Watcher => HeldOffs = off.offs
           /\ lock = None => HeldOffs = <<>>
BY StoreAssumption, WatcherAssumption DEF HeldOffs, CoreInv, LockAgrees

\* Every step is of one of these kinds, a commit, or one of the two transactions that
\* are over in one step.
LEMMA HeldEffect ==
    ASSUME CoreInv, [Next]_vars
    PROVE  \/ HeldKept \/ HeldTakenBack \/ HeldLost
           \/ \E line \in Lines : HeldGrows(line)
           \/ \E p \in Procs : Commit(p) /\ HeldOffs = proc[p].offs /\ HeldOffs' = <<>>
           \/ IndexCommit /\ HeldOffs = off.offs /\ HeldOffs' = <<>>
           \/ (Enrich \/ \E a \in Artifacts : Track(a)) /\ HeldOffs = <<>> /\ HeldOffs' = <<>>
<1> DEFINE Fits == \/ HeldKept \/ HeldTakenBack \/ HeldLost
                   \/ \E line \in Lines : HeldGrows(line)
                   \/ \E p \in Procs : Commit(p) /\ HeldOffs = proc[p].offs /\ HeldOffs' = <<>>
                   \/ IndexCommit /\ HeldOffs = off.offs /\ HeldOffs' = <<>>
                   \/ (Enrich \/ \E a \in Artifacts : Track(a)) /\ HeldOffs = <<>> /\ HeldOffs' = <<>>
<1>0. /\ LockAgrees /\ proc \in [Procs -> Process] /\ off \in Watch /\ Staged /\ WatchStaged
      /\ Watcher \notin Procs \cup {None} /\ None \notin Procs
  BY StoreAssumption, WatcherAssumption DEF CoreInv, StoreTypes, WatcherTypes
<1>00. CoreInv'
  BY CoreNext
<1>1. lock' = None => HeldOffs' = <<>>
  BY <1>0 DEF HeldOffs
<1>2. ASSUME UNCHANGED <<lock, proc, off, mirror, stray, db>> PROVE Fits
  BY <1>2 DEF HeldKept, SameRows, HeldOffs
<1>3. ASSUME NEW p \in Procs, Call(p) \/ Crash(p) \/ Importer(p), off' = off PROVE Fits
  <2>0. proc' = [proc EXCEPT ![p] = proc'[p]] /\ proc[p] \in Process /\ (lock = p <=> proc[p].pc \in {"tx", "mirror"})
    BY <1>0, <1>3, ImporterShape DEF LockAgrees
  <2>1. ASSUME lock' = lock, lock # p, UNCHANGED <<mirror, stray, db>> PROVE Fits
    <3>1. HeldOffs' = HeldOffs
      BY <1>0, <1>3, <2>0, <2>1 DEF HeldOffs, LockAgrees
    <3> QED BY <2>1, <3>1 DEF HeldKept, SameRows
  <2>2. ASSUME Call(p) \/ OpenFile(p) \/ FillFile(p) \/ FillFails(p) \/ ReadExisting(p) \/ ReadFails(p)
               \/ LockTimesOut(p) \/ Cleanup(p) \/ Return(p)
        PROVE  Fits
    BY <2>0, <2>1, <2>2 DEF Call, OpenFile, FillFile, FillFails, ReadExisting, ReadFails, LockTimesOut, Cleanup, Return
  <2>3. CASE TakeLock(p)
    <3>1. HeldOffs = <<>> /\ UNCHANGED <<mirror, stray, db>>
      BY <2>3, HeldBy DEF TakeLock
    <3>2. lock' = p /\ proc'[p].offs = <<>>
      BY <1>0, <2>3 DEF TakeLock, Staged, Process
    <3>3. HeldOffs' = <<>>
      BY <1>0, <3>2 DEF HeldOffs
    <3> QED BY <3>1, <3>3 DEF HeldKept, SameRows
  <2>4. CASE Reused(p) \/ Conflict(p)
    <3>1. proc[p].pc = "tx" /\ lock' = None /\ UNCHANGED <<mirror, stray, db>>
      BY <2>4 DEF Reused, Conflict
    <3>2. HeldOffs = <<>>
      BY <1>0, <2>0, <3>1, HeldBy DEF Staged
    <3> QED BY <1>1, <3>1, <3>2 DEF HeldKept, SameRows
  <2>5. CASE Insert(p)
    <3>1. lock = p /\ lock' = p /\ proc'[p].offs = proc[p].offs /\ UNCHANGED <<mirror, stray, db>>
      BY <1>0, <2>0, <2>5 DEF Insert, Process
    <3>2. HeldOffs' = HeldOffs
      BY <1>0, <3>1 DEF HeldOffs
    <3> QED BY <3>1, <3>2 DEF HeldKept, SameRows
  <2>6. CASE AppendMirror(p)
    <3> DEFINE line == Head(proc[p].todo)
    <3>1. /\ lock = p /\ lock' = p /\ mirror' = Appended(line) /\ UNCHANGED <<stray, db>>
          /\ proc'[p].offs = Append(proc[p].offs, [log |-> line.log, len |-> Len(mirror[line.log])])
      BY <1>0, <2>0, <2>6 DEF AppendMirror, Process
    <3>2. line \in Lines
      BY <1>0, <2>6, HeadTailProperties DEF AppendMirror, Process
    <3> HIDE DEF line
    <3>3. HeldOffs' = Append(HeldOffs, [log |-> line.log, len |-> Len(mirror[line.log])])
      BY <1>0, <3>1 DEF HeldOffs
    <3>4. HeldGrows(line)
      BY <3>1, <3>3 DEF HeldGrows
    <3> QED BY <3>2, <3>4
  <2>7. CASE Commit(p)
    <3>1. lock = p /\ lock' = None
      BY <2>0, <2>7 DEF Commit
    <3> QED BY <1>1, <2>7, <3>1, HeldBy
  <2>8. CASE TxFails(p)
    <3>1. lock = p /\ lock' = None /\ RolledBack(proc[p].offs) /\ UNCHANGED db
      BY <2>0, <2>8 DEF TxFails
    <3>2. HeldOffs = proc[p].offs
      BY <3>1, HeldBy
    <3> QED BY <1>1, <3>1, <3>2 DEF HeldTakenBack
  <2>9. CASE Crash(p)
    <3>1. CASE lock = p
      <4>1. lock' = None /\ stray' = stray \cup Places(proc[p].offs) /\ UNCHANGED <<mirror, db>>
        BY <2>9, <3>1 DEF Crash
      <4>2. HeldOffs = proc[p].offs
        BY <3>1, HeldBy
      <4> QED BY <1>1, <4>1, <4>2 DEF HeldLost
    <3>2. CASE lock # p
      BY <2>1, <2>9, <3>2 DEF Crash
    <3> QED BY <3>1, <3>2
  <2> QED BY <1>3, <2>2, <2>3, <2>4, <2>5, <2>6, <2>7, <2>8, <2>9 DEF Importer
<1>4. CASE Pass \/ PassFails \/ WatcherDies
  <2>0. proc' = proc /\ (lock = Watcher <=> off.pc = "mirror")
    BY <1>0, <1>4, Frames DEF LockAgrees
  <2>1. ASSUME lock' = lock, off.pc # "mirror", UNCHANGED <<mirror, stray, db>> PROVE Fits
    <3>1. HeldOffs' = HeldOffs
      BY <1>0, <2>0, <2>1 DEF HeldOffs
    <3> QED BY <2>1, <3>1 DEF HeldKept, SameRows
  <2>2. ASSUME NoRun \/ Begin \/ Upload \/ SaveCheckpoint \/ Check \/ Restart \/ UploadFails \/ IndexTimesOut
        PROVE  Fits
    BY <2>1, <2>2 DEF NoRun, Begin, Upload, SaveCheckpoint, Check, Restart, UploadFails, IndexTimesOut, storeVars
  <2>3. ASSUME NEW a \in Artifacts, Unusable(a) \/ Skip(a) \/ StartUpload(a) \/ SkipFails(a) PROVE Fits
    <3>1. off.pc = "next" /\ UNCHANGED <<lock, mirror, stray, db>>
      BY <2>3 DEF Unusable, Skip, StartUpload, SkipFails, Taken, storeVars
    <3> QED BY <2>1, <3>1
  <2>4. CASE IndexLock
    <3>1. lock = None /\ lock' = Watcher /\ off'.offs = <<>> /\ UNCHANGED <<mirror, stray, db>>
      BY <1>0, <2>4 DEF IndexLock, WatchStaged, Watch
    <3>2. HeldOffs = <<>> /\ HeldOffs' = <<>>
      BY <1>0, <3>1 DEF HeldOffs
    <3> QED BY <3>1, <3>2 DEF HeldKept, SameRows
  <2>5. CASE IndexAppend
    <3> DEFINE k == Len(off.offs) + 1
               u == off.updates[k]
               line == Line("artifacts", u.art, u.ref)
    <3>1. off.offs \in Seq(Offsets) /\ off.updates \in Seq(Updates) /\ Len(off.offs) < Len(off.updates)
      BY <1>0, <2>5 DEF Watch, IndexAppend
    <3>2. k \in 1..Len(off.updates)
      BY <3>1, LenProperties
    <3>3. u \in Updates
      <4> HIDE DEF k
      <4> QED BY <3>1, <3>2, ElementOfSeq
    <3>4. /\ mirror' = Appended(line) /\ lock = Watcher /\ lock' = lock /\ UNCHANGED <<stray, db>>
          /\ off'.offs = Append(off.offs, [log |-> "artifacts", len |-> Len(mirror["artifacts"])])
      BY <1>0, <2>0, <2>5 DEF IndexAppend, Watch
    <3> HIDE DEF u
    <3>5. line \in Lines /\ line.log = "artifacts"
      BY <3>3 DEF Updates, Line, Lines, Logs
    <3> HIDE DEF line
    <3>6. HeldGrows(line)
      BY <3>4, <3>5 DEF HeldGrows, HeldOffs
    <3> QED BY <3>5, <3>6
  <2>6. CASE IndexCommit
    <3>1. lock = Watcher /\ lock' = None
      BY <2>0, <2>6 DEF IndexCommit
    <3> QED BY <1>1, <2>6, <3>1, HeldBy
  <2>7. CASE IndexFails
    <3>1. lock = Watcher /\ lock' = None /\ RolledBack(off.offs) /\ UNCHANGED db
      BY <2>0, <2>7 DEF IndexFails
    <3>2. HeldOffs = off.offs
      BY <3>1, HeldBy
    <3> QED BY <1>1, <3>1, <3>2 DEF HeldTakenBack
  <2>8. CASE WatcherDies
    <3>1. CASE lock = Watcher
      <4>1. lock' = None /\ stray' = stray \cup Places(off.offs) /\ UNCHANGED <<mirror, db>>
        BY <2>8, <3>1 DEF WatcherDies
      <4>2. HeldOffs = off.offs
        BY <3>1, HeldBy
      <4> QED BY <1>1, <4>1, <4>2 DEF HeldLost
    <3>2. CASE lock # Watcher
      BY <2>0, <2>1, <2>8, <3>2 DEF WatcherDies
    <3> QED BY <3>1, <3>2
  <2> QED BY <1>4, <2>2, <2>3, <2>4, <2>5, <2>6, <2>7, <2>8 DEF Pass, PassFails
<1>5. CASE Enrich \/ \E a \in Artifacts : Track(a)
  <2>1. lock = None /\ lock' = None
    BY <1>5 DEF Enrich, Track
  <2> QED BY <1>1, <1>5, <2>1, HeldBy
<1>6. CASE Complete \/ \E a \in Artifacts : Edit(a)
  BY <1>2, <1>6 DEF Complete, Edit, storeVars, offVars
<1>7. CASE Sorts
  <2>1. lock = None /\ lock' = None /\ UNCHANGED <<mirror, stray>>
    BY <1>7 DEF Sorts, Assign, EnsureIndex
  <2>2. SameRows
    <3>1. db \in Database
      BY DEF CoreInv, StoreTypes
    <3>2. \E e : db' = [db EXCEPT !.exp = e]
      BY <1>7 DEF Sorts, Assign, EnsureIndex
    <3> QED BY <3>1, <3>2 DEF SameRows, Database
  <2> QED BY <1>1, <2>1, <2>2, HeldBy DEF HeldKept
<1> QED BY <1>2, <1>3, <1>4, <1>5, <1>6, <1>7, Steps DEF storeVars, offVars, Workload
-----------------------------------------------------------------------------
(* Mirrors that grow and shrink *)

\* One element more.
LEMMA OneMore ==
    ASSUME NEW S, NEW m \in Seq(S), NEW x \in S
    PROVE  /\ Len(m) \in Nat /\ DOMAIN m = 1..Len(m)
           /\ DOMAIN Append(m, x) = DOMAIN m \cup {Len(m) + 1}
           /\ Append(m, x)[Len(m) + 1] = x
           /\ \A i \in DOMAIN m : Append(m, x)[i] = m[i] /\ i < Len(m) + 1
<1>1. Len(m) \in Nat /\ DOMAIN m = 1..Len(m)
  BY LenProperties
<1>2. /\ Append(m, x) \in Seq(S) /\ Len(Append(m, x)) = Len(m) + 1
      /\ Append(m, x)[Len(m) + 1] = x /\ \A i \in 1..Len(m) : Append(m, x)[i] = m[i]
  BY AppendProperties
<1>3. DOMAIN Append(m, x) = 1..(Len(m) + 1)
  BY <1>2, LenProperties
<1>4. 1..(Len(m) + 1) = 1..Len(m) \cup {Len(m) + 1} /\ \A i \in 1..Len(m) : i < Len(m) + 1
  BY <1>1
<1> QED BY <1>1, <1>2, <1>3, <1>4

\* A line is appended to the mirror it belongs to.
LEMMA GrownMirror ==
    ASSUME CoreInv, NEW line \in Lines, mirror' = Appended(line)
    PROVE  /\ line.log \in Logs
           /\ \A l \in Logs : l # line.log => mirror'[l] = mirror[l]
           /\ DOMAIN mirror'[line.log] = DOMAIN mirror[line.log] \cup {Len(mirror[line.log]) + 1}
           /\ mirror'[line.log][Len(mirror[line.log]) + 1] = line
           /\ \A i \in DOMAIN mirror[line.log] : mirror'[line.log][i] = mirror[line.log][i] /\ i < Len(mirror[line.log]) + 1
<1>1. mirror \in [Logs -> Seq(Lines)] /\ line.log \in Logs
  BY DEF CoreInv, StoreTypes, Lines
<1>2. mirror'[line.log] = Append(mirror[line.log], line) /\ \A l \in Logs : l # line.log => mirror'[l] = mirror[l]
  BY <1>1 DEF Appended
<1>3. mirror[line.log] \in Seq(Lines)
  BY <1>1
<1> QED BY <1>1, <1>2, <1>3, OneMore

\* The places of the held lines, with one more.
LEMMA GrownPlaces ==
    ASSUME CoreInv, NEW line \in Lines, HeldGrows(line)
    PROVE  /\ Places(HeldOffs)' = Places(HeldOffs) \cup {<<line.log, Len(mirror[line.log]) + 1>>}
           /\ DOMAIN HeldOffs' = DOMAIN HeldOffs \cup {Len(HeldOffs) + 1}
           /\ HeldOffs'[Len(HeldOffs) + 1] = [log |-> line.log, len |-> Len(mirror[line.log])]
           /\ \A i \in DOMAIN HeldOffs : HeldOffs'[i] = HeldOffs[i] /\ i < Len(HeldOffs) + 1
<1> DEFINE o == [log |-> line.log, len |-> Len(mirror[line.log])]
<1>1. o \in Offsets /\ HeldOffs \in Seq(Offsets)
  BY HeldType DEF Lines, Offsets
<1>2. HeldOffs' = Append(HeldOffs, o) /\ o.log = line.log /\ o.len = Len(mirror[line.log])
  BY DEF HeldGrows
<1> HIDE DEF o
<1>3. /\ DOMAIN HeldOffs' = DOMAIN HeldOffs \cup {Len(HeldOffs) + 1}
      /\ HeldOffs'[Len(HeldOffs) + 1] = o
      /\ \A i \in DOMAIN HeldOffs : HeldOffs'[i] = HeldOffs[i] /\ i < Len(HeldOffs) + 1
  BY <1>1, <1>2, OneMore
<1>4. Places(HeldOffs)' = {<<HeldOffs'[i].log, HeldOffs'[i].len + 1>> : i \in DOMAIN HeldOffs'}
  BY DEF Places
<1>5. \A i \in DOMAIN HeldOffs : <<HeldOffs'[i].log, HeldOffs'[i].len + 1>> = <<HeldOffs[i].log, HeldOffs[i].len + 1>>
  BY <1>3
<1>6. <<HeldOffs'[Len(HeldOffs) + 1].log, HeldOffs'[Len(HeldOffs) + 1].len + 1>> = <<line.log, Len(mirror[line.log]) + 1>>
  BY <1>2, <1>3
<1> QED BY <1>3, <1>4, <1>5, <1>6 DEF Places, o

\* A rollback removes none but held lines, and those it leaves are stray.
LEMMA TakenBack ==
    ASSUME CoreInv, HeldAtEnd, HeldTakenBack, NEW l \in Logs
    PROVE  /\ DOMAIN mirror'[l] \subseteq DOMAIN mirror[l]
           /\ \A i \in DOMAIN mirror[l] : i \in DOMAIN mirror'[l] \/ <<l, i>> \in Places(HeldOffs)
           /\ \A i \in DOMAIN mirror'[l] : mirror'[l][i] = mirror[l][i]
           /\ \A i \in DOMAIN mirror'[l] : <<l, i>> \in Places(HeldOffs) => <<l, i>> \in stray'
           /\ \A i : <<l, i>> \in stray' => <<l, i>> \in stray \/ (<<l, i>> \in Places(HeldOffs) /\ i \in DOMAIN mirror'[l])
           /\ stray \subseteq stray'
<1> DEFINE offs == HeldOffs
<1>0. /\ mirror[l] \in Seq(Lines) /\ Len(mirror[l]) \in Nat /\ DOMAIN mirror[l] = 1..Len(mirror[l])
      /\ DOMAIN offs = 1..Len(offs) /\ Len(offs) \in Nat
      /\ \A i \in DOMAIN offs : offs[i].len \in Nat /\ offs[i].len + 1 \in DOMAIN mirror[offs[i].log]
  BY HeldType
<1>1. PICK done \in SUBSET DOMAIN offs :
         /\ mirror' = Truncated(offs, done)
         /\ stray' = stray \cup {x \in {<<offs[i].log, offs[i].len + 1>> : i \in DOMAIN offs \ done} :
                                   x[2] <= Len(Truncated(offs, done)[x[1]])}
  BY DEF HeldTakenBack, RolledBack
<1>2. stray' = stray \cup {x \in {<<offs[i].log, offs[i].len + 1>> : i \in DOMAIN offs \ done} : x[2] <= Len(mirror'[x[1]])}
  BY <1>1
<1> DEFINE mine == {i \in done : offs[i].log = l}
           k == CHOOSE i \in mine : \A j \in mine : i <= j
           n == IF mine = {} THEN Len(mirror[l]) ELSE offs[k].len
<1>3. /\ n \in Nat /\ n <= Len(mirror[l])
      /\ mirror'[l] \in Seq(Lines) /\ Len(mirror'[l]) = n /\ DOMAIN mirror'[l] = 1..n
      /\ \A i \in 1..n : mirror'[l][i] = mirror[l][i]
      /\ \A i \in mine : n <= offs[i].len
      /\ \A i \in DOMAIN mirror[l] : i > n => <<l, i>> \in Places(HeldOffs)
  <2>1. CASE mine = {}
    <3>1. mirror'[l] = mirror[l] /\ n = Len(mirror[l])
      BY <1>1, <2>1 DEF Truncated
    <3> HIDE DEF n, mine
    <3> QED BY <1>0, <2>1, <3>1
  <2>2. CASE mine # {}
    <3>1. mine \subseteq Nat
      BY <1>0
    <3>2. k \in mine /\ \A j \in mine : k <= j
      <4> HIDE DEF mine
      <4> QED BY <2>2, <3>1, LeastExists
    <3>3. mirror'[l] = SubSeq(mirror[l], 1, n) /\ n = offs[k].len
      <4>1. n = offs[k].len
        BY <2>2
      <4>2. Truncated(offs, done)[l] = SubSeq(mirror[l], 1, offs[k].len)
        BY <2>2 DEF Truncated
      <4> HIDE DEF n, k
      <4> QED BY <1>1, <4>1, <4>2
    <3> HIDE DEF n
    <3>4. n \in Nat /\ n + 1 \in 1..Len(mirror[l])
      <4> HIDE DEF k
      <4> QED BY <1>0, <3>2, <3>3
    <3>5. ASSUME NEW i \in mine PROVE n <= offs[i].len
      <4>1. CASE i = k
        BY <3>3, <3>4, <4>1
      <4>2. CASE k < i
        <5> HIDE DEF k
        <5>1. offs[k].len < offs[i].len /\ offs[k].len \in Nat /\ offs[i].len \in Nat
          BY <1>0, <3>2, <4>2 DEF HeldAtEnd, AtEnd
        <5> QED BY <3>3, <5>1
      <4>3. k \in Nat /\ i \in Nat /\ k <= i
        <5> HIDE DEF k
        <5> QED BY <3>1, <3>2
      <4> QED BY <4>1, <4>2, <4>3
    <3>6. ASSUME NEW i \in DOMAIN mirror[l], i > n PROVE <<l, i>> \in Places(HeldOffs)
      <4> HIDE DEF k
      <4> QED BY <3>2, <3>3, <3>6 DEF HeldAtEnd, AtEnd
    <3>7. \A i \in 1..n : mirror[l][i] \in Lines
      BY <1>0, <3>4, ElementOfSeq
    <3>8. SubSeq(mirror[l], 1, n) \in Seq(Lines) /\ Len(SubSeq(mirror[l], 1, n)) = n /\ \A i \in 1..n : SubSeq(mirror[l], 1, n)[i] = mirror[l][i]
      BY <1>0, <3>4, <3>7, SubSeqProperties
    <3>9. DOMAIN SubSeq(mirror[l], 1, n) = 1..n
      BY <3>8, LenProperties
    <3>10. n <= Len(mirror[l])
      BY <1>0, <3>4
    <3> HIDE DEF mine
    <3> QED BY <3>3, <3>4, <3>5, <3>6, <3>8, <3>9, <3>10
  <2> QED BY <2>1, <2>2
<1> HIDE DEF n
<1>4. ASSUME NEW i \in DOMAIN mirror'[l], <<l, i>> \in Places(HeldOffs) PROVE <<l, i>> \in stray'
  <2>1. PICK j \in DOMAIN offs : <<l, i>> = <<offs[j].log, offs[j].len + 1>>
    BY <1>4 DEF Places
  <2>2. offs[j].log = l /\ i = offs[j].len + 1 /\ offs[j].len \in Nat
    BY <1>0, <2>1
  <2>3. ~(n <= offs[j].len)
    BY <1>3, <2>2
  <2>4. j \in DOMAIN offs \ done
    BY <1>3, <2>2, <2>3
  <2>5. <<l, i>>[2] <= Len(mirror'[<<l, i>>[1]])
    BY <1>3
  <2> QED BY <1>2, <2>1, <2>4, <2>5
<1>5. ASSUME NEW i, <<l, i>> \in stray', <<l, i>> \notin stray PROVE <<l, i>> \in Places(HeldOffs) /\ i \in DOMAIN mirror'[l]
  <2>1. PICK j \in DOMAIN offs : <<l, i>> = <<offs[j].log, offs[j].len + 1>>
    BY <1>2, <1>5
  <2>2. i = offs[j].len + 1 /\ offs[j].len \in Nat
    BY <1>0, <2>1
  <2>3. <<l, i>>[2] <= Len(mirror'[<<l, i>>[1]])
    BY <1>2, <1>5
  <2>4. i \in 1..n
    BY <1>3, <2>2, <2>3
  <2> QED BY <1>3, <2>1, <2>4 DEF Places
<1>6. stray \subseteq stray'
  BY <1>2
<1>7. DOMAIN mirror'[l] \subseteq DOMAIN mirror[l] /\ \A i \in DOMAIN mirror[l] : i \in DOMAIN mirror'[l] \/ i > n
  BY <1>0, <1>3
<1> HIDE DEF mine
<1> QED BY <1>3, <1>4, <1>5, <1>6, <1>7

\* `track` appends a line for the artifact, after one for the run when it is new.
LEMMA TrackMirror ==
    ASSUME CoreInv, NEW a \in Artifacts, Track(a)
    PROVE  /\ mirror'["artifacts"] = Append(mirror["artifacts"], Line("artifacts", a, None))
           /\ mirror'["runs"] = IF db.run = None THEN Append(mirror["runs"], Line("runs", "succeeded", None)) ELSE mirror["runs"]
           /\ \A l \in Logs : l \notin {"artifacts", "runs"} => mirror'[l] = mirror[l]
<1> DEFINE first == IF db.run = None THEN Appended(Line("runs", "succeeded", None)) ELSE mirror
<1>1. mirror \in [Logs -> Seq(Lines)] /\ Line("runs", "succeeded", None).log = "runs" /\ "runs" \in Logs /\ "artifacts" \in Logs
  BY DEF CoreInv, StoreTypes, Line, Logs
<1>2. /\ first["runs"] = IF db.run = None THEN Append(mirror["runs"], Line("runs", "succeeded", None)) ELSE mirror["runs"]
      /\ \A l \in Logs : l # "runs" => first[l] = mirror[l]
      /\ DOMAIN first = Logs
  BY <1>1 DEF Appended
<1>3. mirror' = [first EXCEPT !["artifacts"] = Append(@, Line("artifacts", a, None))]
  BY DEF Track
<1> HIDE DEF first
<1> QED BY <1>1, <1>2, <1>3
\* The held lines stay at the end.
LEMMA AtEndStep ==
    ASSUME CoreInv, MirrorInv, [Next]_vars
    PROVE  HeldAtEnd'
<1>0. HeldAtEnd /\ StrayThere
  BY DEF MirrorInv
<1>1. CASE HeldKept
  BY <1>0, <1>1 DEF HeldKept, HeldAtEnd, AtEnd, Places
<1>2. CASE HeldOffs' = <<>>
  BY <1>2, EmptySeq DEF HeldAtEnd, AtEnd, Places
<1>3. ASSUME NEW line \in Lines, HeldGrows(line) PROVE HeldAtEnd'
  <2> DEFINE l == line.log
             n == Len(mirror[l])
             k == Len(HeldOffs) + 1
             o == HeldOffs
             q == HeldOffs'
  <2>1. /\ l \in Logs /\ \A x \in Logs : x # l => mirror'[x] = mirror[x]
        /\ DOMAIN mirror'[l] = DOMAIN mirror[l] \cup {n + 1} /\ n \in Nat
        /\ \A i \in DOMAIN mirror[l] : i < n + 1
    BY <1>3, GrownMirror, HeldType DEF HeldGrows
  <2>2. /\ Places(HeldOffs)' = Places(o) \cup {<<l, n + 1>>}
        /\ DOMAIN q = DOMAIN o \cup {k} /\ q[k] = [log |-> l, len |-> n]
        /\ \A i \in DOMAIN o : q[i] = o[i] /\ i < k
    BY <1>3, GrownPlaces
  <2>3. /\ k \in Nat /\ DOMAIN o \subseteq Nat
        /\ \A i \in DOMAIN o : o[i].log \in Logs /\ o[i].len \in Nat /\ o[i].len + 1 \in DOMAIN mirror[o[i].log]
    BY HeldType
  <2>4. stray' = stray
    BY <1>3 DEF HeldGrows
  <2>5. q[k].log = l /\ q[k].len = n
    BY <2>2
  <2>6. \A i \in DOMAIN o : o[i].log = l => o[i].len < n
    BY <2>1, <2>3
  <2> HIDE DEF q, k, o, n, l
  <2>7. ASSUME NEW i \in DOMAIN q, NEW j \in DOMAIN q, i < j, q[i].log = q[j].log PROVE q[i].len < q[j].len
    <3>1. i \in DOMAIN o
      BY <2>2, <2>3, <2>7
    <3>2. CASE j \in DOMAIN o
      BY <1>0, <2>2, <2>7, <3>1, <3>2 DEF HeldAtEnd, AtEnd, o
    <3>3. CASE j = k
      BY <2>2, <2>5, <2>6, <2>7, <3>1, <3>3
    <3> QED BY <2>2, <3>2, <3>3
  <2>8. ASSUME NEW i \in DOMAIN q, NEW x \in DOMAIN mirror'[q[i].log], x > q[i].len
        PROVE  <<q[i].log, x>> \in Places(HeldOffs)'
    <3>1. CASE i \in DOMAIN o /\ x \in DOMAIN mirror[o[i].log]
      <4>1. <<o[i].log, x>> \in Places(o)
        BY <1>0, <2>2, <2>8, <3>1 DEF HeldAtEnd, AtEnd, o
      <4> QED BY <2>2, <3>1, <4>1
    <3>2. CASE i \in DOMAIN o /\ x \notin DOMAIN mirror[o[i].log]
      BY <2>1, <2>2, <2>3, <2>8, <3>2
    <3>3. CASE i = k
      <4>1. x \in DOMAIN mirror[l] \/ x = n + 1
        BY <2>1, <2>5, <2>8, <3>3
      <4>2. DOMAIN mirror[l] \subseteq Nat
        BY <2>1, HeldType
      <4>3. x = n + 1
        BY <2>1, <2>5, <2>8, <3>3, <4>1, <4>2
      <4> QED BY <2>2, <2>5, <3>3, <4>3
    <3> QED BY <2>2, <3>1, <3>2, <3>3
  <2>9. Places(HeldOffs)' \cap stray' = {}
    <3>1. <<l, n + 1>> \notin stray
      <4>1. ASSUME <<l, n + 1>> \in stray PROVE FALSE
        <5>1. <<l, n + 1>>[2] \in DOMAIN mirror[<<l, n + 1>>[1]]
          BY <1>0, <4>1 DEF StrayThere
        <5>2. n + 1 \in DOMAIN mirror[l]
          BY <5>1
        <5> QED BY <2>1, <5>2
      <4> QED BY <4>1
    <3> QED BY <1>0, <2>2, <2>4, <3>1 DEF HeldAtEnd, AtEnd, o
  <2> QED BY <2>7, <2>8, <2>9 DEF HeldAtEnd, AtEnd, q
<1> QED BY <1>1, <1>2, <1>3, HeldEffect DEF HeldTakenBack, HeldLost

\* Enrich and track only append.
LEMMA OneStepMirror ==
    ASSUME CoreInv, Enrich \/ \E a \in Artifacts : Track(a), NEW l \in Logs
    PROVE  /\ DOMAIN mirror[l] \subseteq DOMAIN mirror'[l]
           /\ \A i \in DOMAIN mirror[l] : mirror'[l][i] = mirror[l][i]
           /\ \A i \in DOMAIN mirror'[l] : i \in DOMAIN mirror[l] \/ mirror'[l][i].log = l
<1>0. mirror \in [Logs -> Seq(Lines)] /\ mirror[l] \in Seq(Lines)
  BY DEF CoreInv, StoreTypes
<1>1. ASSUME NEW line \in Lines, line.log = l, mirror'[l] = Append(mirror[l], line)
      PROVE  /\ DOMAIN mirror[l] \subseteq DOMAIN mirror'[l]
             /\ \A i \in DOMAIN mirror[l] : mirror'[l][i] = mirror[l][i]
             /\ \A i \in DOMAIN mirror'[l] : i \in DOMAIN mirror[l] \/ mirror'[l][i].log = l
  BY <1>0, <1>1, OneMore
<1>2. /\ \A x \in RunStates : Line("runs", x, None) \in Lines /\ Line("runs", x, None).log = "runs"
      /\ \A a \in Artifacts : Line("artifacts", a, None) \in Lines /\ Line("artifacts", a, None).log = "artifacts"
      /\ "succeeded" \in RunStates
  BY DEF Line, Lines, Logs, RunStates
<1>3. CASE Enrich
  <2>1. PICK x \in RunStates : mirror' = Appended(Line("runs", x, None))
    BY <1>3 DEF Enrich
  <2>2. CASE l = "runs"
    <3>1. mirror'[l] = Append(mirror[l], Line("runs", x, None))
      BY <1>0, <1>2, <2>1, <2>2 DEF Appended
    <3> QED BY <1>1, <1>2, <2>2, <3>1
  <2>3. CASE l # "runs"
    BY <1>0, <1>2, <2>1, <2>3 DEF Appended
  <2> QED BY <2>2, <2>3
<1>4. ASSUME NEW a \in Artifacts, Track(a)
      PROVE  /\ DOMAIN mirror[l] \subseteq DOMAIN mirror'[l]
             /\ \A i \in DOMAIN mirror[l] : mirror'[l][i] = mirror[l][i]
             /\ \A i \in DOMAIN mirror'[l] : i \in DOMAIN mirror[l] \/ mirror'[l][i].log = l
  <2>1. CASE mirror'[l] = mirror[l]
    BY <2>1
  <2>2. CASE l = "artifacts"
    BY <1>1, <1>2, <1>4, <2>2, TrackMirror
  <2>3. CASE l = "runs" /\ db.run = None
    BY <1>1, <1>2, <1>4, <2>3, TrackMirror
  <2> QED BY <1>4, <2>1, <2>2, <2>3, TrackMirror
<1> QED BY <1>3, <1>4

\* What a crash or a rollback left stays: no later rollback removes it.
LEMMA StrayStep ==
    ASSUME CoreInv, MirrorInv, [Next]_vars
    PROVE  StrayThere'
<1>0. HeldAtEnd /\ StrayThere /\ stray \subseteq Logs \X Nat
  BY DEF MirrorInv, CoreInv, StoreTypes
<1>1. ASSUME UNCHANGED stray, \A l \in Logs : DOMAIN mirror[l] \subseteq DOMAIN mirror'[l] PROVE StrayThere'
  BY <1>0, <1>1 DEF StrayThere
<1>2. CASE HeldKept \/ IndexCommit \/ \E p \in Procs : Commit(p)
  BY <1>1, <1>2 DEF HeldKept, IndexCommit, Commit
<1>3. ASSUME NEW line \in Lines, HeldGrows(line) PROVE StrayThere'
  <2>1. \A l \in Logs : DOMAIN mirror[l] \subseteq DOMAIN mirror'[l]
    BY <1>3, GrownMirror DEF HeldGrows
  <2> QED BY <1>1, <1>3, <2>1 DEF HeldGrows
<1>4. CASE HeldTakenBack
  <2> SUFFICES ASSUME NEW x \in stray' PROVE x[2] \in DOMAIN mirror'[x[1]]
    BY DEF StrayThere
  <2>1. x[1] \in Logs /\ x = <<x[1], x[2]>>
    BY CoreNext DEF CoreInv, StoreTypes
  <2>2. CASE <<x[1], x[2]>> \in stray
    <3>1. x[2] \in DOMAIN mirror[x[1]]
      BY <1>0, <2>1, <2>2 DEF StrayThere
    <3>2. <<x[1], x[2]>> \notin Places(HeldOffs)
      BY <1>0, <2>2 DEF HeldAtEnd, AtEnd
    <3> QED BY <1>0, <1>4, <2>1, <3>1, <3>2, TakenBack
  <2>3. CASE <<x[1], x[2]>> \notin stray
    BY <1>0, <1>4, <2>1, <2>3, TakenBack
  <2> QED BY <2>2, <2>3
<1>5. CASE HeldLost
  <2> SUFFICES ASSUME NEW x \in stray \cup Places(HeldOffs) PROVE x[2] \in DOMAIN mirror[x[1]]
    BY <1>5 DEF HeldLost, StrayThere
  <2>1. CASE x \in stray
    BY <1>0, <2>1 DEF StrayThere
  <2>2. CASE x \in Places(HeldOffs)
    <3>1. PICK i \in DOMAIN HeldOffs : x = <<HeldOffs[i].log, HeldOffs[i].len + 1>>
      BY <2>2 DEF Places
    <3>2. HeldOffs[i].len + 1 \in DOMAIN mirror[HeldOffs[i].log]
      BY HeldType
    <3> QED BY <3>1, <3>2
  <2> QED BY <2>1, <2>2
<1>6. CASE Enrich \/ \E a \in Artifacts : Track(a)
  <2>1. stray' = stray
    BY <1>6 DEF Enrich, Track
  <2>2. \A l \in Logs : DOMAIN mirror[l] \subseteq DOMAIN mirror'[l]
    BY <1>6, OneStepMirror
  <2> QED BY <1>1, <2>1, <2>2
<1> QED BY <1>2, <1>3, <1>4, <1>5, <1>6, HeldEffect

\* Lines stay in their files.
LEMMA FiledStep ==
    ASSUME CoreInv, MirrorInv, [Next]_vars
    PROVE  LinesFiled'
<1>0. HeldAtEnd /\ LinesFiled
  BY DEF MirrorInv
<1> SUFFICES ASSUME NEW l \in Logs, NEW i \in DOMAIN mirror'[l] PROVE mirror'[l][i].log = l
  BY DEF LinesFiled
<1>1. CASE mirror' = mirror
  BY <1>0, <1>1 DEF LinesFiled
<1>2. ASSUME NEW line \in Lines, HeldGrows(line) PROVE mirror'[l][i].log = l
  <2>0. mirror' = Appended(line)
    BY <1>2 DEF HeldGrows
  <2>1. CASE l # line.log \/ i \in DOMAIN mirror[l]
    <3>1. i \in DOMAIN mirror[l] /\ mirror'[l][i] = mirror[l][i]
      BY <2>0, <2>1, GrownMirror
    <3> QED BY <1>0, <3>1 DEF LinesFiled
  <2>2. CASE l = line.log /\ i = Len(mirror[line.log]) + 1
    BY <1>2, <2>2, GrownMirror DEF HeldGrows
  <2> QED BY <1>2, <2>1, <2>2, GrownMirror DEF HeldGrows
<1>3. CASE HeldTakenBack
  <2>1. i \in DOMAIN mirror[l] /\ mirror'[l][i] = mirror[l][i]
    BY <1>0, <1>3, TakenBack
  <2> QED BY <1>0, <2>1 DEF LinesFiled
<1>4. CASE Enrich \/ \E a \in Artifacts : Track(a)
  BY <1>0, <1>4, OneStepMirror DEF LinesFiled
<1> QED BY <1>1, <1>2, <1>3, <1>4, HeldEffect DEF HeldKept, HeldLost, Commit, IndexCommit
-----------------------------------------------------------------------------
(* What a transaction writes *)

Has(s, x) == \E i \in DOMAIN s : s[i] = x

LEMMA ConcatHas ==
    ASSUME NEW S, NEW s \in Seq(S), NEW t \in Seq(S), NEW x
    PROVE  Has(s \o t, x) <=> Has(s, x) \/ Has(t, x)
<1>1. /\ Len(s) \in Nat /\ Len(t) \in Nat /\ DOMAIN s = 1..Len(s) /\ DOMAIN t = 1..Len(t)
  BY LenProperties
<1>2. /\ s \o t \in Seq(S) /\ Len(s \o t) = Len(s) + Len(t)
      /\ \A i \in 1..(Len(s) + Len(t)) : (s \o t)[i] = IF i <= Len(s) THEN s[i] ELSE t[i - Len(s)]
  BY ConcatProperties
<1>3. DOMAIN (s \o t) = 1..(Len(s) + Len(t))
  BY <1>2, LenProperties
<1>4. ASSUME Has(s \o t, x) PROVE Has(s, x) \/ Has(t, x)
  <2>1. PICK i \in 1..(Len(s) + Len(t)) : (s \o t)[i] = x
    BY <1>3, <1>4 DEF Has
  <2>2. CASE i <= Len(s)
    BY <1>1, <1>2, <2>1, <2>2 DEF Has
  <2>3. CASE ~(i <= Len(s))
    <3>1. i - Len(s) \in 1..Len(t) /\ t[i - Len(s)] = x
      BY <1>1, <1>2, <2>1, <2>3
    <3> QED BY <1>1, <3>1 DEF Has
  <2> QED BY <2>2, <2>3
<1>5. ASSUME Has(s, x) PROVE Has(s \o t, x)
  <2>1. PICK i \in 1..Len(s) : s[i] = x
    BY <1>1, <1>5 DEF Has
  <2>2. i \in 1..(Len(s) + Len(t)) /\ i <= Len(s)
    BY <1>1
  <2> QED BY <1>2, <1>3, <2>1, <2>2 DEF Has
<1>6. ASSUME Has(t, x) PROVE Has(s \o t, x)
  <2>1. PICK i \in 1..Len(t) : t[i] = x
    BY <1>1, <1>6 DEF Has
  <2>2. i + Len(s) \in 1..(Len(s) + Len(t)) /\ ~(i + Len(s) <= Len(s)) /\ (i + Len(s)) - Len(s) = i
    BY <1>1
  <2>3. (s \o t)[i + Len(s)] = x
    BY <1>2, <2>1, <2>2
  <2> QED BY <1>3, <2>2, <2>3 DEF Has
<1> QED BY <1>4, <1>5, <1>6

\* appendRecordMirrors goes through the lines of the new rows, and no others.
LEMMA NewLinesSet ==
    ASSUME StoreTypes, NEW p \in Procs, proc[p].req \in Requests, NEW x
    PROVE  Has(NewLines(p), x) <=> x \in NewSet(p)
<1> DEFINE r == proc[p].req
           s1 == IF db.run = None THEN <<Line("runs", Run(p), None)>> ELSE <<>>
           s2 == IF r.art \in {None} \cup db.art THEN <<>> ELSE <<Line("artifacts", r.art, None)>>
           s3 == IF r.hash \in db.metric THEN <<>> ELSE <<Line("metric_files", r.hash, None)>>
           s4 == <<Line("idempotency_keys", r.key, None)>>
           e1 == IF db.run = None THEN {Line("runs", Run(p), None)} ELSE {}
           e2 == IF r.art \in {None} \cup db.art THEN {} ELSE {Line("artifacts", r.art, None)}
           e3 == IF r.hash \in db.metric THEN {} ELSE {Line("metric_files", r.hash, None)}
           e4 == {Line("idempotency_keys", r.key, None)}
<1>1. r.key \in Keys /\ r.hash \in Hashes /\ r.art \in Artifacts \cup {None}
  BY StoreAssumption
<1>2. Run(p) \in RunStates
  <2>1. proc[p] \in Process
    BY DEF StoreTypes
  <2> QED BY <2>1 DEF Run, Process, RunStates
<1>3. /\ Line("runs", Run(p), None) \in Lines
      /\ r.art # None => Line("artifacts", r.art, None) \in Lines
      /\ Line("metric_files", r.hash, None) \in Lines
      /\ Line("idempotency_keys", r.key, None) \in Lines
  BY <1>1, <1>2 DEF Line, Lines, Logs
<1>4. s1 \in Seq(Lines) /\ s2 \in Seq(Lines) /\ s3 \in Seq(Lines) /\ s4 \in Seq(Lines)
  <2> HIDE DEF r
  <2> QED BY <1>3, EmptySeq
<1>5. \A y : Has(<<y>>, x) <=> x = y
  BY DEF Has
<1>6. ~Has(<<>>, x)
  BY EmptySeq DEF Has
<1>7. (Has(s1, x) <=> x \in e1) /\ (Has(s2, x) <=> x \in e2) /\ (Has(s3, x) <=> x \in e3) /\ (Has(s4, x) <=> x \in e4)
  <2> HIDE DEF r
  <2> QED BY <1>5, <1>6
<1>8. NewLines(p) = ((s1 \o s2) \o s3) \o s4 /\ NewSet(p) = ((e1 \cup e2) \cup e3) \cup e4
  BY DEF NewLines, NewSet
<1> HIDE DEF s1, s2, s3, s4, e1, e2, e3, e4
<1>9. s1 \o s2 \in Seq(Lines) /\ (s1 \o s2) \o s3 \in Seq(Lines)
  BY <1>4, ConcatProperties
<1>10. (Has(s1 \o s2, x) <=> Has(s1, x) \/ Has(s2, x)) /\ (Has((s1 \o s2) \o s3, x) <=> Has(s1 \o s2, x) \/ Has(s3, x))
  BY <1>4, <1>9, ConcatHas
<1>11. Has(((s1 \o s2) \o s3) \o s4, x) <=> Has((s1 \o s2) \o s3, x) \/ Has(s4, x)
  <2> DEFINE t == (s1 \o s2) \o s3
  <2>1. t \in Seq(Lines)
    BY <1>9
  <2> HIDE DEF t
  <2>2. Has(t \o s4, x) <=> Has(t, x) \/ Has(s4, x)
    BY <1>4, <2>1, ConcatHas
  <2> QED BY <2>2 DEF t
<1> QED BY <1>7, <1>8, <1>10, <1>11

\* While one holds the lock, nobody else writes the tables or the mirrors.
LEMMA OthersQuiet ==
    ASSUME CoreInv, [Next]_vars
    PROVE  /\ \A p \in Procs : lock = p => \/ Call(p) \/ Crash(p) \/ Importer(p)
                                           \/ UNCHANGED <<mirror, db>> /\ proc'[p] = proc[p]
           /\ lock = Watcher => \/ Pass \/ PassFails \/ WatcherDies
                                \/ UNCHANGED <<mirror, db, off>>
<1>0. LockAgrees /\ proc \in [Procs -> Process] /\ Watcher \notin Procs \cup {None} /\ None \notin Procs
  BY StoreAssumption, WatcherAssumption DEF CoreInv, StoreTypes
<1>1. ASSUME NEW q \in Procs, Call(q) \/ Crash(q) \/ Importer(q), lock # q PROVE UNCHANGED <<mirror, db>>
  <2>1. proc[q].pc \notin {"tx", "mirror"}
    BY <1>0, <1>1 DEF LockAgrees
  <2> QED BY <1>1, <2>1 DEF Importer, Call, Crash, OpenFile, FillFile, FillFails, ReadExisting, ReadFails, TakeLock,
             LockTimesOut, Reused, Conflict, Insert, AppendMirror, Commit, TxFails, Cleanup, Return
<1>2. ASSUME Pass \/ PassFails \/ WatcherDies, lock # Watcher PROVE UNCHANGED <<mirror, db>>
  <2>1. off.pc # "mirror"
    BY <1>0, <1>2 DEF LockAgrees
  <2> QED BY <1>2, <2>1 DEF Pass, PassFails, WatcherDies, storeVars, NoRun, Begin, Upload, SaveCheckpoint, IndexLock, IndexAppend,
             IndexCommit, Check, Restart, Unusable, Skip, StartUpload, UploadFails, IndexTimesOut, IndexFails, SkipFails
<1>3. ASSUME Enrich \/ Sorts \/ Workload, lock # None PROVE UNCHANGED <<mirror, db, proc>>
  BY <1>3 DEF Enrich, Sorts, Assign, EnsureIndex, Workload, Complete, Track, Edit, storeVars
<1>4. ASSUME NEW p \in Procs, lock = p, ~(Call(p) \/ Crash(p) \/ Importer(p))
      PROVE  UNCHANGED <<mirror, db>> /\ proc'[p] = proc[p]
  <2>1. ASSUME NEW q \in Procs, Call(q) \/ Crash(q) \/ Importer(q) PROVE UNCHANGED <<mirror, db>> /\ proc'[p] = proc[p]
    <3>1. q # p
      BY <1>4, <2>1
    <3> QED BY <1>0, <1>1, <1>4, <2>1, <3>1, ImporterShape
  <2> QED BY <1>0, <1>2, <1>3, <1>4, <2>1, Steps, Frames DEF storeVars
<1>5. ASSUME lock = Watcher, ~(Pass \/ PassFails \/ WatcherDies) PROVE UNCHANGED <<mirror, db, off>>
  BY <1>0, <1>1, <1>3, <1>5, Steps, Frames DEF storeVars, offVars
<1> QED BY <1>4, <1>5
\* An import and the watcher go on writing what they have to.
LEMMA WritesStep ==
    ASSUME CoreInv, MirrorInv, [Next]_vars
    PROVE  HeldWrites'
<1>0. /\ LockAgrees /\ proc \in [Procs -> Process] /\ off \in Watch /\ Staged /\ WatchStaged /\ HeldWrites
      /\ Watcher \notin Procs \cup {None} /\ None \notin Procs /\ LockAgrees' /\ StoreTypes /\ mirror \in [Logs -> Seq(Lines)]
  BY StoreAssumption, WatcherAssumption, LockStep DEF CoreInv, StoreTypes, WatcherTypes, MirrorInv
<1>1. ASSUME NEW p \in Procs, proc'[p].pc = "mirror" PROVE ImportWrites(p)'
  <2>1. ASSUME UNCHANGED db, proc'[p].req = proc[p].req, proc'[p].seen = proc[p].seen PROVE NewSet(p)' = NewSet(p)
    BY <2>1 DEF NewSet, Run
  <2>2. CASE UNCHANGED <<mirror, db>> /\ proc'[p] = proc[p]
    BY <1>0, <1>1, <2>1, <2>2 DEF HeldWrites, ImportWrites, Written
  <2>3. CASE Insert(p)
    <3> DEFINE n == NewLines(p)
    <3>1. /\ UNCHANGED <<mirror, db>> /\ proc'[p].req = proc[p].req /\ proc'[p].seen = proc[p].seen
          /\ proc'[p].todo = n /\ proc'[p].offs = <<>>
      BY <1>0, <2>3 DEF Insert, Process, Staged
    <3>2. \A x : Has(n, x) <=> x \in NewSet(p)
      <4>1. proc[p].req \in Requests
        BY <1>0, <2>3 DEF Insert, Staged, Process
      <4> QED BY <1>0, <4>1, NewLinesSet
    <3> HIDE DEF n
    <3>3. NewSet(p)' = NewSet(p)
      BY <2>1, <3>1
    <3> QED BY <3>1, <3>2, <3>3, EmptySeq DEF ImportWrites, Has
  <2>4. CASE AppendMirror(p)
    <3> DEFINE line == Head(proc[p].todo)
               t == proc[p].todo
               o == proc[p].offs
               t2 == proc'[p].todo
               o2 == proc'[p].offs
               k == Len(o) + 1
               new == [log |-> line.log, len |-> Len(mirror[line.log])]
    <3>1. /\ mirror' = Appended(line) /\ UNCHANGED db /\ proc'[p].req = proc[p].req /\ proc'[p].seen = proc[p].seen
          /\ t \in Seq(Lines) /\ t # <<>> /\ o \in Seq(Offsets) /\ t2 = Tail(t) /\ o2 = Append(o, new) /\ proc[p].pc = "mirror"
      BY <1>0, <2>4 DEF AppendMirror, Process
    <3>2. line \in Lines /\ line = t[1] /\ 1 \in DOMAIN t /\ \A i \in DOMAIN t : i = 1 \/ (i - 1 \in DOMAIN t2 /\ t2[i - 1] = t[i])
      <4>1. Len(t) \in Nat /\ DOMAIN t = 1..Len(t) /\ Len(t) # 0
        BY <3>1, LenProperties, EmptySeq
      <4>2. line \in Lines /\ line = t[1] /\ Len(t2) = Len(t) - 1 /\ t2 \in Seq(Lines) /\ \A i \in 1..Len(t2) : t2[i] = t[i + 1]
        BY <3>1, HeadTailProperties
      <4>3. DOMAIN t2 = 1..Len(t2)
        BY <4>2, LenProperties
      <4> HIDE DEF line, t2, t
      <4>4. ASSUME NEW i \in DOMAIN t, i # 1 PROVE i - 1 \in DOMAIN t2 /\ t2[i - 1] = t[i]
        <5>1. i - 1 \in 1..Len(t2) /\ (i - 1) + 1 = i
          BY <4>1, <4>2, <4>4
        <5> QED BY <4>2, <4>3, <5>1
      <4> QED BY <4>1, <4>2, <4>4
    <3>3. \A i \in DOMAIN t2 : i + 1 \in DOMAIN t /\ t2[i] = t[i + 1]
      <4>1. Len(t) \in Nat /\ DOMAIN t = 1..Len(t) /\ Len(t) # 0
        BY <3>1, LenProperties, EmptySeq
      <4>2. Len(t2) = Len(t) - 1 /\ t2 \in Seq(Lines) /\ \A i \in 1..Len(t2) : t2[i] = t[i + 1]
        BY <3>1, HeadTailProperties
      <4>3. DOMAIN t2 = 1..Len(t2)
        BY <4>2, LenProperties
      <4> HIDE DEF t2, t
      <4> QED BY <4>1, <4>2, <4>3
    <3>4. new \in Offsets /\ new.log = line.log /\ new.len = Len(mirror[line.log])
      BY <3>2, HeldType DEF Lines, Offsets
    <3>5. DOMAIN o2 = DOMAIN o \cup {k} /\ o2[k] = new /\ \A i \in DOMAIN o : o2[i] = o[i]
      <4> HIDE DEF new
      <4> QED BY <3>1, <3>4, OneMore
    <3>6. \A i \in DOMAIN o : o[i].log \in Logs /\ o[i].len + 1 \in DOMAIN mirror[o[i].log]
      <4>1. HeldOffs = o
        BY <1>0, <3>1, HeldBy DEF LockAgrees
      <4> QED BY <4>1, HeldType
    <3>7. /\ mirror'[line.log][Len(mirror[line.log]) + 1] = line
          /\ \A l \in Logs : \A i \in DOMAIN mirror[l] : mirror'[l][i] = mirror[l][i]
      <4>1. line \in Lines /\ mirror' = Appended(line)
        BY <3>1, <3>2
      <4> HIDE DEF line
      <4> QED BY <4>1, GrownMirror
    <3>8. NewSet(p)' = NewSet(p)
      BY <2>1, <3>1
    <3>9. /\ \A i \in DOMAIN o : mirror'[o2[i].log][o2[i].len + 1] = Written(o[i])
          /\ mirror'[o2[k].log][o2[k].len + 1] = line
      <4> HIDE DEF line, o, o2, k, new
      <4>1. \A i \in DOMAIN o : mirror'[o2[i].log][o2[i].len + 1] = Written(o[i])
        BY <3>5, <3>6, <3>7 DEF Written
      <4>2. mirror'[o2[k].log][o2[k].len + 1] = line
        BY <3>4, <3>5, <3>7
      <4> QED BY <4>1, <4>2
    <3>10. ImportWrites(p)
      BY <1>0, <3>1 DEF HeldWrites
    <3> HIDE DEF line, t, o, t2, o2, k, new
    <3>11. \A i \in DOMAIN t : t[i] \in NewSet(p)
      BY <3>10 DEF ImportWrites, t
    <3>12. \A i \in DOMAIN o : Written(o[i]) \in NewSet(p)
      BY <3>10 DEF ImportWrites, o
    <3>13. \A x \in NewSet(p) : (\E i \in DOMAIN t : t[i] = x) \/ (\E i \in DOMAIN o : Written(o[i]) = x)
      BY <3>10 DEF ImportWrites, t, o
    <3>14. \A i \in DOMAIN t2 : t2[i] \in NewSet(p)'
      BY <3>3, <3>8, <3>11
    <3>15. \A i \in DOMAIN o2 : mirror'[o2[i].log][o2[i].len + 1] \in NewSet(p)'
      BY <3>2, <3>5, <3>8, <3>9, <3>11, <3>12
    <3>16. ASSUME NEW x \in NewSet(p)
           PROVE  (\E i \in DOMAIN t2 : t2[i] = x) \/ (\E i \in DOMAIN o2 : mirror'[o2[i].log][o2[i].len + 1] = x)
      <4>1. CASE \E i \in DOMAIN o : Written(o[i]) = x
        BY <3>5, <3>9, <4>1
      <4>2. CASE x = line
        BY <3>5, <3>9, <4>2
      <4>3. ASSUME NEW i \in DOMAIN t, t[i] = x, i # 1 PROVE \E j \in DOMAIN t2 : t2[j] = x
        BY <3>2, <4>3
      <4> QED BY <3>2, <3>13, <4>1, <4>2, <4>3
    <3>17. \A x \in NewSet(p)' : (\E i \in DOMAIN t2 : t2[i] = x) \/ (\E i \in DOMAIN o2 : mirror'[o2[i].log][o2[i].len + 1] = x)
      BY <3>8, <3>16
    <3> QED BY <3>14, <3>15, <3>17 DEF ImportWrites, Written, t2, o2
  <2>5. lock' = p
    BY <1>0, <1>1 DEF LockAgrees
  <2>6. ASSUME Call(p) \/ Crash(p) \/ Importer(p) PROVE Insert(p) \/ AppendMirror(p)
    <3>1. ASSUME OpenFile(p) \/ FillFile(p) \/ FillFails(p) \/ ReadExisting(p) \/ ReadFails(p) \/ TakeLock(p)
                 \/ LockTimesOut(p) \/ Reused(p) \/ Conflict(p) \/ Commit(p) \/ TxFails(p) \/ Cleanup(p)
          PROVE  FALSE
      BY <1>0, <1>1, <3>1 DEF OpenFile, FillFile, FillFails, ReadExisting, ReadFails, TakeLock, LockTimesOut, Reused,
         Conflict, Commit, TxFails, Cleanup, Process
    <3>2. ASSUME Crash(p) \/ Return(p) PROVE FALSE
      BY <1>0, <1>1, <3>2 DEF Crash, Return, Idle
    <3>3. ASSUME Call(p) PROVE FALSE
      <4>1. lock' = lock /\ proc[p].pc = "idle"
        BY <3>3 DEF Call
      <4> QED BY <1>0, <2>5, <4>1 DEF LockAgrees
    <3> QED BY <2>6, <3>1, <3>2, <3>3 DEF Importer
  <2>7. CASE ~(Call(p) \/ Crash(p) \/ Importer(p))
    <3>1. proc'[p] = proc[p]
      <4>1. ASSUME NEW q \in Procs, Call(q) \/ Crash(q) \/ Importer(q) PROVE proc'[p] = proc[p]
        <5>1. q # p
          BY <2>7, <4>1
        <5> QED BY <1>0, <4>1, <5>1, ImporterShape
      <4>2. ASSUME Enrich \/ Sorts PROVE proc' = proc
        BY <4>2 DEF Enrich, Sorts, Assign, EnsureIndex
      <4> QED BY <4>1, <4>2, Steps, Frames DEF storeVars
    <3>2. lock = p
      BY <1>0, <1>1, <3>1 DEF LockAgrees
    <3> QED BY <2>2, <2>7, <3>2, OthersQuiet
  <2> QED BY <2>3, <2>4, <2>6, <2>7
<1>2. ASSUME off'.pc = "mirror" PROVE WatchWrites'
  <2>1. CASE UNCHANGED <<mirror, off>>
    BY <1>0, <1>2, <2>1 DEF HeldWrites, WatchWrites, Written
  <2>2. CASE IndexLock
    <3>1. off'.offs = <<>> /\ off'.updates = off.updates /\ off.updates \in Seq(Updates)
      BY <1>0, <2>2 DEF IndexLock, WatchStaged, Watch
    <3>2. Len(off.updates) \in Nat /\ Len(<<>>) = 0 /\ DOMAIN <<>> = {}
      BY <3>1, LenProperties, EmptySeq
    <3> QED BY <3>1, <3>2 DEF WatchWrites
  <2>3. CASE IndexAppend
    <3> DEFINE k == Len(off.offs) + 1
               u == off.updates[k]
               line == Line("artifacts", u.art, u.ref)
               o == off.offs
               o2 == off'.offs
               new == [log |-> "artifacts", len |-> Len(mirror["artifacts"])]
    <3>1. /\ o \in Seq(Offsets) /\ off.updates \in Seq(Updates) /\ Len(o) < Len(off.updates) /\ off.pc = "mirror"
          /\ mirror' = Appended(line) /\ off'.updates = off.updates /\ o2 = Append(o, new)
      BY <1>0, <2>3 DEF Watch, IndexAppend
    <3>2. k \in 1..Len(off.updates) /\ Len(o) \in Nat /\ DOMAIN o = 1..Len(o) /\ Len(off.updates) \in Nat
      BY <3>1, LenProperties
    <3>3. u \in Updates
      <4> HIDE DEF k
      <4> QED BY <3>1, <3>2, ElementOfSeq
    <3>4. line \in Lines /\ line.log = "artifacts"
      <4> HIDE DEF u
      <4> QED BY <3>3 DEF Updates, Line, Lines, Logs
    <3>5. new \in Offsets /\ new.log = "artifacts" /\ new.len = Len(mirror["artifacts"])
      BY HeldType DEF Offsets, Logs
    <3> HIDE DEF new
    <3>6. DOMAIN o2 = DOMAIN o \cup {k} /\ o2[k] = new /\ (\A i \in DOMAIN o : o2[i] = o[i]) /\ Len(o2) = k
      <4>1. DOMAIN o2 = DOMAIN o \cup {k} /\ o2[k] = new /\ (\A i \in DOMAIN o : o2[i] = o[i])
        BY <3>1, <3>5, OneMore
      <4> QED BY <3>1, <3>5, <4>1, AppendProperties
    <3>7. \A i \in DOMAIN o : o[i].log \in Logs /\ o[i].len + 1 \in DOMAIN mirror[o[i].log]
      <4>1. HeldOffs = o
        BY <1>0, <3>1, HeldBy DEF LockAgrees
      <4> QED BY <4>1, HeldType
    <3> HIDE DEF line
    <3>8. /\ mirror'["artifacts"][Len(mirror["artifacts"]) + 1] = line
          /\ \A l \in Logs : \A i \in DOMAIN mirror[l] : mirror'[l][i] = mirror[l][i]
      BY <3>1, <3>4, GrownMirror
    <3>9. WatchWrites
      BY <1>0, <3>1 DEF HeldWrites
    <3>10. \A i \in DOMAIN o : /\ o[i].log = "artifacts"
                               /\ mirror[o[i].log][o[i].len + 1] = Line("artifacts", off.updates[i].art, off.updates[i].ref)
      BY <3>9 DEF WatchWrites, Written
    <3>11. \A i \in DOMAIN o : /\ o2[i].log = "artifacts"
                               /\ mirror'[o2[i].log][o2[i].len + 1] = Line("artifacts", off.updates[i].art, off.updates[i].ref)
      <4> HIDE DEF o2, o
      <4> QED BY <3>6, <3>7, <3>8, <3>10
    <3>12. /\ o2[k].log = "artifacts" /\ mirror'[o2[k].log][o2[k].len + 1] = Line("artifacts", off.updates[k].art, off.updates[k].ref)
      BY <3>5, <3>6, <3>8 DEF line
    <3>13. Len(o2) <= Len(off.updates)
      BY <3>2, <3>6
    <3> HIDE DEF o2, o, k, u
    <3>14. \A i \in DOMAIN o2 : /\ o2[i].log = "artifacts"
                                /\ mirror'[o2[i].log][o2[i].len + 1] = Line("artifacts", off'.updates[i].art, off'.updates[i].ref)
      BY <3>1, <3>6, <3>11, <3>12
    <3> QED BY <3>1, <3>13, <3>14 DEF WatchWrites, Written, o2
  <2>4. CASE ~(IndexLock \/ IndexAppend) /\ off' # off
    <3>1. Pass \/ PassFails \/ WatcherDies
      BY <2>4, Steps, Frames DEF offVars, storeVars
    <3>2. lock' = Watcher
      BY <1>0, <1>2 DEF LockAgrees
    <3>3. CASE lock' = lock
      <4>1. off.pc = "mirror"
        BY <1>0, <3>2, <3>3 DEF LockAgrees
      <4> QED BY <1>0, <2>4, <3>1, <3>2, <4>1 DEF Pass, PassFails, WatcherDies, NoRun, Begin, Upload, SaveCheckpoint,
             IndexCommit, Check, Restart, Unusable, Skip, StartUpload, UploadFails, IndexTimesOut, IndexFails, SkipFails, Taken
    <3>4. CASE lock' # lock
      BY <1>0, <2>4, <3>1, <3>2, <3>4 DEF Pass, PassFails, WatcherDies, NoRun, Begin, Upload, SaveCheckpoint, storeVars,
             IndexCommit, Check, Restart, Unusable, Skip, StartUpload, UploadFails, IndexTimesOut, IndexFails, SkipFails
    <3> QED BY <3>3, <3>4
  <2>5. CASE off' = off /\ ~(IndexLock \/ IndexAppend)
    <3>1. lock = Watcher /\ lock' = Watcher
      BY <1>0, <1>2, <2>5 DEF LockAgrees
    <3>2. ASSUME Pass \/ PassFails \/ WatcherDies PROVE mirror' = mirror
      BY <1>0, <2>5, <3>1, <3>2 DEF Pass, PassFails, WatcherDies, NoRun, Begin, Upload, SaveCheckpoint, storeVars,
             IndexCommit, Check, Restart, Unusable, Skip, StartUpload, UploadFails, IndexTimesOut, IndexFails, SkipFails
    <3> QED BY <2>1, <2>5, <3>1, <3>2, OthersQuiet
  <2> QED BY <2>2, <2>3, <2>4, <2>5
<1> QED BY <1>1, <1>2 DEF HeldWrites
-----------------------------------------------------------------------------
(* The settled lines *)

\* The positions of the held lines in a mirror.
Own(l) == {i \in DOMAIN mirror[l] : <<l, i>> \in Places(HeldOffs)}

\* The held lines come after the settled ones.
LEMMA OwnLines ==
    ASSUME CoreInv, MirrorInv, NEW l \in Logs
    PROVE  /\ \A i \in Own(l) : \A j \in Settled(l) : j < i
           /\ Own(l) # {} => Len(mirror[l]) \in Own(l)
           /\ \A i \in DOMAIN mirror[l] : i <= Len(mirror[l])
           /\ \A i \in Own(l) : \E k \in DOMAIN HeldOffs :
                 HeldOffs[k].log = l /\ i = HeldOffs[k].len + 1 /\ mirror[l][i] = Written(HeldOffs[k])
           /\ \A k \in DOMAIN HeldOffs : HeldOffs[k].log = l => HeldOffs[k].len + 1 \in Own(l)
<1>0. /\ HeldAtEnd /\ Len(mirror[l]) \in Nat /\ DOMAIN mirror[l] = 1..Len(mirror[l])
      /\ \A i \in DOMAIN HeldOffs : HeldOffs[i].log \in Logs /\ HeldOffs[i].len \in Nat /\ HeldOffs[i].len + 1 \in DOMAIN mirror[HeldOffs[i].log]
  BY HeldType DEF MirrorInv
<1>1. ASSUME NEW i \in Own(l) PROVE \E k \in DOMAIN HeldOffs : HeldOffs[k].log = l /\ i = HeldOffs[k].len + 1
  BY DEF Own, Places
<1>2. ASSUME NEW i \in Own(l), NEW j \in Settled(l) PROVE j < i
  <2>1. PICK k \in DOMAIN HeldOffs : HeldOffs[k].log = l /\ i = HeldOffs[k].len + 1
    BY <1>1
  <2>2. j \in DOMAIN mirror[l] /\ <<l, j>> \notin Places(HeldOffs)
    BY DEF Settled
  <2>3. ~(j > HeldOffs[k].len)
    BY <1>0, <2>1, <2>2 DEF HeldAtEnd, AtEnd
  <2> QED BY <1>0, <2>1, <2>2, <2>3
<1>3. ASSUME NEW i \in Own(l) PROVE Len(mirror[l]) \in Own(l)
  <2>1. PICK k \in DOMAIN HeldOffs : HeldOffs[k].log = l /\ i = HeldOffs[k].len + 1
    BY <1>1
  <2>2. Len(mirror[l]) \in DOMAIN mirror[l] /\ Len(mirror[l]) > HeldOffs[k].len
    BY <1>0, <2>1 DEF Own
  <2>3. <<l, Len(mirror[l])>> \in Places(HeldOffs)
    BY <1>0, <2>1, <2>2 DEF HeldAtEnd, AtEnd
  <2> QED BY <2>2, <2>3 DEF Own
<1>4. ASSUME NEW k \in DOMAIN HeldOffs, HeldOffs[k].log = l PROVE HeldOffs[k].len + 1 \in Own(l)
  BY <1>0, <1>4 DEF Own, Places
<1>5. \A i \in DOMAIN mirror[l] : i <= Len(mirror[l])
  BY <1>0
<1>6. \A i \in Own(l) : \E k \in DOMAIN HeldOffs :
                 HeldOffs[k].log = l /\ i = HeldOffs[k].len + 1 /\ mirror[l][i] = Written(HeldOffs[k])
  BY <1>1 DEF Written
<1> QED BY <1>2, <1>3, <1>4, <1>5, <1>6

\* An append, a rollback and a crash do not change what is settled.
LEMMA SettledKept ==
    ASSUME CoreInv, MirrorInv, NEW l \in Logs,
           HeldKept \/ HeldTakenBack \/ HeldLost \/ \E line \in Lines : HeldGrows(line)
    PROVE  Settled(l)' = Settled(l) /\ \A i \in Settled(l) : mirror'[l][i] = mirror[l][i]
<1>0. HeldAtEnd /\ StrayThere
  BY DEF MirrorInv
<1>1. CASE HeldKept
  BY <1>1 DEF HeldKept, Settled, Places
<1>2. ASSUME HeldOffs' = <<>> PROVE Places(HeldOffs)' = {}
  BY <1>2, EmptySeq DEF Places
<1>3. CASE HeldLost
  <2>1. Places(HeldOffs)' = {} /\ stray' = stray \cup Places(HeldOffs) /\ mirror' = mirror
    BY <1>2, <1>3 DEF HeldLost
  <2> QED BY <2>1 DEF Settled
<1>4. CASE HeldTakenBack
  <2>1. Places(HeldOffs)' = {}
    BY <1>2, <1>4 DEF HeldTakenBack
  <2>2. Settled(l)' = {i \in DOMAIN mirror'[l] : <<l, i>> \notin stray'}
    BY <2>1 DEF Settled
  <2>3. ASSUME NEW i PROVE i \in Settled(l)' <=> i \in Settled(l)
    BY <1>0, <1>4, <2>2, TakenBack DEF Settled
  <2>4. \A i \in Settled(l)' : mirror'[l][i] = mirror[l][i]
    BY <1>0, <1>4, <2>2, TakenBack
  <2>5. Settled(l)' = Settled(l)
    <3> HIDE DEF Settled
    <3>1. Settled(l)' \subseteq Settled(l) /\ Settled(l) \subseteq Settled(l)'
      BY <2>3
    <3> QED BY <3>1
  <2> QED BY <2>4, <2>5
<1>5. ASSUME NEW line \in Lines, HeldGrows(line)
      PROVE  Settled(l)' = Settled(l) /\ \A i \in Settled(l) : mirror'[l][i] = mirror[l][i]
  <2>1. mirror' = Appended(line) /\ stray' = stray
    BY <1>5 DEF HeldGrows
  <2>2. Places(HeldOffs)' = Places(HeldOffs) \cup {<<line.log, Len(mirror[line.log]) + 1>>}
    BY <1>5, GrownPlaces
  <2>3. CASE l # line.log
    <3>1. mirror'[l] = mirror[l]
      BY <2>1, <2>3, GrownMirror
    <3>2. \A i : <<l, i>> \in Places(HeldOffs)' <=> <<l, i>> \in Places(HeldOffs)
      BY <2>2, <2>3
    <3> QED BY <2>1, <3>1, <3>2 DEF Settled
  <2>4. CASE l = line.log
    <3> DEFINE n == Len(mirror[l]) + 1
    <3>1. /\ DOMAIN mirror'[l] = DOMAIN mirror[l] \cup {n}
          /\ \A i \in DOMAIN mirror[l] : mirror'[l][i] = mirror[l][i] /\ i < n
      BY <2>1, <2>4, GrownMirror
    <3>2. n \notin DOMAIN mirror[l]
      <4>1. n \in Nat
        BY HeldType
      <4> HIDE DEF n
      <4> QED BY <3>1, <4>1
    <3> HIDE DEF n
    <3>3. \A i : <<l, i>> \in Places(HeldOffs)' <=> <<l, i>> \in Places(HeldOffs) \/ i = n
      BY <2>2, <2>4 DEF n
    <3> QED BY <2>1, <3>1, <3>2, <3>3 DEF Settled
  <2> QED BY <2>3, <2>4
<1> QED BY <1>1, <1>3, <1>4, <1>5

\* A commit settles the held lines.
LEMMA CommitSettles ==
    ASSUME CoreInv, MirrorInv, NEW l \in Logs, HeldOffs' = <<>>, UNCHANGED <<mirror, stray>>
    PROVE  Settled(l)' = Settled(l) \cup Own(l)
<1>1. Places(HeldOffs)' = {}
  BY EmptySeq DEF Places
<1>2. Places(HeldOffs) \cap stray = {}
  BY DEF MirrorInv, HeldAtEnd, AtEnd
<1> QED BY <1>1, <1>2 DEF Settled, Own

\* The lines of the new rows, by mirror.
LEMMA NewSetIs ==
    ASSUME CoreInv, NEW p \in Procs, proc[p].req \in Requests
    PROVE  /\ \A x \in NewSet(p) :
                /\ x.log = "metric_files" => x.id = proc[p].req.hash /\ proc[p].req.hash \notin db.metric
                /\ x.log = "idempotency_keys" => x.id = proc[p].req.key
                /\ x.log = "artifacts" => /\ x = Line("artifacts", proc[p].req.art, None)
                                          /\ proc[p].req.art \notin db.art \cup {None} /\ x.id = proc[p].req.art
                /\ x.log = "runs" => x.id = Run(p) /\ db.run = None
           /\ proc[p].req.hash \notin db.metric =>
                \E x \in NewSet(p) : x.log = "metric_files"
           /\ \E x \in NewSet(p) : x.log = "idempotency_keys"
           /\ proc[p].req.art \notin db.art \cup {None} => \E x \in NewSet(p) : x.log = "artifacts"
           /\ db.run = None => \E x \in NewSet(p) : x.log = "runs"
<1> DEFINE r == proc[p].req
           x1 == Line("runs", Run(p), None)
           x2 == Line("artifacts", r.art, None)
           x3 == Line("metric_files", r.hash, None)
           x4 == Line("idempotency_keys", r.key, None)
<1>1. /\ x1.log = "runs" /\ x1.id = Run(p)
      /\ x2.log = "artifacts" /\ x2.id = r.art
      /\ x3.log = "metric_files" /\ x3.id = r.hash
      /\ x4.log = "idempotency_keys" /\ x4.id = r.key
  BY DEF Line
<1>2. NewSet(p) = (IF db.run = None THEN {x1} ELSE {}) \cup (IF r.art \in {None} \cup db.art THEN {} ELSE {x2})
                  \cup (IF r.hash \in db.metric THEN {} ELSE {x3}) \cup {x4}
  BY DEF NewSet
<1>3. x2 = Line("artifacts", r.art, None)
  OBVIOUS
<1> HIDE DEF r, x1, x2, x3, x4
<1>4. /\ \A x \in NewSet(p) : (x = x1 /\ db.run = None) \/ (x = x2 /\ r.art \notin db.art \cup {None})
                              \/ (x = x3 /\ r.hash \notin db.metric) \/ x = x4
      /\ x4 \in NewSet(p)
      /\ db.run = None => x1 \in NewSet(p)
      /\ r.art \notin db.art \cup {None} => x2 \in NewSet(p)
      /\ r.hash \notin db.metric => x3 \in NewSet(p)
  <2> DEFINE e1 == IF db.run = None THEN {x1} ELSE {}
             e2 == IF r.art \in {None} \cup db.art THEN {} ELSE {x2}
             e3 == IF r.hash \in db.metric THEN {} ELSE {x3}
  <2>1. /\ \A x \in e1 : x = x1 /\ db.run = None
        /\ \A x \in e2 : x = x2 /\ r.art \notin db.art \cup {None}
        /\ \A x \in e3 : x = x3 /\ r.hash \notin db.metric
        /\ db.run = None => x1 \in e1
        /\ r.art \notin db.art \cup {None} => x2 \in e2
        /\ r.hash \notin db.metric => x3 \in e3
    OBVIOUS
  <2>2. NewSet(p) = e1 \cup e2 \cup e3 \cup {x4}
    BY <1>2
  <2> HIDE DEF e1, e2, e3
  <2>3. \A x : x \in NewSet(p) <=> x \in e1 \/ x \in e2 \/ x \in e3 \/ x = x4
    BY <2>2
  <2>4. \A x \in NewSet(p) : (x = x1 /\ db.run = None) \/ (x = x2 /\ r.art \notin db.art \cup {None})
                              \/ (x = x3 /\ r.hash \notin db.metric) \/ x = x4
    <3> TAKE x \in NewSet(p)
    <3>1. x \in e1 \/ x \in e2 \/ x \in e3 \/ x = x4
      BY <2>3
    <3>2. CASE x \in e1
      BY <2>1, <3>2, Zenon
    <3>3. CASE x \in e2
      BY <2>1, <3>3, Zenon
    <3>4. CASE x \in e3
      BY <2>1, <3>4, Zenon
    <3> QED BY <3>1, <3>2, <3>3, <3>4, Zenon
  <2>5. /\ x4 \in NewSet(p)
        /\ db.run = None => x1 \in NewSet(p)
        /\ r.art \notin db.art \cup {None} => x2 \in NewSet(p)
        /\ r.hash \notin db.metric => x3 \in NewSet(p)
    BY <2>1, <2>3, Zenon
  <2> QED BY <2>4, <2>5, Zenon
<1> QED BY <1>1, <1>3, <1>4 DEF r

\* What the import has written is what it commits.
LEMMA CommitAgrees ==
    ASSUME CoreInv, MirrorInv, [Next]_vars, NEW p \in Procs, Commit(p), HeldOffs = proc[p].offs, HeldOffs' = <<>>
    PROVE  SettledAgree'
<1> DEFINE r == proc[p].req
<1>0. /\ db \in Database /\ db' \in Database /\ SettledAgree /\ LinesFiled /\ HeldOffs = proc[p].offs
      /\ r \in Requests /\ db' = Recorded(p) /\ UNCHANGED <<mirror, stray>> /\ ImportWrites(p)
      /\ proc[p].todo = <<>> /\ Run(p) \in RunStates
  <2>1. proc[p].pc = "mirror" /\ proc[p].req # None /\ proc[p] \in Process
    BY DEF Commit, CoreInv, StoreTypes, Staged
  <2>2. db' \in Database
    BY DbShape
  <2>3. Run(p) \in RunStates
    BY <2>1 DEF Run, Process, RunStates
  <2> QED BY <2>1, <2>2, <2>3 DEF Commit, CoreInv, StoreTypes, MirrorInv, HeldWrites, Process
<1>1. "runs" \in Logs /\ "artifacts" \in Logs /\ "metric_files" \in Logs /\ "idempotency_keys" \in Logs
  BY DEF Logs
<1>2. \A l \in Logs : Settled(l)' = Settled(l) \cup Own(l)
  BY <1>0, CommitSettles
<1>3. \A l \in Logs : \A i \in Own(l) : mirror[l][i] \in NewSet(p) /\ mirror[l][i].log = l
  <2> SUFFICES ASSUME NEW l \in Logs, NEW i \in Own(l) PROVE mirror[l][i] \in NewSet(p) /\ mirror[l][i].log = l
    OBVIOUS
  <2>1. PICK k \in DOMAIN HeldOffs : mirror[l][i] = Written(HeldOffs[k])
    BY OwnLines
  <2>2. Written(HeldOffs[k]) \in NewSet(p)
    BY <1>0 DEF ImportWrites
  <2>3. i \in DOMAIN mirror[l]
    BY DEF Own
  <2> QED BY <1>0, <2>1, <2>2, <2>3 DEF LinesFiled
<1>4. ASSUME NEW x \in NewSet(p), x.log \in Logs PROVE \E i \in Own(x.log) : mirror[x.log][i] = x
  <2>1. PICK k \in DOMAIN HeldOffs : Written(HeldOffs[k]) = x
    BY <1>0, EmptySeq DEF ImportWrites
  <2>2. HeldOffs[k].log \in Logs /\ HeldOffs[k].len + 1 \in DOMAIN mirror[HeldOffs[k].log]
    BY HeldType
  <2>3. x.log = HeldOffs[k].log
    BY <1>0, <2>1, <2>2 DEF LinesFiled, Written
  <2>4. HeldOffs[k].len + 1 \in Own(x.log)
    BY <2>2, <2>3, OwnLines
  <2>5. mirror[x.log][HeldOffs[k].len + 1] = x
    BY <2>1, <2>3 DEF Written
  <2> QED BY <2>4, <2>5
<1>5. /\ db'.key = [db.key EXCEPT ![r.key] = r.hash] /\ db'.metric = db.metric \cup {r.hash}
      /\ db'.art = db.art \cup ({r.art} \ {None}) /\ db'.run = (IF db.run = None THEN Run(p) ELSE db.run)
      /\ \A a \in Artifacts : db'.row[a] = IF a = r.art /\ a \notin db.art THEN [digest |-> Bytes[a], ref |-> None] ELSE db.row[a]
  BY <1>0 DEF Recorded, Database
<1>6. r.key \in Keys /\ r.hash \in Hashes /\ r.hash # None /\ r.art \in Artifacts \cup {None}
  BY <1>0, StoreAssumption
<1> HIDE DEF r
<1>7. ASSUME NEW h \in Hashes
      PROVE  h \in db'.metric <=> \E i \in Settled("metric_files")' : mirror'["metric_files"][i].id = h
  <2>0. h \in db.metric <=> \E i \in Settled("metric_files") : mirror["metric_files"][i].id = h
    BY <1>0 DEF SettledAgree
  <2>1. \A i \in Own("metric_files") : mirror["metric_files"][i].id = r.hash /\ r.hash \notin db.metric
    BY <1>0, <1>1, <1>3, NewSetIs DEF r
  <2>2. r.hash \notin db.metric => \E i \in Own("metric_files") : mirror["metric_files"][i].id = r.hash
    <3>1. ASSUME r.hash \notin db.metric PROVE \E i \in Own("metric_files") : TRUE
      <4>1. PICK x \in NewSet(p) : x.log = "metric_files"
        BY <1>0, <3>1, NewSetIs DEF r
      <4> QED BY <1>1, <1>4, <4>1
    <3> QED BY <2>1, <3>1
  <2> QED BY <1>0, <1>1, <1>2, <1>5, <2>0, <2>1, <2>2
<1>8. ASSUME NEW k \in Keys
      PROVE  db'.key[k] # None <=> \E i \in Settled("idempotency_keys")' : mirror'["idempotency_keys"][i].id = k
  <2>0. db.key[k] # None <=> \E i \in Settled("idempotency_keys") : mirror["idempotency_keys"][i].id = k
    BY <1>0 DEF SettledAgree
  <2>1. \A i \in Own("idempotency_keys") : mirror["idempotency_keys"][i].id = r.key
    BY <1>0, <1>1, <1>3, NewSetIs DEF r
  <2>2. \E i \in Own("idempotency_keys") : TRUE
    <3>1. PICK x \in NewSet(p) : x.log = "idempotency_keys"
      BY <1>0, NewSetIs DEF r
    <3> QED BY <1>1, <1>4, <3>1
  <2>3. db'.key[k] = IF k = r.key THEN r.hash ELSE db.key[k]
    BY <1>0, <1>5, <1>6 DEF Database
  <2>4. CASE k = r.key
    BY <1>0, <1>1, <1>2, <1>6, <2>1, <2>2, <2>3, <2>4
  <2>5. CASE k # r.key
    BY <1>0, <1>1, <1>2, <2>0, <2>1, <2>3, <2>5
  <2> QED BY <2>4, <2>5
<1>9. \A i \in Own("artifacts") : /\ mirror["artifacts"][i] = Line("artifacts", r.art, None) /\ r.art \notin db.art \cup {None}
                                  /\ mirror["artifacts"][i].id = r.art
  BY <1>0, <1>1, <1>3, NewSetIs DEF r
<1>10. ASSUME NEW a \in Artifacts, a \notin db'.art PROVE \A i \in Settled("artifacts")' : mirror'["artifacts"][i].id # a
  <2>1. a \notin db.art /\ a # r.art
    BY <1>5, <1>10, StoreAssumption
  <2>2. \A i \in Settled("artifacts") : mirror["artifacts"][i].id # a
    BY <1>0, <2>1 DEF SettledAgree
  <2> QED BY <1>0, <1>1, <1>2, <1>9, <2>1, <2>2
<1>11. ASSUME NEW a \in db'.art
       PROVE  \E i \in Settled("artifacts")' :
                /\ mirror'["artifacts"][i] = Line("artifacts", a, db'.row[a].ref)
                /\ \A j \in Settled("artifacts")' : mirror'["artifacts"][j].id = a => j <= i
  <2>0. a \in Artifacts
    BY <1>0 DEF Database
  <2>1. CASE a \in db.art
    <3>1. PICK i \in Settled("artifacts") : /\ mirror["artifacts"][i] = Line("artifacts", a, db.row[a].ref)
                                            /\ \A j \in Settled("artifacts") : mirror["artifacts"][j].id = a => j <= i
      BY <1>0, <2>1 DEF SettledAgree
    <3>2. db'.row[a] = db.row[a]
      BY <1>5, <2>0, <2>1
    <3>3. i \in Settled("artifacts")' /\ \A j \in Settled("artifacts")' : mirror'["artifacts"][j].id = a => j <= i
      BY <1>0, <1>1, <1>2, <1>9, <2>1, <3>1
    <3> QED BY <1>0, <3>1, <3>2, <3>3
  <2>2. CASE a \notin db.art
    <3>1. a = r.art /\ r.art \notin db.art \cup {None}
      BY <1>5, <2>2
    <3>2. db'.row[a].ref = None
      <4>1. db'.row[a] = [digest |-> Bytes[a], ref |-> None]
        BY <1>5, <2>0, <2>2, <3>1
      <4> QED BY <4>1
    <3>3. Own("artifacts") # {}
      <4>1. PICK x \in NewSet(p) : x.log = "artifacts"
        BY <1>0, <3>1, NewSetIs DEF r
      <4> QED BY <1>1, <1>4, <4>1
    <3> DEFINE n == Len(mirror["artifacts"])
    <3>4. n \in Own("artifacts") /\ \A j \in DOMAIN mirror["artifacts"] : j <= n
      BY <1>1, <3>3, OwnLines
    <3> HIDE DEF n
    <3>5. n \in Settled("artifacts")' /\ mirror'["artifacts"][n] = Line("artifacts", a, db'.row[a].ref)
      BY <1>0, <1>1, <1>2, <1>9, <3>1, <3>2, <3>4
    <3>6. \A j \in Settled("artifacts")' : j <= n
      BY <1>0, <3>4 DEF Settled
    <3> QED BY <3>5, <3>6
  <2> QED BY <2>1, <2>2
<1>12. \A i \in Own("runs") : mirror["runs"][i].id = Run(p) /\ db.run = None
  BY <1>0, <1>1, <1>3, NewSetIs DEF r
<1>13. db'.run # None
  BY <1>0, <1>5, StoreAssumption DEF RunStates
<1>14. \E i \in Settled("runs")' : mirror'["runs"][i].id = db'.run /\ \A j \in Settled("runs")' : j <= i
  <2>1. CASE db.run # None
    <3>1. Own("runs") = {}
      BY <1>12, <2>1
    <3>2. \E i \in Settled("runs") : mirror["runs"][i].id = db.run /\ \A j \in Settled("runs") : j <= i
      BY <1>0, <2>1 DEF SettledAgree
    <3> QED BY <1>0, <1>1, <1>2, <1>5, <2>1, <3>1, <3>2
  <2>2. CASE db.run = None
    <3>1. Own("runs") # {}
      <4>1. PICK x \in NewSet(p) : x.log = "runs"
        BY <1>0, <2>2, NewSetIs DEF r
      <4> QED BY <1>1, <1>4, <4>1
    <3> DEFINE n == Len(mirror["runs"])
    <3>2. n \in Own("runs") /\ \A j \in DOMAIN mirror["runs"] : j <= n
      BY <1>1, <3>1, OwnLines
    <3> HIDE DEF n
    <3>3. n \in Settled("runs")' /\ mirror'["runs"][n].id = db'.run
      BY <1>0, <1>1, <1>2, <1>5, <1>12, <2>2, <3>2
    <3>4. \A j \in Settled("runs")' : j <= n
      BY <1>0, <3>2 DEF Settled
    <3> QED BY <3>3, <3>4
  <2> QED BY <2>1, <2>2
<1> QED BY <1>7, <1>8, <1>10, <1>11, <1>13, <1>14 DEF SettledAgree
\* What the watcher has written is what it commits.
LEMMA IndexAgrees ==
    ASSUME CoreInv, IndexInv, MirrorInv, [Next]_vars, IndexCommit, HeldOffs = off.offs, HeldOffs' = <<>>
    PROVE  SettledAgree'
<1> DEFINE u == off.updates
<1>0. /\ db \in Database /\ SettledAgree /\ UNCHANGED <<mirror, stray>> /\ WatchWrites /\ off \in Watch /\ InPass
      /\ Len(HeldOffs) = Len(u) /\ DOMAIN HeldOffs = 1..Len(HeldOffs) /\ DOMAIN u = 1..Len(u) /\ HeldOffs = off.offs
  <2>1. off.pc = "mirror" /\ off \in Watch /\ off.updates \in Seq(Updates)
    BY DEF IndexCommit, CoreInv, WatcherTypes, Watch
  <2> QED BY <2>1, HeldType, LenProperties DEF IndexCommit, CoreInv, StoreTypes, MirrorInv, HeldWrites, InPass
<1>1. "runs" \in Logs /\ "artifacts" \in Logs /\ "metric_files" \in Logs /\ "idempotency_keys" \in Logs
  BY DEF Logs
<1>2. \A l \in Logs : Settled(l)' = Settled(l) \cup Own(l)
  BY <1>0, CommitSettles
<1>3. ASSUME NEW l \in Logs, l # "artifacts" PROVE Own(l) = {}
  BY <1>0, <1>3, OwnLines DEF WatchWrites
<1>4. UNCHANGED <<db.key, db.run, db.metric, db.art>>
  <2>1. ASSUME NEW p \in Procs, Commit(p) PROVE FALSE
    <3>1. lock = p /\ lock = Watcher
      BY <2>1 DEF Commit, IndexCommit, CoreInv, LockAgrees
    <3> QED BY <3>1, WatcherAssumption
  <2>2. ASSUME Enrich \/ \E a \in Artifacts : Track(a) PROVE FALSE
    <3>1. lock = None /\ lock = Watcher
      BY <2>2 DEF Enrich, Track, IndexCommit, CoreInv, LockAgrees
    <3> QED BY <3>1, WatcherAssumption
  <2> QED BY <2>1, <2>2, DbShape, StoreAssumption
<1>5. /\ \A i \in DOMAIN u : u[i].art \in db.art
      /\ \A i, j \in DOMAIN u : u[i].art = u[j].art => i = j
  BY <1>0 DEF IndexInv, UpdatesSound, UpdateSound, PassView
<1>6. ASSUME NEW a \in Artifacts
      PROVE  /\ (\A i \in DOMAIN u : u[i].art # a) => db'.row[a] = db.row[a]
             /\ \A i \in DOMAIN u : u[i].art = a => db'.row[a].ref = u[i].ref
  <2> DEFINE mine == {i \in DOMAIN u : u[i].art = a}
             k == CHOOSE i \in mine : TRUE
  <2>1. db'.row[a] = IF mine = {} THEN db.row[a] ELSE [digest |-> u[k].digest, ref |-> u[k].ref]
    BY <1>0 DEF IndexCommit, Database
  <2>2. CASE mine = {}
    BY <2>1, <2>2
  <2>3. CASE mine # {}
    <3>1. k \in mine
      BY <2>3
    <3>2. db'.row[a] = [digest |-> u[k].digest, ref |-> u[k].ref]
      BY <2>1, <2>3
    <3> HIDE DEF k
    <3>3. db'.row[a].ref = u[k].ref
      BY <3>2
    <3> QED BY <1>5, <3>1, <3>3
  <2> QED BY <2>2, <2>3
<1>7. \A i \in Own("artifacts") : \E k \in DOMAIN u :
         /\ i = HeldOffs[k].len + 1
         /\ mirror["artifacts"][i] = Line("artifacts", u[k].art, u[k].ref) /\ mirror["artifacts"][i].id = u[k].art
  <2>1. \A k \in DOMAIN u : Line("artifacts", u[k].art, u[k].ref).id = u[k].art
    BY DEF Line
  <2>2. ASSUME NEW i \in Own("artifacts")
        PROVE  \E k \in DOMAIN u : i = HeldOffs[k].len + 1 /\ mirror["artifacts"][i] = Line("artifacts", u[k].art, u[k].ref)
    <3>1. PICK k \in DOMAIN HeldOffs : i = HeldOffs[k].len + 1 /\ mirror["artifacts"][i] = Written(HeldOffs[k])
      BY <1>1, OwnLines
    <3>2. k \in DOMAIN u /\ Written(HeldOffs[k]) = Line("artifacts", u[k].art, u[k].ref)
      BY <1>0 DEF WatchWrites
    <3> QED BY <3>1, <3>2
  <2> QED BY <2>1, <2>2
<1>8. \A k \in DOMAIN u : /\ HeldOffs[k].len + 1 \in Own("artifacts")
                          /\ mirror["artifacts"][HeldOffs[k].len + 1] = Line("artifacts", u[k].art, u[k].ref)
  <2> SUFFICES ASSUME NEW k \in DOMAIN u
               PROVE  /\ HeldOffs[k].len + 1 \in Own("artifacts")
                      /\ mirror["artifacts"][HeldOffs[k].len + 1] = Line("artifacts", u[k].art, u[k].ref)
    OBVIOUS
  <2>1. k \in DOMAIN HeldOffs /\ HeldOffs[k].log = "artifacts" /\ Written(HeldOffs[k]) = Line("artifacts", u[k].art, u[k].ref)
    BY <1>0 DEF WatchWrites
  <2> QED BY <1>1, <2>1, OwnLines DEF Written
<1> HIDE DEF u
<1>9. ASSUME NEW a \in Artifacts, a \notin db'.art PROVE \A i \in Settled("artifacts")' : mirror'["artifacts"][i].id # a
  <2>1. a \notin db.art
    BY <1>4, <1>9
  <2>2. \A i \in Settled("artifacts") : mirror["artifacts"][i].id # a
    BY <1>0, <2>1 DEF SettledAgree
  <2>3. \A i \in Own("artifacts") : mirror["artifacts"][i].id # a
    BY <1>5, <1>7, <2>1
  <2> QED BY <1>0, <1>1, <1>2, <2>2, <2>3
<1>10. ASSUME NEW a \in db'.art
       PROVE  \E i \in Settled("artifacts")' :
                /\ mirror'["artifacts"][i] = Line("artifacts", a, db'.row[a].ref)
                /\ \A j \in Settled("artifacts")' : mirror'["artifacts"][j].id = a => j <= i
  <2>0. a \in Artifacts /\ a \in db.art
    BY <1>0, <1>4 DEF Database
  <2>1. CASE \E k \in DOMAIN u : u[k].art = a
    <3>1. PICK k \in DOMAIN u : u[k].art = a
      BY <2>1
    <3> DEFINE i == HeldOffs[k].len + 1
    <3>2. i \in Own("artifacts") /\ mirror["artifacts"][i] = Line("artifacts", a, db'.row[a].ref)
      BY <1>6, <1>8, <2>0, <3>1
    <3>3. \A j \in Own("artifacts") : mirror["artifacts"][j].id = a => j = i
      BY <1>5, <1>7, <3>1
    <3>4. \A j \in Settled("artifacts") : j < i
      BY <1>1, <3>2, OwnLines
    <3>5. i \in Nat /\ \A j \in Settled("artifacts") : j \in Nat
      BY <1>1, <3>2, HeldType DEF Own, Settled
    <3> HIDE DEF i
    <3>6. \A j \in Settled("artifacts")' : mirror'["artifacts"][j].id = a => j <= i
      BY <1>0, <1>1, <1>2, <3>3, <3>4, <3>5
    <3>7. i \in Settled("artifacts")'
      BY <1>1, <1>2, <3>2
    <3> QED BY <1>0, <3>2, <3>6, <3>7
  <2>2. CASE ~ \E k \in DOMAIN u : u[k].art = a
    <3>1. PICK i \in Settled("artifacts") : /\ mirror["artifacts"][i] = Line("artifacts", a, db.row[a].ref)
                                            /\ \A j \in Settled("artifacts") : mirror["artifacts"][j].id = a => j <= i
      BY <1>0, <2>0 DEF SettledAgree
    <3>2. db'.row[a] = db.row[a]
      BY <1>6, <2>0, <2>2
    <3>3. \A j \in Own("artifacts") : mirror["artifacts"][j].id # a
      BY <1>7, <2>2
    <3>4. i \in Settled("artifacts")' /\ \A j \in Settled("artifacts")' : mirror'["artifacts"][j].id = a => j <= i
      BY <1>0, <1>1, <1>2, <3>1, <3>3
    <3> QED BY <1>0, <3>1, <3>2, <3>4
  <2> QED BY <2>1, <2>2
<1>11. \A l \in {"runs", "metric_files", "idempotency_keys"} : Settled(l)' = Settled(l)
  BY <1>1, <1>2, <1>3
<1>12. Settled("runs")' = Settled("runs") /\ Settled("metric_files")' = Settled("metric_files")
       /\ Settled("idempotency_keys")' = Settled("idempotency_keys")
  BY <1>11
<1> QED BY <1>0, <1>4, <1>9, <1>10, <1>12 DEF SettledAgree

\* One settled line more.
LEMMA SettledOneMore ==
    ASSUME CoreInv, MirrorInv, NEW l \in Logs, HeldOffs = <<>>, HeldOffs' = <<>>, stray' = stray
    PROVE  /\ mirror'[l] = mirror[l] => Settled(l)' = Settled(l)
           /\ \A line \in Lines : mirror'[l] = Append(mirror[l], line) =>
                /\ Settled(l)' = Settled(l) \cup {Len(mirror[l]) + 1}
                /\ mirror'[l][Len(mirror[l]) + 1] = line
                /\ \A i \in Settled(l) : mirror'[l][i] = mirror[l][i] /\ i < Len(mirror[l]) + 1
                /\ Len(mirror[l]) \in Nat /\ Settled(l) \subseteq Nat
<1>1. Places(HeldOffs) = {} /\ Places(HeldOffs)' = {}
  BY EmptySeq DEF Places
<1>2. ASSUME mirror'[l] = mirror[l] PROVE Settled(l)' = Settled(l)
  BY <1>1, <1>2 DEF Settled
<1>3. ASSUME NEW line \in Lines, mirror'[l] = Append(mirror[l], line)
      PROVE  /\ Settled(l)' = Settled(l) \cup {Len(mirror[l]) + 1}
             /\ mirror'[l][Len(mirror[l]) + 1] = line
             /\ \A i \in Settled(l) : mirror'[l][i] = mirror[l][i] /\ i < Len(mirror[l]) + 1
             /\ Len(mirror[l]) \in Nat /\ Settled(l) \subseteq Nat
  <2> DEFINE n == Len(mirror[l]) + 1
  <2>1. mirror[l] \in Seq(Lines) /\ Len(mirror[l]) \in Nat /\ DOMAIN mirror[l] = 1..Len(mirror[l])
    BY HeldType
  <2>2. /\ DOMAIN mirror'[l] = DOMAIN mirror[l] \cup {n} /\ mirror'[l][n] = line
        /\ \A i \in DOMAIN mirror[l] : mirror'[l][i] = mirror[l][i] /\ i < n
    BY <1>3, <2>1, OneMore
  <2>3. <<l, n>> \notin stray
    <3>1. ASSUME <<l, n>> \in stray PROVE FALSE
      <4>1. n \in DOMAIN mirror[l]
        <5>1. <<l, n>>[2] \in DOMAIN mirror[<<l, n>>[1]]
          BY <3>1 DEF MirrorInv, StrayThere
        <5> QED BY <5>1
      <4> QED BY <2>1, <4>1
    <3> QED BY <3>1
  <2>4. Settled(l) = {i \in DOMAIN mirror[l] : <<l, i>> \notin stray}
    BY <1>1 DEF Settled
  <2>5. Settled(l)' = {i \in DOMAIN mirror'[l] : <<l, i>> \notin stray}
    BY <1>1 DEF Settled
  <2> HIDE DEF n
  <2>6. Settled(l)' = Settled(l) \cup {n}
    BY <2>2, <2>3, <2>4, <2>5
  <2>7. Settled(l) \subseteq Nat
    BY <2>1, <2>4
  <2> QED BY <2>1, <2>2, <2>4, <2>6, <2>7 DEF n
<1> QED BY <1>2, <1>3

\* An enrichment appends the new state of the run.
LEMMA EnrichAgrees ==
    ASSUME CoreInv, MirrorInv, [Next]_vars, Enrich, HeldOffs = <<>>, HeldOffs' = <<>>
    PROVE  SettledAgree'
<1>0. db \in Database /\ SettledAgree /\ stray' = stray /\ mirror \in [Logs -> Seq(Lines)]
  BY DEF CoreInv, StoreTypes, MirrorInv, Enrich
<1>1. PICK x \in RunStates : db' = [db EXCEPT !.run = x] /\ mirror' = Appended(Line("runs", x, None))
  BY DEF Enrich
<1>2. db'.run = x /\ db'.key = db.key /\ db'.metric = db.metric /\ db'.art = db.art /\ db'.row = db.row /\ x # None
  BY <1>0, <1>1, StoreAssumption DEF Database, RunStates
<1>3. Line("runs", x, None) \in Lines /\ Line("runs", x, None).log = "runs" /\ Line("runs", x, None).id = x
  BY DEF Line, Lines, Logs
<1>4. /\ mirror'["runs"] = Append(mirror["runs"], Line("runs", x, None))
      /\ mirror'["artifacts"] = mirror["artifacts"] /\ mirror'["metric_files"] = mirror["metric_files"]
      /\ mirror'["idempotency_keys"] = mirror["idempotency_keys"]
  BY <1>0, <1>1, <1>3 DEF Appended, Logs
<1>5. /\ Settled("artifacts")' = Settled("artifacts") /\ Settled("metric_files")' = Settled("metric_files")
      /\ Settled("idempotency_keys")' = Settled("idempotency_keys")
  BY <1>0, <1>4, SettledOneMore DEF Logs
<1> DEFINE n == Len(mirror["runs"]) + 1
<1>6. /\ Settled("runs")' = Settled("runs") \cup {n} /\ mirror'["runs"][n] = Line("runs", x, None) /\ n \in Nat
      /\ \A i \in Settled("runs") : i < n /\ i \in Nat
  BY <1>0, <1>3, <1>4, SettledOneMore DEF Logs
<1> HIDE DEF n
<1>7. \E i \in Settled("runs")' : mirror'["runs"][i].id = db'.run /\ \A j \in Settled("runs")' : j <= i
  BY <1>2, <1>3, <1>6
<1>8. \A h \in Hashes : h \in db'.metric <=> \E i \in Settled("metric_files")' : mirror'["metric_files"][i].id = h
  BY <1>0, <1>2, <1>4, <1>5 DEF SettledAgree
<1>9. \A k \in Keys : db'.key[k] # None <=> \E i \in Settled("idempotency_keys")' : mirror'["idempotency_keys"][i].id = k
  BY <1>0, <1>2, <1>4, <1>5 DEF SettledAgree
<1>10. \A a \in Artifacts : a \notin db'.art => \A i \in Settled("artifacts")' : mirror'["artifacts"][i].id # a
  BY <1>0, <1>2, <1>4, <1>5 DEF SettledAgree
<1>11. \A a \in db'.art : \E i \in Settled("artifacts")' :
          /\ mirror'["artifacts"][i] = Line("artifacts", a, db'.row[a].ref)
          /\ \A j \in Settled("artifacts")' : mirror'["artifacts"][j].id = a => j <= i
  BY <1>0, <1>2, <1>4, <1>5 DEF SettledAgree
<1>12. db'.run # None
  BY <1>2
<1> QED BY <1>7, <1>8, <1>9, <1>10, <1>11, <1>12 DEF SettledAgree

\* `track` appends the new rows.
LEMMA TrackAgrees ==
    ASSUME CoreInv, MirrorInv, RowsSound, [Next]_vars, NEW a \in Artifacts, Track(a), HeldOffs = <<>>, HeldOffs' = <<>>
    PROVE  SettledAgree'
<1>0. db \in Database /\ SettledAgree /\ stray' = stray /\ a \notin db.art
  BY DEF CoreInv, StoreTypes, MirrorInv, Track
<1>1. PICK d \in {None, disk[a]} : db' = [db EXCEPT !.art = @ \cup {a}, !.row[a].digest = d,
                                                    !.run = IF @ = None THEN "succeeded" ELSE @,
                                                    !.exp = Sorted(None)]
  BY DEF Track
<1>2. /\ db'.run = (IF db.run = None THEN "succeeded" ELSE db.run) /\ db'.key = db.key /\ db'.metric = db.metric
      /\ db'.art = db.art \cup {a}
      /\ \A b \in Artifacts : b # a => db'.row[b] = db.row[b]
      /\ db'.row[a] = [db.row[a] EXCEPT !.digest = d]
  BY <1>0, <1>1 DEF Database
<1>3. db'.row[a].ref = None
  <2>1. db.row[a] \in Rows /\ db.row[a].ref = None
    BY <1>0 DEF RowsSound, NoRow, Database
  <2> QED BY <1>2, <2>1 DEF Rows
<1>4. /\ Line("runs", "succeeded", None) \in Lines /\ Line("runs", "succeeded", None).id = "succeeded"
      /\ Line("artifacts", a, None) \in Lines /\ Line("artifacts", a, None).id = a
  BY DEF Line, Lines, Logs, RunStates
<1>5. /\ mirror'["artifacts"] = Append(mirror["artifacts"], Line("artifacts", a, None))
      /\ db.run = None => mirror'["runs"] = Append(mirror["runs"], Line("runs", "succeeded", None))
      /\ db.run # None => mirror'["runs"] = mirror["runs"]
      /\ mirror'["metric_files"] = mirror["metric_files"] /\ mirror'["idempotency_keys"] = mirror["idempotency_keys"]
  BY TrackMirror DEF Logs
<1>6. Settled("metric_files")' = Settled("metric_files") /\ Settled("idempotency_keys")' = Settled("idempotency_keys")
  BY <1>0, <1>5, SettledOneMore DEF Logs
<1> DEFINE n == Len(mirror["artifacts"]) + 1
           line == Line("artifacts", a, None)
<1>7. /\ Settled("artifacts")' = Settled("artifacts") \cup {n} /\ mirror'["artifacts"][n] = Line("artifacts", a, None) /\ n \in Nat
      /\ \A i \in Settled("artifacts") : mirror'["artifacts"][i] = mirror["artifacts"][i] /\ i < n /\ i \in Nat
  <2>1. line \in Lines /\ mirror'["artifacts"] = Append(mirror["artifacts"], line) /\ "artifacts" \in Logs
    BY <1>4, <1>5 DEF Logs
  <2> HIDE DEF line
  <2>2. /\ Settled("artifacts")' = Settled("artifacts") \cup {n} /\ mirror'["artifacts"][n] = line
        /\ \A i \in Settled("artifacts") : mirror'["artifacts"][i] = mirror["artifacts"][i] /\ i < n
        /\ Len(mirror["artifacts"]) \in Nat /\ Settled("artifacts") \subseteq Nat
    BY <1>0, <2>1, SettledOneMore
  <2> QED BY <2>2 DEF line
<1> HIDE DEF n
<1>8. ASSUME NEW b \in Artifacts, b \notin db'.art PROVE \A i \in Settled("artifacts")' : mirror'["artifacts"][i].id # b
  <2>1. b # a /\ b \notin db.art
    BY <1>2, <1>8
  <2>2. \A i \in Settled("artifacts") : mirror["artifacts"][i].id # b
    BY <1>0, <2>1 DEF SettledAgree
  <2> QED BY <1>4, <1>7, <2>1, <2>2
<1>9. ASSUME NEW b \in db'.art
      PROVE  \E i \in Settled("artifacts")' :
               /\ mirror'["artifacts"][i] = Line("artifacts", b, db'.row[b].ref)
               /\ \A j \in Settled("artifacts")' : mirror'["artifacts"][j].id = b => j <= i
  <2>1. CASE b = a
    <3>1. \A j \in Settled("artifacts")' : j <= n
      BY <1>7
    <3> QED BY <1>3, <1>7, <2>1, <3>1
  <2>2. CASE b # a
    <3>1. b \in db.art /\ b \in Artifacts
      BY <1>0, <1>2, <2>2 DEF Database
    <3>2. PICK i \in Settled("artifacts") : /\ mirror["artifacts"][i] = Line("artifacts", b, db.row[b].ref)
                                            /\ \A j \in Settled("artifacts") : mirror["artifacts"][j].id = b => j <= i
      BY <1>0, <3>1 DEF SettledAgree
    <3>3. db'.row[b] = db.row[b] /\ mirror'["artifacts"][n].id # b
      BY <1>2, <1>4, <1>7, <2>2, <3>1
    <3>4. i \in Settled("artifacts")' /\ mirror'["artifacts"][i] = Line("artifacts", b, db'.row[b].ref)
      BY <1>7, <3>2, <3>3
    <3>5. \A j \in Settled("artifacts")' : mirror'["artifacts"][j].id = b => j <= i
      BY <1>7, <3>2, <3>3
    <3> QED BY <3>4, <3>5
  <2> QED BY <2>1, <2>2
<1>10. db'.run # None
  BY <1>2, StoreAssumption
<1>11. \E i \in Settled("runs")' : mirror'["runs"][i].id = db'.run /\ \A j \in Settled("runs")' : j <= i
  <2>1. CASE db.run = None
    <3> DEFINE k == Len(mirror["runs"]) + 1
    <3>1. /\ Settled("runs")' = Settled("runs") \cup {k} /\ mirror'["runs"][k] = Line("runs", "succeeded", None) /\ k \in Nat
          /\ \A i \in Settled("runs") : i < k /\ i \in Nat
      BY <1>0, <1>4, <1>5, <2>1, SettledOneMore DEF Logs
    <3> HIDE DEF k
    <3>2. \A j \in Settled("runs")' : j <= k
      BY <3>1
    <3> QED BY <1>2, <1>4, <2>1, <3>1, <3>2
  <2>2. CASE db.run # None
    <3>1. Settled("runs")' = Settled("runs")
      BY <1>0, <1>5, <2>2, SettledOneMore DEF Logs
    <3>2. \E i \in Settled("runs") : mirror["runs"][i].id = db.run /\ \A j \in Settled("runs") : j <= i
      BY <1>0, <2>2 DEF SettledAgree
    <3> QED BY <1>2, <1>5, <2>2, <3>1, <3>2
  <2> QED BY <2>1, <2>2
<1>12. \A h \in Hashes : h \in db'.metric <=> \E i \in Settled("metric_files")' : mirror'["metric_files"][i].id = h
  BY <1>0, <1>2, <1>5, <1>6 DEF SettledAgree
<1>13. \A k \in Keys : db'.key[k] # None <=> \E i \in Settled("idempotency_keys")' : mirror'["idempotency_keys"][i].id = k
  BY <1>0, <1>2, <1>5, <1>6 DEF SettledAgree
<1> QED BY <1>8, <1>9, <1>10, <1>11, <1>12, <1>13 DEF SettledAgree

\* The settled lines agree with the tables, after every step.
LEMMA AgreeStep ==
    ASSUME CoreInv, IndexInv, MirrorInv, [Next]_vars
    PROVE  SettledAgree'
<1>0. SettledAgree
  BY DEF MirrorInv
<1>1. CASE HeldKept \/ HeldTakenBack \/ HeldLost \/ \E line \in Lines : HeldGrows(line)
  <2>1. SameRows
    BY <1>1 DEF HeldKept, SameRows, HeldTakenBack, HeldLost, HeldGrows
  <2>2. \A l \in Logs : Settled(l)' = Settled(l) /\ \A i \in Settled(l) : mirror'[l][i] = mirror[l][i]
    BY <1>1, SettledKept
  <2>3. /\ Settled("runs")' = Settled("runs") /\ \A i \in Settled("runs") : mirror'["runs"][i] = mirror["runs"][i]
        /\ Settled("artifacts")' = Settled("artifacts") /\ \A i \in Settled("artifacts") : mirror'["artifacts"][i] = mirror["artifacts"][i]
        /\ Settled("metric_files")' = Settled("metric_files")
        /\ \A i \in Settled("metric_files") : mirror'["metric_files"][i] = mirror["metric_files"][i]
        /\ Settled("idempotency_keys")' = Settled("idempotency_keys")
        /\ \A i \in Settled("idempotency_keys") : mirror'["idempotency_keys"][i] = mirror["idempotency_keys"][i]
    BY <2>2 DEF Logs
  <2>4. \A a \in db'.art : \E i \in Settled("artifacts")' :
          /\ mirror'["artifacts"][i] = Line("artifacts", a, db'.row[a].ref)
          /\ \A j \in Settled("artifacts")' : mirror'["artifacts"][j].id = a => j <= i
    BY <1>0, <2>1, <2>3 DEF SettledAgree, SameRows
  <2> QED BY <1>0, <2>1, <2>3, <2>4 DEF SettledAgree, SameRows
<1> QED BY <1>1, HeldEffect, CommitAgrees, IndexAgrees, EnrichAgrees, TrackAgrees DEF IndexInv

-----------------------------------------------------------------------------
(* The theorems *)

LEMMA MirrorInit == Init => MirrorInv
<1> SUFFICES ASSUME Init PROVE MirrorInv
  OBVIOUS
<1>1. /\ lock = None /\ stray = {} /\ mirror = [l \in Logs |-> <<>>]
      /\ proc = [p \in Procs |-> Idle] /\ off = Waiting
      /\ db = [key |-> [k \in Keys |-> None], run |-> None, exp |-> None, metric |-> {},
               art |-> {}, row |-> [a \in Artifacts |-> NoRow]]
  BY DEF Init, StoreInit
<1>2. HeldOffs = <<>>
  BY <1>1, WatcherAssumption DEF HeldOffs
<1>3. DOMAIN HeldOffs = {} /\ Places(HeldOffs) = {}
  BY <1>2, EmptySeq DEF Places
<1>4. \A l \in Logs : DOMAIN mirror[l] = {} /\ Settled(l) = {}
  BY <1>1, EmptySeq DEF Settled
<1>5. Settled("runs") = {} /\ Settled("artifacts") = {} /\ Settled("metric_files") = {} /\ Settled("idempotency_keys") = {}
  BY <1>4 DEF Logs
<1>6. HeldAtEnd
  BY <1>3 DEF HeldAtEnd, AtEnd
<1>7. StrayThere /\ LinesFiled
  BY <1>1, <1>4 DEF StrayThere, LinesFiled
<1>8. HeldWrites
  BY <1>1 DEF HeldWrites, Idle, Waiting
<1>9. SettledAgree
  BY <1>1, <1>5 DEF SettledAgree
<1> QED BY <1>6, <1>7, <1>8, <1>9 DEF MirrorInv

LEMMA MirrorNext == CoreInv /\ IndexInv /\ MirrorInv /\ [Next]_vars => MirrorInv'
BY AtEndStep, StrayStep, FiledStep, WritesStep, AgreeStep DEF MirrorInv

\* With nobody in a transaction every line that is not stray is settled.
LEMMA QuietAgree ==
    ASSUME CoreInv, MirrorInv
    PROVE  MirrorsAgree
<1> SUFFICES ASSUME lock = None PROVE MirrorsAgree
  BY DEF MirrorsAgree
<1>0. SettledAgree /\ mirror \in [Logs -> Seq(Lines)] /\ None \notin Lines
  BY WatcherAssumption DEF MirrorInv, CoreInv, StoreTypes
<1>1. HeldOffs = <<>>
  BY WatcherAssumption DEF HeldOffs
<1>2. \A l \in Logs : Settled(l) = Kept(l)
  BY <1>1, EmptySeq DEF Settled, Kept, Places
<1>3. \A l \in Logs : \A i \in Kept(l) : mirror[l][i] \in Lines /\ i \in Nat
  <2> TAKE l \in Logs
  <2> TAKE i \in Kept(l)
  <2>1. mirror[l] \in Seq(Lines) /\ i \in DOMAIN mirror[l]
    BY <1>0 DEF Kept
  <2>2. i \in 1..Len(mirror[l]) /\ Len(mirror[l]) \in Nat
    BY <2>1, LenProperties
  <2> QED BY <2>1, <2>2, ElementOfSeq
<1>4. ASSUME NEW l \in Logs, NEW id
      PROVE  /\ (\A i \in Kept(l) : mirror[l][i].id # id) => Last(l, id) = None
             /\ \A i \in Kept(l) : mirror[l][i].id = id /\ (\A j \in Kept(l) : mirror[l][j].id = id => j <= i)
                                    => Last(l, id) = mirror[l][i]
  <2> DEFINE at == {i \in Kept(l) : mirror[l][i].id = id}
             top == CHOOSE i \in at : \A j \in at : j <= i
  <2>1. Last(l, id) = IF at = {} THEN None ELSE mirror[l][top]
    BY DEF Last
  <2>2. ASSUME NEW i \in Kept(l), mirror[l][i].id = id, \A j \in Kept(l) : mirror[l][j].id = id => j <= i
        PROVE  Last(l, id) = mirror[l][i]
    <3>1. i \in at /\ \A j \in at : j <= i
      BY <2>2
    <3>2. top \in at /\ \A j \in at : j <= top
      BY <3>1
    <3>3. i \in Nat /\ top \in Nat /\ i <= top /\ top <= i
      BY <1>3, <3>1, <3>2
    <3>4. top = i
      BY <3>3
    <3> HIDE DEF top
    <3> QED BY <2>1, <3>1, <3>4
  <2>3. ASSUME \A i \in Kept(l) : mirror[l][i].id # id PROVE Last(l, id) = None
    <3>1. at = {}
      BY <2>3
    <3> QED BY <2>1, <3>1
  <2> QED BY <2>2, <2>3
<1>5. ASSUME NEW l \in Logs, NEW id, Last(l, id) = None PROVE \A i \in Kept(l) : mirror[l][i].id # id
  <2> SUFFICES ASSUME NEW i \in Kept(l), mirror[l][i].id = id PROVE FALSE
    OBVIOUS
  <2> DEFINE at == {k \in Kept(l) : mirror[l][k].id = id}
             top == CHOOSE k \in at : \A j \in at : j <= k
  <2>1. at # {} /\ Last(l, id) = mirror[l][top]
    BY DEF Last
  <2>2. at \subseteq 1..Len(mirror[l]) /\ Len(mirror[l]) \in Nat
    BY <1>0, LenProperties DEF Kept
  <2>3. \E k \in at : \A j \in at : j <= k
    BY <2>1, <2>2, GreatestExists
  <2>4. top \in at
    BY <2>3
  <2> HIDE DEF top
  <2> QED BY <1>0, <1>3, <1>5, <2>1, <2>4
<1>6. \A h \in Hashes : (h \in db.metric) <=> (Last("metric_files", h) # None)
  <2>0. "metric_files" \in Logs
    BY DEF Logs
  <2>1. \A h \in Hashes : h \in db.metric <=> \E i \in Kept("metric_files") : mirror["metric_files"][i].id = h
    BY <1>0, <1>2, <2>0 DEF SettledAgree
  <2> QED BY <1>4, <1>5, <2>0, <2>1
<1>7. \A k \in Keys : (db.key[k] # None) <=> (Last("idempotency_keys", k) # None)
  <2>0. "idempotency_keys" \in Logs
    BY DEF Logs
  <2>1. \A k \in Keys : db.key[k] # None <=> \E i \in Kept("idempotency_keys") : mirror["idempotency_keys"][i].id = k
    BY <1>0, <1>2, <2>0 DEF SettledAgree
  <2> QED BY <1>4, <1>5, <2>0, <2>1
<1>8. ASSUME NEW a \in Artifacts
      PROVE  Last("artifacts", a) = IF a \in db.art THEN Line("artifacts", a, db.row[a].ref) ELSE None
  <2>0. "artifacts" \in Logs /\ Settled("artifacts") = Kept("artifacts")
    BY <1>2 DEF Logs
  <2>1. CASE a \in db.art
    <3>1. PICK i \in Kept("artifacts") : /\ mirror["artifacts"][i] = Line("artifacts", a, db.row[a].ref)
                                         /\ \A j \in Kept("artifacts") : mirror["artifacts"][j].id = a => j <= i
      BY <1>0, <2>0, <2>1 DEF SettledAgree
    <3>2. mirror["artifacts"][i].id = a
      BY <3>1 DEF Line
    <3> QED BY <1>4, <2>0, <2>1, <3>1, <3>2
  <2>2. CASE a \notin db.art
    <3>1. \A i \in Kept("artifacts") : mirror["artifacts"][i].id # a
      BY <1>0, <2>0, <2>2 DEF SettledAgree
    <3> QED BY <1>4, <2>0, <2>2, <3>1
  <2> QED BY <2>1, <2>2
<1>9. LET runs == Kept("runs")
      IN  IF db.run = None THEN runs = {}
          ELSE /\ runs # {}
               /\ mirror["runs"][CHOOSE i \in runs : \A j \in runs : j <= i].id = db.run
  <2> DEFINE runs == Kept("runs")
             top == CHOOSE i \in runs : \A j \in runs : j <= i
  <2>0. "runs" \in Logs /\ Settled("runs") = runs
    BY <1>2 DEF Logs
  <2>1. CASE db.run = None
    BY <1>0, <2>0, <2>1 DEF SettledAgree
  <2>2. CASE db.run # None
    <3>1. PICK i \in runs : mirror["runs"][i].id = db.run /\ \A j \in runs : j <= i
      BY <1>0, <2>0, <2>2 DEF SettledAgree
    <3>2. top \in runs /\ \A j \in runs : j <= top
      BY <3>1
    <3>3. i \in Nat /\ top \in Nat /\ i <= top /\ top <= i
      BY <1>3, <2>0, <3>1, <3>2
    <3>4. top = i
      BY <3>3
    <3>5. runs # {} /\ mirror["runs"][top].id = db.run
      BY <3>1, <3>4
    <3> QED BY <2>2, <3>5
  <2> QED BY <2>1, <2>2
<1> QED BY <1>6, <1>7, <1>8, <1>9 DEF MirrorsAgree

\* Whenever nobody is in a transaction, the JSONL mirrors give what was committed: the
\* keys, the metric files, the artifacts with their durable references and the state of
\* the run, and nothing else but the lines that a crash or a failed rollback left.  What
\* appendJSONLWithRollback appends is committed with its rows or taken back by
\* cleanupJSONL or one of those lines, however the imports, the watcher, `track`, the
\* enrichments and the assignments interleave and fail.  The theorem does not speak of
\* the run's experiment, which is changed without a line (ensureRunExperimentIndexesTx,
\* AssignRunToExperiment).
THEOREM MirrorsSafe == Spec => []MirrorsAgree
<1>1. CoreInv /\ MirrorInv => MirrorsAgree
  BY QuietAgree
<1> QED BY <1>1, CoreInit, CoreNext, IndexInit, IndexNext, MirrorInit, MirrorNext, PTL DEF Spec

\* The type invariant: the file lock belongs to the one who is in a transaction
\* (withWriteLock), a reference in the database is of the digest of its row, and what a
\* crash or a failed rollback left behind is still in the mirrors.
THEOREM StoreTypeCorrect == Spec => []TypeOK
<1>1. CoreInv /\ IndexInv /\ MirrorInv => TypeOK
  BY DEF CoreInv, IndexInv, RowsSound, MirrorInv, StrayThere, TypeOK
<1> QED BY <1>1, CoreInit, CoreNext, IndexInit, IndexNext, MirrorInit, MirrorNext, PTL DEF Spec
=============================================================================
