---------------------------- MODULE MetricsSpool ----------------------------
(***************************************************************************)
(* The experiment metrics collector: one process, a sidecar of a training  *)
(* workload, that tails the workload's append-only JSONL histories and     *)
(* delivers them to Azure Data Explorer (ADX).  What it has read but not   *)
(* yet acknowledged is one immutable chunk in the pending directory; what  *)
(* was acknowledged is in checkpoint.json.  The process may stop, and the  *)
(* machine lose power, between any two of these writes; ADX answers late,  *)
(* twice or never.                                                         *)
(*                                                                         *)
(* A history is a sequence of tokens: a row (a JSON object with metrics),  *)
(* a meta row (one without), a newline, and a torn row (what a flush in    *)
(* the middle of a row leaves; the next row token completes it).  An       *)
(* offset with its prefix digest is the prefix itself.                     *)
(***************************************************************************)
EXTENDS Integers, Sequences, FiniteSets, FiniteSetsExt, SequencesExt

CONSTANTS
    NumFiles,      \* histories, in the order of expandHistory
    Startup,       \* what a history may hold before the collector first starts
    MaxLength,     \* bound on the length of a history
    MaxRuns,       \* bound on the attempts (pods) of the workload
    MaxAttempts,   \* ADXQueuedConfig.MaxAttempts
    MetadataRows,  \* does the workload write rows without metrics?
    Baseline,      \* Options.BaselineExistingHistory
    FaultBudget,   \* bound on failed calls, crashes and power losses
    SignalBudget,  \* bound on SIGTERMs to the collector
    ChurnBudget    \* bound on histories replaced by a copy or archived

Tokens == {"row", "meta", "torn", "nl"}

ASSUME ConstantsAssumption ==
    /\ {NumFiles, MaxLength, MaxRuns, MaxAttempts} \subseteq Nat \ {0}
    /\ {FaultBudget, SignalBudget, ChurnBudget} \subseteq Nat
    /\ {MetadataRows, Baseline} \subseteq BOOLEAN
    /\ Startup \subseteq Seq(Tokens)

VARIABLES
    file,        \* the histories: there, inode, data, and how much of it is on stable storage
    completion,  \* the completion sentinel: the attempt it reports, or NoObs
    ready, done, \* the readiness and the terminal delivery sentinels
    expired,     \* the completion sentinel is older than the terminal drain timeout
    ckpt,        \* checkpoint.json
    pending,     \* the chunks in the pending directory
    queued,      \* chunks submitted to ADX and not ingested yet
    table,       \* chunks ingested; ADX ignores a chunk whose ingest-by tag it has
    run,         \* the collector process
    cancelled,   \* its context: SIGTERM has been received
    base,        \* history: how much of a file was there before the workload (0: collect it all)
    attempt, faults, signals, churn

disk == <<ckpt, pending>>
sink == <<queued, table>>
files == <<file, base>>
sentinels == <<completion, ready, done, expired>>
budget == <<attempt, faults, signals, churn>>
vars == <<files, sentinels, disk, sink, run, cancelled, budget>>

Files == 1..NumFiles
NoObs == 0        \* not a terminal observation
CancelObs == -1   \* terminalObservationIDForCancellation: one per configuration
Observations == {CancelObs} \cup 0..MaxRuns
Stamps == {0, 1}  \* payloads projected at different times have different digests

History == [there : BOOLEAN, id : {0, 1}, data : Seq(Tokens), synced : Nat]

\* A history chunk covers a file from prefix start to prefix end; a terminal
\* chunk reports the observation obs.
Manifest == [seq : Nat, file : 0..NumFiles, id : {0, 1}, start : Seq(Tokens), end : Seq(Tokens),
             obs : Observations, stamp : Stamps]
NoManifest == [seq |-> 0, file |-> 0, id |-> 0, start |-> <<>>, end |-> <<>>, obs |-> NoObs, stamp |-> 0]

SourceCheckpoint == [known : BOOLEAN, id : {0, 1}, prefix : Seq(Tokens), seq : Nat,
                     stamp : Stamps, baseline : BOOLEAN]
NoSource == [known |-> FALSE, id |-> 0, prefix |-> <<>>, seq |-> 0, stamp |-> 0, baseline |-> FALSE]
Terminal == [obs : Observations, seq : Nat, stamp : Stamps]
Checkpoint == [saved : BOOLEAN, next : Nat \ {0}, source : [Files -> SourceCheckpoint], terminals : SUBSET Terminal]
NoCheckpoint == [saved |-> FALSE, next |-> 1, source |-> [f \in Files |-> NoSource], terminals |-> {}]

\* The process: pc, the caller (phase), the checkpoints in memory, the chunk
\* under way and who asked for it (ret), the files still to drain, the
\* delivery attempt, whether shutdown has seen the completion sentinel.
Process == [pc : {"down", "replay", "baseline", "ready", "poll", "polled", "sleep", "drain", "read", "rebind", "skip",
                  "spool", "deliver", "final", "save", "remove", "status", "done", "await", "recheck"},
            phase : {"start", "watch", "final", "stop"}, mem : Checkpoint, chunk : Manifest,
            ret : {"replay", "drain", "status"}, todo : SUBSET Files, tries : Nat, completed : BOOLEAN]
Down == [pc |-> "down", phase |-> "start", mem |-> NoCheckpoint, chunk |-> NoManifest, ret |-> "replay",
         todo |-> {}, tries |-> 0, completed |-> FALSE]

IsTerminal(m) == m.obs # NoObs

-----------------------------------------------------------------------------
(* Histories *)

LastNewline(s) == Max({0} \cup {i \in DOMAIN s : s[i] = "nl"})

\* readSource's data: what follows the checkpoint, without the trailing
\* record unless the workload is over.
Unread(data, prefix, trailing) ==
    SubSeq(data, Len(prefix) + 1, IF trailing THEN Len(data) ELSE LastNewline(data))

\* project: the data splits into lines that are rows, none of them empty.
RowLine(s) == s \in {<<"row">>, <<"meta">>, <<"torn", "row">>}
LineAt(s, i) ==  \* the line of s that starts after position i
    LET ends == {j \in (i + 1)..Len(s) : s[j] = "nl"}
    IN  SubSeq(s, i + 1, IF ends = {} THEN Len(s) ELSE Min(ends) - 1)
LineStarts(s) == {i \in {0} \cup {j \in DOMAIN s : s[j] = "nl"} : i < Len(s)}
Projects(s) == \A i \in LineStarts(s) : RowLine(LineAt(s, i))
HasEvents(s) == \E i \in DOMAIN s : s[i] = "row"

-----------------------------------------------------------------------------
(* The checkpoint and the pending chunk *)

\* advanceCheckpointForManifest.
Follows(c, m) ==
    /\ m.seq = c.next
    /\ IF IsTerminal(m)
       THEN \A t \in c.terminals : t.obs # m.obs
       ELSE LET s == c.source[m.file]
            IN  IF s.known THEN s.id = m.id /\ s.prefix = m.start ELSE m.start = <<>>

\* What a delivered chunk leaves in the checkpoint.
Collected(m) == [known |-> TRUE, id |-> m.id, prefix |-> m.end, seq |-> m.seq, stamp |-> m.stamp, baseline |-> FALSE]
ReportedStatus(m) == [obs |-> m.obs, seq |-> m.seq, stamp |-> m.stamp]

\* Mutant: the terminals are not cloned.
ForgetTerminals(c, m) ==
    [saved |-> TRUE, next |-> m.seq + 1,
     source |-> IF IsTerminal(m) THEN c.source ELSE [c.source EXCEPT ![m.file] = Collected(m)],
     terminals |-> IF IsTerminal(m) THEN {ReportedStatus(m)} ELSE {}]

Advance(c, m) ==
    [saved |-> TRUE, next |-> m.seq + 1,
     source |-> IF IsTerminal(m) THEN c.source ELSE [c.source EXCEPT ![m.file] = Collected(m)],
     terminals |-> IF IsTerminal(m) THEN c.terminals \cup {ReportedStatus(m)} ELSE c.terminals]

\* validateAcknowledgedManifest.
Acknowledges(c, m) ==
    IF IsTerminal(m)
    THEN ReportedStatus(m) \in c.terminals
    ELSE LET s == c.source[m.file]
         IN  s.known /\ s.seq = m.seq /\ s.stamp = m.stamp /\ Len(s.prefix) >= Len(m.end)

-----------------------------------------------------------------------------
Init ==
    /\ file \in [Files -> {[there |-> d # <<>>, id |-> 0, data |-> d, synced |-> Len(d)] : d \in Startup}]
    /\ base = [f \in Files |-> IF Baseline THEN LastNewline(file[f].data) ELSE 0]
    /\ completion = NoObs /\ ready = FALSE /\ done = FALSE /\ expired = FALSE
    /\ ckpt = NoCheckpoint
    /\ pending = {}
    /\ queued = {} /\ table = {}
    /\ run = Down
    /\ cancelled = FALSE
    /\ attempt = 1 /\ faults = 0 /\ signals = 0 /\ churn = 0

-----------------------------------------------------------------------------
(* Errors *)

\* An error reaches Run: with the context cancelled it goes on to
\* finishCancelled, otherwise the process exits.
Failed(r) ==
    IF cancelled /\ r.phase \in {"start", "watch", "final"}
    THEN [r EXCEPT !.pc = "await", !.phase = "stop"]
    ELSE Down

\* A call that fails, once in a while.
Fault == faults < FaultBudget /\ faults' = faults + 1 /\ UNCHANGED <<attempt, signals, churn>>

\* What follows a chunk that is delivered, acknowledged and removed.
Return(r) ==
    CASE r.ret = "replay" /\ r.phase = "start" -> [r EXCEPT !.pc = "ready"]
      [] r.ret = "replay" /\ r.phase = "stop"  -> [r EXCEPT !.pc = "drain"]
      [] r.ret = "drain" -> [r EXCEPT !.pc = "read", !.todo = r.todo \ {r.chunk.file}]
      [] r.ret = "status" /\ r.chunk.obs = CancelObs -> Down
      [] OTHER -> [r EXCEPT !.pc = "done"]

-----------------------------------------------------------------------------
(* Start and replaySpool *)

Start ==
    /\ run.pc = "down"
    /\ run' = [Down EXCEPT !.pc = "replay", !.mem = ckpt]
    /\ cancelled' = FALSE
    /\ UNCHANGED <<files, sentinels, disk, sink, budget>>

\* Mutants: nobody remembers that a checkpoint was loaded; no baseline.
AlwaysBaseline(c) == Baseline
NeverBaseline(c) == Baseline /\ c.saved

\* Baseline only when there was neither a checkpoint nor a pending chunk.
FirstStart(c) == Baseline /\ ~c.saved

\* What replaySpool accepts: at most one pending chunk, which the checkpoint
\* either acknowledges or is the predecessor of.
Replayable(c) ==
    /\ Cardinality(pending) <= 1
    /\ \A m \in pending : IF m.seq < c.next THEN Acknowledges(c, m) ELSE Follows(c, m)

\* An acknowledged chunk is only removed, any other is delivered first.
Replay ==
    /\ run.pc = "replay"
    /\ IF Replayable(run.mem)
       THEN \/ /\ \A m \in pending : m.seq < run.mem.next
               /\ pending' = {}
               /\ run' = IF run.phase = "start" /\ FirstStart(run.mem) /\ pending = {}
                         THEN [run EXCEPT !.pc = "baseline"]
                         ELSE Return([run EXCEPT !.ret = "replay"])
            \/ \E m \in pending :
                  /\ m.seq = run.mem.next
                  /\ run' = [run EXCEPT !.pc = "deliver", !.chunk = m, !.ret = "replay", !.tries = 1]
                  /\ UNCHANGED pending
       ELSE run' = Failed(run) /\ UNCHANGED pending
    /\ UNCHANGED <<files, sentinels, ckpt, sink, cancelled, budget>>

\* writeCheckpoints; a failing one may already have published the new file.
SaveCheckpoint(c, then, failed) ==
    \/ ckpt' = c /\ run' = then /\ UNCHANGED budget
    \/ Fault /\ ckpt' \in {ckpt, c} /\ run' = failed

\* Mutant: the sequence number before the first is one too low.
EarlierSource(f) ==
    [known |-> TRUE, id |-> file[f].id, prefix |-> SubSeq(file[f].data, 1, LastNewline(file[f].data)),
     seq |-> run.mem.next - 2, stamp |-> 0, baseline |-> TRUE]

\* baselineSource: the complete lines are skipped.
BaselineSource(f) ==
    [known |-> TRUE, id |-> file[f].id, prefix |-> SubSeq(file[f].data, 1, LastNewline(file[f].data)),
     seq |-> run.mem.next - 1, stamp |-> 0, baseline |-> TRUE]

Baselined ==
    [run.mem EXCEPT !.saved = TRUE,
       !.source = [f \in Files |-> IF file[f].there THEN BaselineSource(f) ELSE NoSource]]

TakeBaseline ==
    /\ run.pc = "baseline"
    /\ LET c == Baselined
       IN  SaveCheckpoint(c, [run EXCEPT !.pc = "ready", !.mem = c], Down)
    /\ file' = [f \in Files |-> [file[f] EXCEPT !.synced = Len(file[f].data)]]
    /\ UNCHANGED <<base, sentinels, pending, sink, cancelled>>

PublishReady ==
    /\ run.pc = "ready"
    /\ ready' = TRUE
    /\ run' = [run EXCEPT !.pc = "poll"]
    /\ UNCHANGED <<files, completion, done, expired, disk, sink, cancelled, budget>>

-----------------------------------------------------------------------------
(* The watch loop *)

Over == completion # NoObs

\* Mutant: what the last drain of the loop has seen is enough.
NoFinalDrain == [run EXCEPT !.pc = "status", !.phase = "final"]

FinishCompleted == [run EXCEPT !.pc = "drain", !.phase = "final"]

\* Before and after each drain the completion sentinel is looked for.
Poll ==
    /\ run.pc \in {"poll", "polled"}
    /\ run' = IF Over THEN FinishCompleted
              ELSE IF run.pc = "poll" THEN [run EXCEPT !.pc = "drain", !.phase = "watch"]
              ELSE [run EXCEPT !.pc = "sleep"]
    /\ UNCHANGED <<files, sentinels, disk, sink, cancelled, budget>>

Sleep ==
    /\ run.pc = "sleep"
    /\ run' = IF cancelled THEN Failed(run) ELSE [run EXCEPT !.pc = "poll"]
    /\ UNCHANGED <<files, sentinels, disk, sink, cancelled, budget>>

-----------------------------------------------------------------------------
(* drain *)

\* A source that was collected from may not disappear.
DrainStart ==
    /\ run.pc = "drain"
    /\ run' = IF \E f \in Files : LET s == run.mem.source[f]
                                  IN  s.known /\ ~file[f].there /\ ~s.baseline
              THEN Failed(run)
              ELSE [run EXCEPT !.pc = "read", !.todo = {f \in Files : file[f].there}]
    /\ UNCHANGED <<files, sentinels, disk, sink, cancelled, budget>>

DrainDone ==
    /\ run.pc = "read"
    /\ run.todo = {}
    /\ run' = [run EXCEPT !.pc = IF run.phase = "watch" THEN "polled"
                                 ELSE IF run.phase = "stop" /\ ~run.completed THEN "recheck"
                                 ELSE "status"]
    /\ UNCHANGED <<files, sentinels, disk, sink, cancelled, budget>>

\* Mutant: the history is read but not synced.
ReadOnly(f) == file' = file

\* syncSource: what was read is on stable storage before anything is made of it.
SyncSource(f) == file' = [file EXCEPT ![f].synced = Len(file[f].data)]

\* readSource: what is new in history f, the chunk it would make, and whether the
\* file is another than the one that was collected from.
NewRows(f) == Unread(file[f].data, run.mem.source[f].prefix, run.phase # "watch")
NewChunk(f, stamp) ==
    [seq |-> run.mem.next, file |-> f, id |-> file[f].id, start |-> run.mem.source[f].prefix,
     end |-> run.mem.source[f].prefix \o NewRows(f), obs |-> NoObs, stamp |-> stamp]
Moved(f) == run.mem.source[f].known /\ run.mem.source[f].id # file[f].id

\* readSource and project.  The time of the projection is part of the payload.
Read ==
    /\ run.pc = "read"
    /\ run.todo # {}
    /\ LET f == Min(run.todo)
       IN  IF ~file[f].there \/ ~IsPrefix(run.mem.source[f].prefix, file[f].data)
           THEN run' = Failed(run) /\ UNCHANGED file
           ELSE /\ SyncSource(f)
                /\ IF NewRows(f) = <<>>
                   THEN run' = [run EXCEPT !.todo = run.todo \ {f}]
                   ELSE IF Moved(f) \/ Projects(NewRows(f))
                   THEN \E stamp \in Stamps :
                           run' = [run EXCEPT !.chunk = NewChunk(f, stamp), !.ret = "drain",
                                     !.pc = IF Moved(f) THEN "rebind"
                                            ELSE IF HasEvents(NewRows(f)) THEN "spool" ELSE "skip"]
                   ELSE run' = Failed(run)
    /\ UNCHANGED <<base, sentinels, disk, sink, cancelled, budget>>

\* The rows the chunk under way covers.
ChunkRows == Unread(run.chunk.end, run.chunk.start, TRUE)

\* The file is another inode with the same prefix: remember it, then go on.
Rebound(c, m) ==
    [c EXCEPT !.saved = TRUE, !.source[m.file] = [c.source[m.file] EXCEPT !.id = m.id, !.baseline = FALSE]]

Rebind ==
    /\ run.pc = "rebind"
    /\ LET c == Rebound(run.mem, run.chunk)
           r == [run EXCEPT !.mem = c]
       IN  SaveCheckpoint(c, IF ~Projects(ChunkRows) THEN Failed(r)
                             ELSE [r EXCEPT !.pc = IF HasEvents(ChunkRows) THEN "spool" ELSE "skip"],
                          Failed(run))
    /\ UNCHANGED <<files, sentinels, pending, sink, cancelled>>

\* Rows without metrics only move the checkpoint, in memory first.
Skipped(c, m) ==
    [c EXCEPT !.saved = TRUE,
       !.source[m.file] = [c.source[m.file] EXCEPT !.known = TRUE, !.id = m.id, !.prefix = m.end, !.baseline = FALSE]]

Skip ==
    /\ run.pc = "skip"
    /\ LET c == Skipped(run.mem, run.chunk)
           r == [run EXCEPT !.mem = c]
       IN  SaveCheckpoint(c, Return(r), Failed(r))
    /\ UNCHANGED <<files, sentinels, pending, sink, cancelled>>

-----------------------------------------------------------------------------
(* A chunk: written to the spool, delivered, acknowledged, removed *)

\* Mutant: the chunk is delivered before it is in the spool.
Unspooled == UNCHANGED pending

WritePending == pending' = pending \cup {run.chunk}

Spool ==
    /\ run.pc = "spool"
    /\ \/ WritePending /\ run' = [run EXCEPT !.pc = "deliver", !.tries = 1] /\ UNCHANGED budget
       \/ Fault /\ (WritePending \/ UNCHANGED pending) /\ run' = Failed(run)
    /\ UNCHANGED <<files, sentinels, ckpt, sink, cancelled>>

\* Mutant: the deadline binds the replay at startup as well.
DeadlineAlways ==
    \/ cancelled /\ run.phase \in {"start", "watch", "final"}
    \/ expired /\ run.phase \in {"start", "final"}

\* The context of Deliver: the process's own until it is cancelled, in
\* finishCompleted with a deadline, in finishCancelled a fresh one.
CtxDone ==
    \/ cancelled /\ run.phase \in {"start", "watch", "final"}
    \/ expired /\ run.phase = "final"

\* Mutant: accepted by the queue is as good as ingested.
SubmitOnly ==
    /\ run.pc = "deliver"
    /\ ~CtxDone
    /\ queued' = queued \cup {run.chunk}
    /\ run' = [run EXCEPT !.pc = "save"]
    /\ UNCHANGED <<files, sentinels, disk, table, cancelled, budget>>

Submit ==
    /\ run.pc = "deliver"
    /\ ~CtxDone
    /\ queued' = queued \cup {run.chunk}
    /\ run' = [run EXCEPT !.pc = "final"]
    /\ UNCHANGED <<files, sentinels, disk, table, cancelled, budget>>

\* The final status: Succeeded, or Skipped if the table had the chunk already.
Delivered ==
    /\ run.pc = "final"
    /\ run.chunk \in table \ queued
    /\ run' = [run EXCEPT !.pc = "save"]
    /\ UNCHANGED <<files, sentinels, disk, sink, cancelled, budget>>

\* The submission fails, or its final status is a failure or does not come in
\* time: another attempt if the error allows one, or the end of the delivery.
AttemptFails ==
    /\ run.pc \in {"deliver", "final"}
    /\ ~CtxDone
    /\ Fault
    /\ \/ run.tries < MaxAttempts /\ run' = [run EXCEPT !.pc = "deliver", !.tries = run.tries + 1]
       \/ run' = Failed(run)
    /\ UNCHANGED <<files, sentinels, disk, sink, cancelled>>

DeliveryCancelled ==
    /\ run.pc \in {"deliver", "final"}
    /\ CtxDone
    /\ run' = Failed(run)
    /\ UNCHANGED <<files, sentinels, disk, sink, cancelled, budget>>

Save ==
    /\ run.pc = "save"
    /\ LET c == Advance(run.mem, run.chunk)
       IN  SaveCheckpoint(c, [run EXCEPT !.pc = "remove", !.mem = c], Failed(run))
    /\ UNCHANGED <<files, sentinels, pending, sink, cancelled>>

RemovePending ==
    /\ run.pc = "remove"
    /\ \/ pending' = pending \ {run.chunk} /\ run' = Return(run) /\ UNCHANGED budget
       \/ Fault /\ pending' \in {pending, pending \ {run.chunk}} /\ run' = Failed(run)
    /\ UNCHANGED <<files, sentinels, ckpt, sink, cancelled>>

-----------------------------------------------------------------------------
(* The end: finishCompleted, finishCancelled *)

\* publishCompletion: one terminal chunk for each observation.
StatusObs == IF run.phase = "stop" /\ ~run.completed THEN CancelObs ELSE completion
StatusChunk(stamp) == [NoManifest EXCEPT !.seq = run.mem.next, !.obs = StatusObs, !.stamp = stamp]

PublishStatus ==
    /\ run.pc = "status"
    /\ IF \E t \in run.mem.terminals : t.obs = StatusObs
       THEN run' = IF StatusObs = CancelObs THEN Down ELSE [run EXCEPT !.pc = "done"]
       ELSE \E stamp \in IF StatusObs = CancelObs THEN Stamps ELSE {0} :
               run' = [run EXCEPT !.pc = "spool", !.chunk = StatusChunk(stamp), !.ret = "status"]
    /\ UNCHANGED <<files, sentinels, disk, sink, cancelled, budget>>

PublishDone ==
    /\ run.pc = "done"
    /\ done' = TRUE
    /\ run' = Down
    /\ UNCHANGED <<files, completion, ready, expired, disk, sink, cancelled, budget>>

\* Mutant: shutdown drains without replaying the spool.
AwaitAndDrain ==
    /\ run.pc = "await"
    /\ run' = [run EXCEPT !.pc = "drain", !.completed = Over]
    /\ UNCHANGED <<files, sentinels, disk, sink, cancelled, budget>>

\* waitForCompletion, for a while; then the spool is replayed and drained.
Await ==
    /\ run.pc = "await"
    /\ run' = [run EXCEPT !.pc = "replay", !.completed = Over]
    /\ UNCHANGED <<files, sentinels, disk, sink, cancelled, budget>>

\* The workload may have ended meanwhile: then everything is drained again.
Recheck ==
    /\ run.pc = "recheck"
    /\ run' = IF Over THEN [run EXCEPT !.pc = "drain", !.completed = TRUE]
              ELSE [run EXCEPT !.pc = "status"]
    /\ UNCHANGED <<files, sentinels, disk, sink, cancelled, budget>>

\* Reading the spool, a history or a sentinel fails, or publishing a sentinel
\* does, possibly after the fact.  Run hands only the errors of replaySpool,
\* drain and publishStatus on to finishCancelled.
IOFails ==
    /\ run.pc \in {"replay", "baseline", "ready", "poll", "polled", "drain", "read", "status", "done",
                   "await", "recheck"}
    /\ run.pc = "read" => run.todo # {}
    /\ Fault
    /\ run' = IF run.pc \in {"replay", "drain", "read", "status"} THEN Failed(run) ELSE Down
    /\ ready' \in {ready, ready \/ run.pc = "ready"}
    /\ done' \in {done, done \/ run.pc = "done"}
    /\ UNCHANGED <<files, completion, expired, disk, sink, cancelled>>

CollectorStep ==
    \/ IOFails \/ Replay \/ TakeBaseline \/ PublishReady \/ Poll \/ Sleep
    \/ DrainStart \/ Read \/ DrainDone \/ Rebind \/ Skip
    \/ Spool \/ Submit \/ Delivered \/ AttemptFails \/ DeliveryCancelled \/ Save \/ RemovePending
    \/ PublishStatus \/ PublishDone \/ Await \/ Recheck

-----------------------------------------------------------------------------
(* The surroundings *)

\* ADX works off its queue; the ingest-by tag makes a second copy harmless.
Ingest(m) ==
    /\ m \in queued
    /\ queued' = queued \ {m}
    /\ table' = table \cup {m}
    /\ UNCHANGED <<files, sentinels, disk, run, cancelled, budget>>

\* The process stops; when the machine does, histories lose what is not synced.
Crash ==
    /\ run.pc # "down"
    /\ Fault
    /\ run' = Down
    /\ \E cut \in [Files -> 0..MaxLength] :
          /\ \A f \in Files : cut[f] \in file[f].synced..Len(file[f].data)
          /\ file' = [f \in Files |-> [file[f] EXCEPT !.data = SubSeq(file[f].data, 1, cut[f])]]
    /\ UNCHANGED <<base, sentinels, disk, sink, cancelled>>

Signal ==
    /\ run.pc # "down" /\ ~cancelled
    /\ signals < SignalBudget
    /\ signals' = signals + 1
    /\ cancelled' = TRUE
    /\ UNCHANGED <<files, sentinels, disk, sink, run, attempt, faults, churn>>

\* With a baseline the workload starts once the collector is ready.  It appends
\* lines, which a flush may tear.
Continues(data, token) ==
    LET last == IF data = <<>> THEN "nl" ELSE Last(data)
    IN  token \in CASE last = "nl" -> {"row", "meta", "torn"}
                    [] last = "torn" -> {"row"}
                    [] OTHER -> {"nl"}

Write(f, token) ==
    /\ Baseline => ready
    /\ ~Over
    /\ file[f].there \/ file[f].data = <<>>
    /\ Len(file[f].data) < MaxLength
    /\ Continues(file[f].data, token) /\ (token = "meta" => MetadataRows)
    /\ file' = [file EXCEPT ![f] = [file[f] EXCEPT !.there = TRUE, !.data = Append(file[f].data, token)]]
    /\ UNCHANGED <<base, sentinels, disk, sink, run, cancelled, budget>>

\* The entrypoint has ended, or the wrapper has given up waiting for ready.
Complete ==
    /\ ~Over
    /\ completion' = attempt
    /\ UNCHANGED <<files, ready, done, expired, disk, sink, run, cancelled, budget>>

\* finishCompleted counts its deadline from the completion sentinel's mtime.
Expire ==
    /\ Over /\ ~expired
    /\ expired' = TRUE
    /\ UNCHANGED <<files, completion, ready, done, disk, sink, run, cancelled, budget>>

\* Another pod with the same histories, checkpoint and spool.
NewAttempt ==
    /\ run.pc = "down"
    /\ attempt < MaxRuns
    /\ attempt' = attempt + 1
    /\ completion' = NoObs /\ ready' = FALSE /\ done' = FALSE /\ expired' = FALSE
    /\ UNCHANGED <<files, disk, sink, run, cancelled, faults, signals, churn>>

\* A history is replaced by a copy of itself, or archived.
Replace(f) ==
    /\ file[f].there
    /\ churn < ChurnBudget
    /\ churn' = churn + 1
    /\ \/ file' = [file EXCEPT ![f].id = 1 - file[f].id]
       \/ file' = [file EXCEPT ![f].there = FALSE]
    /\ UNCHANGED <<base, sentinels, disk, sink, run, cancelled, attempt, faults, signals>>

Environment ==
    \/ \E m \in queued : Ingest(m)
    \/ Crash \/ Signal \/ Complete \/ Expire \/ NewAttempt
    \/ \E f \in Files : Replace(f) \/ \E token \in Tokens : Write(f, token)

Next == Start \/ CollectorStep \/ Environment

Spec == Init /\ [][Next]_vars

\* The process keeps running, it is started again when it has stopped, and
\* ADX works off its queue.  Nothing obliges a workload to end or to go on.
Fairness ==
    /\ WF_vars(Start) /\ WF_vars(CollectorStep)
    /\ WF_vars(\E m \in queued : Ingest(m))

FairSpec == Spec /\ Fairness

-----------------------------------------------------------------------------
(* Properties *)

\* The rows of file f, by position, and those a chunk has brought to ADX.
Rows(f, data) == {i \in DOMAIN data : i > base[f] /\ data[i] = "row"}
Covers(m, f, i) == m.file = f /\ Len(m.start) < i /\ i <= Len(m.end)
Ingested(f, i) == \E m \in table : Covers(m, f, i)

\* Type invariant.
TypeOK ==
    /\ file \in [Files -> History]
    /\ \A f \in Files : file[f].synced <= Len(file[f].data)
    /\ base \in [Files -> Nat]
    /\ attempt \in 1..MaxRuns /\ completion \in 0..MaxRuns
    /\ {ready, done, expired, cancelled} \subseteq BOOLEAN
    /\ ckpt \in Checkpoint
    /\ pending \subseteq Manifest /\ queued \subseteq Manifest /\ table \subseteq Manifest
    /\ run \in Process

\* Nothing is checkpointed before ADX has it: every row below a source's
\* offset, past the baseline, is in the table.
NothingLost ==
    \A f \in Files : \A i \in Rows(f, ckpt.source[f].prefix) : Ingested(f, i)

\* Nothing is stored twice, although chunks are submitted again after lost
\* answers, crashes and failed writes: no row is in two chunks, and no
\* observation is reported twice.
NothingTwice ==
    \A m, n \in queued \cup table : m # n =>
        IF IsTerminal(m) THEN m.obs # n.obs
        ELSE ~\E i \in 1..MaxLength : Covers(m, m.file, i) /\ Covers(n, m.file, i)

\* Whatever a crash or a failed write leaves, replaySpool accepts, at the next
\* start as well as during shutdown.
SpoolRecoverable == Replayable(ckpt) /\ (run.pc = "replay" => Replayable(run.mem))

\* A power loss never takes back what a checkpoint or a chunk is about, so
\* that readSource finds its prefix again.
PrefixKept ==
    \A f \in Files : file[f].there =>
        /\ IsPrefix(ckpt.source[f].prefix, file[f].data)
        /\ \A m \in pending : m.file = f => IsPrefix(m.end, file[f].data)

\* The terminal status of a finished workload is the last thing ADX hears: by
\* then it has every row of every history.  And the done sentinel, on which the
\* workload's wrapper waits, is only written when ADX has the status.
StatusLast ==
    Over =>
    /\ (\E m \in queued \cup table : m.obs = completion) =>
          \A f \in Files : file[f].there => \A i \in Rows(f, file[f].data) : Ingested(f, i)
    /\ done => \E m \in table : m.obs = completion

\* Rows that were complete before the workload started are not its metrics:
\* with a baseline they never reach ADX, whatever restarts follow.
NothingOld == \A f \in Files : \A i \in 1..base[f] : ~Ingested(f, i)

\* A checkpoint never goes back: not its sequence, not an offset, not a terminal.
CheckpointGrows ==
    [][/\ ckpt.next <= ckpt'.next
       /\ \A f \in Files : IsPrefix(ckpt.source[f].prefix, ckpt'.source[f].prefix)
       /\ ckpt.terminals \subseteq ckpt'.terminals]_vars

\* What drain asks of the histories, now that the workload is over.
Acceptable ==
    \A f \in Files :
        LET s == ckpt.source[f]
        IN  IF file[f].there THEN Projects(Unread(file[f].data, s.prefix, TRUE)) ELSE s.known => s.baseline

\* A finished workload is reported in the end, although every single drain
\* may run out of time: finishCompleted's deadline lies in the past for good
\* once it has passed, but each failed attempt leaves a pending chunk that the
\* next start delivers.
Reported == <>[](Over /\ Acceptable) => []<>done

=============================================================================
