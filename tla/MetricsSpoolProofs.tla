------------------------- MODULE MetricsSpoolProofs -------------------------
(***************************************************************************)
(* Machine-checked proofs about MetricsSpool, for any number of histories, *)
(* any length of them, and any number of pods, faults, signals and         *)
(* replaced files.                                                         *)
(***************************************************************************)
EXTENDS MetricsSpool, NaturalOrder, SequenceTheorems, FiniteSetTheorems, TLAPS

-----------------------------------------------------------------------------
(* Histories *)

LEMMA PrefixDef ==
    ASSUME NEW s \in Seq(Tokens), NEW t \in Seq(Tokens)
    PROVE  IsPrefix(s, t) <=> Len(s) <= Len(t) /\ \A i \in 1..Len(s) : s[i] = t[i]
<1>1. SubSeq(s, 1, Len(s)) = s
  BY SubSeqFull
<1>2. ASSUME Len(s) <= Len(t) PROVE SubSeq(t, 1, Len(s)) = s <=> \A i \in 1..Len(s) : s[i] = t[i]
  BY <1>2
<1> QED BY <1>1, <1>2 DEF IsPrefix

LEMMA PrefixIntro ==
    ASSUME NEW s \in Seq(Tokens), NEW t \in Seq(Tokens), Len(s) <= Len(t), \A i \in 1..Len(s) : s[i] = t[i]
    PROVE  IsPrefix(s, t)
BY PrefixDef

LEMMA PrefixEmpty == ASSUME NEW s \in Seq(Tokens) PROVE IsPrefix(<<>>, s)
<1>1. <<>> \in Seq(Tokens) /\ Len(<<>>) = 0 /\ Len(s) \in Nat
  BY EmptySeq, LenProperties
<1> DEFINE u == <<>>
<1>2. u \in Seq(Tokens) /\ Len(u) <= Len(s) /\ \A i \in 1..Len(u) : u[i] = s[i]
  BY <1>1
<1> HIDE DEF u
<1>3. IsPrefix(u, s)
  BY <1>2, PrefixIntro
<1> QED BY <1>3 DEF u

LEMMA PrefixRefl == ASSUME NEW s \in Seq(Tokens) PROVE IsPrefix(s, s)
BY PrefixDef

LEMMA PrefixTrans ==
    ASSUME NEW s \in Seq(Tokens), NEW t \in Seq(Tokens), NEW u \in Seq(Tokens), IsPrefix(s, t), IsPrefix(t, u)
    PROVE  IsPrefix(s, u)
BY PrefixDef

\* Two prefixes of a history are prefixes of one another.
LEMMA PrefixLinear ==
    ASSUME NEW s \in Seq(Tokens), NEW t \in Seq(Tokens), NEW u \in Seq(Tokens),
           IsPrefix(s, u), IsPrefix(t, u), Len(s) <= Len(t)
    PROVE  IsPrefix(s, t)
BY PrefixDef

LEMMA PrefixWhole ==
    ASSUME NEW s \in Seq(Tokens), NEW t \in Seq(Tokens), IsPrefix(s, t), Len(s) = Len(t)
    PROVE  s = t
BY PrefixDef, SeqEqual

LEMMA PrefixAppend ==
    ASSUME NEW s \in Seq(Tokens), NEW t \in Seq(Tokens), NEW e \in Tokens, IsPrefix(s, t)
    PROVE  IsPrefix(s, Append(t, e))
<1>1. Append(t, e) \in Seq(Tokens) /\ Len(Append(t, e)) = Len(t) + 1
      /\ \A i \in 1..Len(t) : Append(t, e)[i] = t[i]
  BY AppendProperties
<1>2. Len(s) \in Nat /\ Len(t) \in Nat /\ Len(s) <= Len(t) /\ \A i \in 1..Len(s) : s[i] = t[i]
  BY PrefixDef, LenProperties
<1> DEFINE u == Append(t, e)
<1>3. u \in Seq(Tokens) /\ Len(s) <= Len(u) /\ \A i \in 1..Len(s) : s[i] = u[i]
  BY <1>1, <1>2
<1> HIDE DEF u
<1>4. IsPrefix(s, u)
  BY <1>3, PrefixIntro
<1> QED BY <1>4 DEF u

\* The first n tokens of a history.
LEMMA CutSeq ==
    ASSUME NEW s \in Seq(Tokens), NEW n \in 0..Len(s)
    PROVE  /\ SubSeq(s, 1, n) \in Seq(Tokens) /\ Len(SubSeq(s, 1, n)) = n
           /\ \A i \in 1..n : SubSeq(s, 1, n)[i] = s[i]
           /\ IsPrefix(SubSeq(s, 1, n), s)
<1>1. /\ SubSeq(s, 1, n) \in Seq(Tokens) /\ Len(SubSeq(s, 1, n)) = n
      /\ \A i \in 1..n : SubSeq(s, 1, n)[i] = s[i]
  OBVIOUS
<1> DEFINE u == SubSeq(s, 1, n)
<1>2. u \in Seq(Tokens) /\ Len(u) = n /\ n <= Len(s) /\ \A i \in 1..n : u[i] = s[i]
  BY <1>1
<1> HIDE DEF u
<1>3. IsPrefix(u, s)
  BY <1>2, PrefixIntro
<1> QED BY <1>1, <1>3 DEF u

\* A power loss leaves a prefix that has been synced.
LEMMA PrefixCut ==
    ASSUME NEW s \in Seq(Tokens), NEW t \in Seq(Tokens), NEW n \in 0..Len(t), IsPrefix(s, t), Len(s) <= n
    PROVE  IsPrefix(s, SubSeq(t, 1, n))
<1> DEFINE u == SubSeq(t, 1, n)
<1>1. u \in Seq(Tokens) /\ Len(u) = n /\ \A i \in 1..n : u[i] = t[i]
  BY CutSeq
<1> HIDE DEF u
<1>2. Len(s) \in Nat /\ \A i \in 1..Len(s) : s[i] = t[i]
  BY PrefixDef, LenProperties
<1>3. IsPrefix(s, u)
  BY <1>1, <1>2, PrefixIntro
<1> QED BY <1>3 DEF u

LEMMA LastNewlineIn == ASSUME NEW s \in Seq(Tokens) PROVE LastNewline(s) \in 0..Len(s)
<1> DEFINE S == {i \in DOMAIN s : s[i] = "nl"}
<1>1. S \subseteq 1..Len(s) /\ Len(s) \in Nat
  OBVIOUS
<1>2. \E x \in {0} \cup S : \A y \in {0} \cup S : x >= y
  <2>1. CASE S = {}
    BY <2>1
  <2>2. CASE S # {}
    <3> HIDE DEF S
    <3>1. PICK x \in S : \A y \in S : y <= x
      BY <1>1, <2>2, GreatestExists
    <3> QED BY <1>1, <3>1
  <2> QED BY <2>1, <2>2
<1> HIDE DEF S
<1>3. Max({0} \cup S) \in {0} \cup S
  BY <1>2 DEF Max
<1>4. LastNewline(s) \in {0} \cup S
  BY <1>3 DEF LastNewline, S
<1>5. \A i \in S : i \in 0..Len(s)
  BY <1>1
<1>6. 0 \in 0..Len(s)
  BY <1>1
<1> QED BY <1>4, <1>5, <1>6

\* What readSource returns extends the prefix that was read before, within the history.
LEMMA UnreadExtends ==
    ASSUME NEW d \in Seq(Tokens), NEW p \in Seq(Tokens), IsPrefix(p, d), NEW trailing \in BOOLEAN
    PROVE  /\ Unread(d, p, trailing) \in Seq(Tokens)
           /\ p \o Unread(d, p, trailing) \in Seq(Tokens)
           /\ IsPrefix(p, p \o Unread(d, p, trailing))
           /\ IsPrefix(p \o Unread(d, p, trailing), d)
           /\ trailing => p \o Unread(d, p, trailing) = d
<1> DEFINE n == IF trailing THEN Len(d) ELSE LastNewline(d)
           u == SubSeq(d, Len(p) + 1, n)
           k == IF Len(p) <= n THEN n - Len(p) ELSE 0
<1>0. Len(p) \in Nat /\ Len(d) \in Nat /\ n \in 0..Len(d) /\ Len(p) <= Len(d)
  BY LastNewlineIn, PrefixDef
<1>1. u \in Seq(Tokens) /\ Len(u) = k /\ \A i \in 1..k : u[i] = d[Len(p) + i]
  <2> HIDE DEF n
  <2>1. \A i \in (Len(p) + 1)..n : d[i] \in Tokens
    BY <1>0, ElementOfSeq
  <2>2. Len(p) + 1 \in Int /\ n \in Int
    BY <1>0
  <2>3. /\ SubSeq(d, Len(p) + 1, n) \in Seq(Tokens)
        /\ Len(SubSeq(d, Len(p) + 1, n)) = IF Len(p) + 1 <= n THEN n - (Len(p) + 1) + 1 ELSE 0
        /\ \A i \in 1 .. n - (Len(p) + 1) + 1 : SubSeq(d, Len(p) + 1, n)[i] = d[(Len(p) + 1) + i - 1]
    BY <2>1, <2>2, SubSeqProperties
  <2> QED BY <1>0, <2>3
<1>2. Unread(d, p, trailing) = u
  BY DEF Unread
<1> HIDE DEF u, n, k
<1>3. p \o u \in Seq(Tokens) /\ Len(p \o u) = Len(p) + k
      /\ \A i \in 1..Len(p) + k : (p \o u)[i] = IF i <= Len(p) THEN p[i] ELSE u[i - Len(p)]
  BY <1>1, ConcatProperties
<1>4. k \in Nat /\ Len(p) + k <= Len(d) /\ (trailing => Len(p) + k = Len(d))
  BY <1>0 DEF k, n
<1>5. \A i \in 1..Len(p) : p[i] = d[i]
  BY PrefixDef
<1>6. \A i \in 1..Len(p) + k : (p \o u)[i] = d[i]
  BY <1>0, <1>1, <1>3, <1>4, <1>5
<1> DEFINE e == p \o u
<1>7. e \in Seq(Tokens) /\ Len(e) = Len(p) + k /\ \A i \in 1..Len(p) + k : e[i] = d[i]
  BY <1>3, <1>6
<1> HIDE DEF e
<1>8. IsPrefix(p, e)
  <2>1. Len(p) <= Len(e) /\ \A i \in 1..Len(p) : p[i] = e[i]
    BY <1>0, <1>4, <1>5, <1>7
  <2> QED BY <1>7, <2>1, PrefixIntro
<1>9. IsPrefix(e, d)
  BY <1>0, <1>4, <1>7, PrefixIntro
<1>10. trailing => e = d
  BY <1>4, <1>7, <1>9, PrefixWhole
<1> QED BY <1>1, <1>2, <1>7, <1>8, <1>9, <1>10 DEF e

\* The rows of a chunk are those that were read.
LEMMA UnreadAgain ==
    ASSUME NEW p \in Seq(Tokens), NEW u \in Seq(Tokens)
    PROVE  Unread(p \o u, p, TRUE) = u
<1>1. p \o u \in Seq(Tokens) /\ Len(p \o u) = Len(p) + Len(u)
      /\ \A i \in 1..Len(p) + Len(u) : (p \o u)[i] = IF i <= Len(p) THEN p[i] ELSE u[i - Len(p)]
  BY ConcatProperties
<1> DEFINE e == p \o u
<1>a. e \in Seq(Tokens) /\ Len(p) <= Len(e) /\ \A i \in 1..Len(p) : p[i] = e[i]
  BY <1>1, LenProperties
<1> HIDE DEF e
<1>b. IsPrefix(p, e)
  BY <1>a, PrefixIntro
<1>2. IsPrefix(p, p \o u)
  BY <1>b DEF e
<1>3. /\ Unread(p \o u, p, TRUE) \in Seq(Tokens)
      /\ p \o Unread(p \o u, p, TRUE) = p \o u
  BY <1>1, <1>2, UnreadExtends
<1> HIDE DEF Tokens
<1>4. \A s, t, v \in Seq(Tokens) : s \o t = s \o v => t = v
  BY ConcatSimplifications
<1> QED BY <1>3, <1>4

\* drain takes the histories in their order.
LEMMA NextFile ==
    ASSUME NEW S, S \subseteq Files, S # {}
    PROVE  Min(S) \in S
<1>1. S \subseteq Nat
  BY ConstantsAssumption DEF Files
<1> QED BY <1>1, LeastExists DEF Min

-----------------------------------------------------------------------------
(* Types, and what the helpers do *)

LEMMA ResetsType ==
    /\ NoManifest \in Manifest /\ NoSource \in SourceCheckpoint
    /\ NoCheckpoint \in Checkpoint /\ Down \in Process
<1>1. MaxRuns \in Nat /\ NumFiles \in Nat /\ <<>> \in Seq(Tokens)
  BY ConstantsAssumption, EmptySeq
<1>2. NoManifest \in Manifest
  BY <1>1 DEF NoManifest, Manifest, Observations, NoObs, Stamps
<1>3. NoSource \in SourceCheckpoint
  BY <1>1 DEF NoSource, SourceCheckpoint, Stamps
<1>4. NoCheckpoint \in Checkpoint
  BY <1>3 DEF NoCheckpoint, Checkpoint
<1> QED BY <1>2, <1>3, <1>4 DEF Down, Process

LEMMA AdvanceEffect ==
    ASSUME NEW c \in Checkpoint, NEW m \in Manifest
    PROVE  LET d == Advance(c, m)
           IN  /\ d \in Checkpoint /\ d.saved /\ d.next = m.seq + 1
               /\ d.terminals = IF IsTerminal(m) THEN c.terminals \cup {ReportedStatus(m)} ELSE c.terminals
               /\ \A f \in Files : d.source[f] = IF ~IsTerminal(m) /\ f = m.file THEN Collected(m) ELSE c.source[f]
<1>1. Collected(m) \in SourceCheckpoint
  BY DEF Collected, SourceCheckpoint, Manifest
<1>2. ReportedStatus(m) \in Terminal
  BY DEF ReportedStatus, Terminal, Manifest
<1>3. m.seq \in Nat /\ m.seq + 1 \in Nat \ {0}
  BY DEF Manifest
<1>4. c.source \in [Files -> SourceCheckpoint] /\ c.terminals \subseteq Terminal
  BY DEF Checkpoint
<1> DEFINE src == IF IsTerminal(m) THEN c.source ELSE [c.source EXCEPT ![m.file] = Collected(m)]
           ter == IF IsTerminal(m) THEN c.terminals \cup {ReportedStatus(m)} ELSE c.terminals
<1>5. src \in [Files -> SourceCheckpoint]
      /\ \A f \in Files : src[f] = IF ~IsTerminal(m) /\ f = m.file THEN Collected(m) ELSE c.source[f]
  BY <1>1, <1>4
<1>6. ter \in SUBSET Terminal
  BY <1>2, <1>4
<1>7. Advance(c, m) = [saved |-> TRUE, next |-> m.seq + 1, source |-> src, terminals |-> ter]
  BY DEF Advance
<1>8. ter = IF IsTerminal(m) THEN c.terminals \cup {ReportedStatus(m)} ELSE c.terminals
  OBVIOUS
<1> HIDE DEF src, ter
<1>9. Advance(c, m) \in Checkpoint
  BY <1>3, <1>5, <1>6, <1>7 DEF Checkpoint
<1> QED BY <1>5, <1>7, <1>8, <1>9

LEMMA SourceSet ==
    ASSUME NEW c \in Checkpoint, NEW g \in Files, NEW s \in SourceCheckpoint
    PROVE  LET d == [c EXCEPT !.saved = TRUE, !.source[g] = s]
           IN  /\ d \in Checkpoint /\ d.saved /\ d.next = c.next /\ d.terminals = c.terminals
               /\ \A f \in Files : d.source[f] = IF f = g THEN s ELSE c.source[f]
BY DEF Checkpoint

LEMMA ReboundEffect ==
    ASSUME NEW c \in Checkpoint, NEW m \in Manifest, m.file \in Files
    PROVE  LET d == Rebound(c, m)
           IN  /\ d \in Checkpoint /\ d.saved /\ d.next = c.next /\ d.terminals = c.terminals
               /\ \A f \in Files : /\ d.source[f].prefix = c.source[f].prefix
                                   /\ d.source[f].known = c.source[f].known
               /\ \A f \in Files : f # m.file => d.source[f] = c.source[f]
               /\ d.source[m.file].id = m.id
<1> DEFINE s == [c.source[m.file] EXCEPT !.id = m.id, !.baseline = FALSE]
<1>1. c.source[m.file] \in SourceCheckpoint /\ m.id \in {0, 1}
  BY DEF Checkpoint, Manifest
<1>2. /\ s \in SourceCheckpoint /\ s.prefix = c.source[m.file].prefix /\ s.known = c.source[m.file].known
      /\ s.id = m.id
  BY <1>1 DEF SourceCheckpoint
<1>3. Rebound(c, m) = [c EXCEPT !.saved = TRUE, !.source[m.file] = s]
  BY DEF Rebound
<1> HIDE DEF s
<1>4. LET d == [c EXCEPT !.saved = TRUE, !.source[m.file] = s]
      IN  /\ d \in Checkpoint /\ d.saved /\ d.next = c.next /\ d.terminals = c.terminals
          /\ \A f \in Files : d.source[f] = IF f = m.file THEN s ELSE c.source[f]
  BY <1>2, SourceSet
<1> DEFINE d == Rebound(c, m)
<1>5. /\ d \in Checkpoint /\ d.saved /\ d.next = c.next /\ d.terminals = c.terminals
      /\ \A f \in Files : d.source[f] = IF f = m.file THEN s ELSE c.source[f]
  BY <1>3, <1>4
<1> HIDE DEF d
<1>6. /\ d \in Checkpoint /\ d.saved /\ d.next = c.next /\ d.terminals = c.terminals
      /\ \A f \in Files : d.source[f].prefix = c.source[f].prefix /\ d.source[f].known = c.source[f].known
      /\ \A f \in Files : f # m.file => d.source[f] = c.source[f]
      /\ d.source[m.file].id = m.id
  BY <1>2, <1>5
<1> QED BY <1>6 DEF d

LEMMA SkippedEffect ==
    ASSUME NEW c \in Checkpoint, NEW m \in Manifest, m.file \in Files
    PROVE  LET d == Skipped(c, m)
           IN  /\ d \in Checkpoint /\ d.saved /\ d.next = c.next /\ d.terminals = c.terminals
               /\ \A f \in Files : f # m.file => d.source[f] = c.source[f]
               /\ d.source[m.file].prefix = m.end /\ d.source[m.file].known
<1> DEFINE s == [c.source[m.file] EXCEPT !.known = TRUE, !.id = m.id, !.prefix = m.end, !.baseline = FALSE]
<1>1. c.source[m.file] \in SourceCheckpoint /\ m.id \in {0, 1} /\ m.end \in Seq(Tokens)
  BY DEF Checkpoint, Manifest
<1>2. s \in SourceCheckpoint /\ s.prefix = m.end /\ s.known
  BY <1>1 DEF SourceCheckpoint
<1>3. Skipped(c, m) = [c EXCEPT !.saved = TRUE, !.source[m.file] = s]
  BY DEF Skipped
<1> HIDE DEF s
<1>4. LET d == [c EXCEPT !.saved = TRUE, !.source[m.file] = s]
      IN  /\ d \in Checkpoint /\ d.saved /\ d.next = c.next /\ d.terminals = c.terminals
          /\ \A f \in Files : d.source[f] = IF f = m.file THEN s ELSE c.source[f]
  BY <1>2, SourceSet
<1> DEFINE d == Skipped(c, m)
<1>5. /\ d \in Checkpoint /\ d.saved /\ d.next = c.next /\ d.terminals = c.terminals
      /\ \A f \in Files : d.source[f] = IF f = m.file THEN s ELSE c.source[f]
  BY <1>3, <1>4
<1> HIDE DEF d
<1>6. /\ d \in Checkpoint /\ d.saved /\ d.next = c.next /\ d.terminals = c.terminals
      /\ \A f \in Files : f # m.file => d.source[f] = c.source[f]
      /\ d.source[m.file].prefix = m.end /\ d.source[m.file].known
  BY <1>2, <1>5
<1> QED BY <1>6 DEF d

LEMMA BaselinedEffect ==
    ASSUME TypeOK
    PROVE  /\ Baselined \in Checkpoint /\ Baselined.saved
           /\ Baselined.next = run.mem.next /\ Baselined.terminals = run.mem.terminals
           /\ \A f \in Files : Baselined.source[f] = IF file[f].there THEN BaselineSource(f) ELSE NoSource
           /\ \A f \in Files : /\ BaselineSource(f).known
                               /\ BaselineSource(f).prefix = SubSeq(file[f].data, 1, LastNewline(file[f].data))
                               /\ BaselineSource(f).prefix \in Seq(Tokens)
<1>1. run.mem \in Checkpoint /\ run.mem.next \in Nat \ {0}
  BY DEF TypeOK, Process, Checkpoint
<1>2. ASSUME NEW f \in Files
      PROVE  BaselineSource(f) \in SourceCheckpoint /\ BaselineSource(f).prefix \in Seq(Tokens)
  <2>1. file[f].data \in Seq(Tokens) /\ file[f].id \in {0, 1}
    BY DEF TypeOK, History
  <2>2. SubSeq(file[f].data, 1, LastNewline(file[f].data)) \in Seq(Tokens)
    BY <2>1, LastNewlineIn, CutSeq
  <2>3. run.mem.next - 1 \in Nat
    BY <1>1
  <2> QED BY <2>1, <2>2, <2>3 DEF BaselineSource, SourceCheckpoint, Stamps
<1> DEFINE src == [f \in Files |-> IF file[f].there THEN BaselineSource(f) ELSE NoSource]
<1>3. src \in [Files -> SourceCheckpoint]
  BY <1>2, ResetsType
<1>4. \A f \in Files : src[f] = IF file[f].there THEN BaselineSource(f) ELSE NoSource
  OBVIOUS
<1>5. Baselined = [run.mem EXCEPT !.saved = TRUE, !.source = src]
  BY DEF Baselined
<1> HIDE DEF src
<1>6. Baselined \in Checkpoint /\ Baselined.saved /\ Baselined.source = src
      /\ Baselined.next = run.mem.next /\ Baselined.terminals = run.mem.terminals
  BY <1>1, <1>3, <1>5 DEF Checkpoint
<1>7. \A f \in Files : BaselineSource(f).known
                       /\ BaselineSource(f).prefix = SubSeq(file[f].data, 1, LastNewline(file[f].data))
  BY DEF BaselineSource
<1> QED BY <1>2, <1>4, <1>6, <1>7

\* The error of a call ends the process, or is handed on to finishCancelled, which
\* goes on with what is in memory.
GaveUp(r, s) ==
    \/ s = Down
    \/ /\ cancelled /\ r.phase \in {"start", "watch", "final"}
       /\ s.pc = "await" /\ s.phase = "stop"
       /\ s.mem = r.mem /\ s.chunk = r.chunk /\ s.ret = r.ret /\ s.todo = r.todo /\ s.completed = r.completed

GaveUpWith(c) ==
    \/ run' = Down
    \/ /\ cancelled /\ run.phase \in {"start", "watch", "final"}
       /\ run'.pc = "await" /\ run'.phase = "stop" /\ run'.mem = c
       /\ run'.chunk = run.chunk /\ run'.ret = run.ret /\ run'.todo = run.todo /\ run'.completed = run.completed

LEMMA FailedEffect ==
    ASSUME NEW r \in Process
    PROVE  Failed(r) \in Process /\ GaveUp(r, Failed(r))
<1>1. CASE cancelled /\ r.phase \in {"start", "watch", "final"}
  <2> DEFINE s == [r EXCEPT !.pc = "await", !.phase = "stop"]
  <2>1. /\ s \in Process /\ s.pc = "await" /\ s.phase = "stop"
        /\ s.mem = r.mem /\ s.chunk = r.chunk /\ s.ret = r.ret /\ s.todo = r.todo /\ s.completed = r.completed
    BY DEF Process
  <2>2. Failed(r) = s
    BY <1>1 DEF Failed
  <2> HIDE DEF s
  <2> QED BY <1>1, <2>1, <2>2 DEF GaveUp
<1>2. CASE ~(cancelled /\ r.phase \in {"start", "watch", "final"})
  BY <1>2, ResetsType DEF Failed, GaveUp
<1> QED BY <1>1, <1>2

LEMMA ReturnEffect ==
    ASSUME NEW r \in Process
    PROVE  /\ Return(r) \in Process
           /\ \/ r.ret = "status" /\ r.chunk.obs = CancelObs /\ Return(r) = Down
              \/ /\ Return(r).phase = r.phase /\ Return(r).mem = r.mem /\ Return(r).chunk = r.chunk
                 /\ Return(r).ret = r.ret /\ Return(r).completed = r.completed
                 /\ r.ret = "replay" /\ r.phase = "start" => Return(r).pc = "ready"
                 /\ r.ret = "replay" /\ r.phase = "stop" => Return(r).pc = "drain"
                 /\ r.ret = "drain" => Return(r).pc = "read" /\ Return(r).todo = r.todo \ {r.chunk.file}
                 /\ r.ret = "status" => Return(r).pc = "done" /\ r.chunk.obs # CancelObs
<1>1. CASE r.ret = "replay" /\ r.phase = "start"
  BY <1>1 DEF Return, Process
<1>2. CASE r.ret = "replay" /\ r.phase = "stop"
  BY <1>2 DEF Return, Process
<1>3. CASE r.ret = "drain"
  BY <1>3 DEF Return, Process
<1>4. CASE r.ret = "status" /\ r.chunk.obs = CancelObs
  BY <1>4, ResetsType DEF Return
<1>5. CASE r.ret = "status" /\ r.chunk.obs # CancelObs
  BY <1>5 DEF Return, Process
<1>6. CASE r.ret = "replay" /\ r.phase \notin {"start", "stop"}
  BY <1>6 DEF Return, Process
<1> QED BY <1>1, <1>2, <1>3, <1>4, <1>5, <1>6 DEF Process

-----------------------------------------------------------------------------
(* What the steps of the process do to it *)

\* The steps that neither touch the disk nor what is in memory of it.
Light ==
    \/ IOFails \/ PublishReady \/ Poll \/ Sleep \/ DrainStart \/ DrainDone
    \/ Submit \/ Delivered \/ AttemptFails \/ DeliveryCancelled \/ PublishDone \/ Await \/ Recheck

Holds(r, s) == s.mem = r.mem /\ s.chunk = r.chunk /\ s.ret = r.ret
Goes(pc, phase, todo, completed) ==
    /\ Holds(run, run')
    /\ run'.pc = pc /\ run'.phase = phase /\ run'.todo = todo /\ run'.completed = completed
Went(pc) == Goes(pc, run.phase, run.todo, run.completed)

LightMoves ==
    \/ GaveUp(run, run')
    \/ run.pc = "ready" /\ Went("poll")
    \/ run.pc \in {"poll", "polled"} /\ Over /\ Goes("drain", "final", run.todo, run.completed)
    \/ run.pc = "poll" /\ Goes("drain", "watch", run.todo, run.completed)
    \/ run.pc = "polled" /\ Went("sleep")
    \/ run.pc = "sleep" /\ Went("poll")
    \/ run.pc = "drain" /\ Goes("read", run.phase, {f \in Files : file[f].there}, run.completed)
    \/ run.pc = "read" /\ run.todo = {} /\ run.phase = "watch" /\ Went("polled")
    \/ run.pc = "read" /\ run.todo = {} /\ run.phase = "stop" /\ ~run.completed /\ Went("recheck")
    \/ run.pc = "read" /\ run.todo = {} /\ run.phase # "watch" /\ (run.phase = "stop" => run.completed) /\ Went("status")
    \/ run.pc \in {"deliver", "final"} /\ Went("deliver")
    \/ run.pc = "deliver" /\ Went("final")
    \/ run.pc = "final" /\ run.chunk \in table /\ Went("save")
    \/ run.pc = "await" /\ Goes("replay", run.phase, run.todo, Over)
    \/ run.pc = "recheck" /\ Over /\ Goes("drain", run.phase, run.todo, TRUE)
    \/ run.pc = "recheck" /\ Went("status")

LEMMA LightEffect ==
    ASSUME TypeOK, Light
    PROVE  /\ run' \in Process /\ LightMoves
           /\ UNCHANGED <<file, base, completion, expired, ckpt, pending, table, cancelled, attempt>>
           /\ queued' = queued \/ (run.pc = "deliver" /\ queued' = queued \cup {run.chunk})
           /\ ready' \in BOOLEAN /\ (ready' = ready \/ run.pc = "ready")
           /\ done' \in BOOLEAN /\ (done' = done \/ run.pc = "done")
<1>0. /\ run \in Process /\ Failed(run) \in Process /\ GaveUp(run, Failed(run))
      /\ Down \in Process /\ GaveUp(run, Down) /\ ready \in BOOLEAN /\ done \in BOOLEAN
  BY FailedEffect, ResetsType DEF TypeOK, GaveUp
<1>1. CASE IOFails
  <2>1. run' \in {Failed(run), Down}
    BY <1>1 DEF IOFails
  <2>2. UNCHANGED <<file, base, completion, expired, ckpt, pending, table, cancelled, attempt, queued>>
    BY <1>1 DEF IOFails, Fault, files, sink, disk
  <2>3. ready' \in BOOLEAN /\ (ready' = ready \/ run.pc = "ready") /\ done' \in BOOLEAN /\ (done' = done \/ run.pc = "done")
    BY <1>0, <1>1 DEF IOFails
  <2> QED BY <1>0, <2>1, <2>2, <2>3 DEF LightMoves
<1>2. CASE PublishReady
  <2>1. run' \in Process /\ run.pc = "ready" /\ Went("poll")
    BY <1>0, <1>2 DEF PublishReady, Process, Went, Goes, Holds
  <2> QED BY <1>0, <1>2, <2>1 DEF PublishReady, LightMoves, files, disk, sink, budget
<1>3. CASE Poll
  <2>1. CASE Over
    <3>1. run' \in Process /\ run.pc \in {"poll", "polled"} /\ Goes("drain", "final", run.todo, run.completed)
      BY <1>0, <1>3, <2>1 DEF Poll, FinishCompleted, Process, Goes, Holds
    <3> QED BY <1>0, <1>3, <2>1, <3>1 DEF Poll, LightMoves, files, sentinels, disk, sink, budget
  <2>2. CASE ~Over /\ run.pc = "poll"
    <3>1. run' \in Process /\ Goes("drain", "watch", run.todo, run.completed)
      BY <1>0, <1>3, <2>2 DEF Poll, Process, Goes, Holds
    <3> QED BY <1>0, <1>3, <2>2, <3>1 DEF Poll, LightMoves, files, sentinels, disk, sink, budget
  <2>3. CASE ~Over /\ run.pc = "polled"
    <3>1. run' \in Process /\ Went("sleep")
      BY <1>0, <1>3, <2>3 DEF Poll, Process, Went, Goes, Holds
    <3> QED BY <1>0, <1>3, <2>3, <3>1 DEF Poll, LightMoves, files, sentinels, disk, sink, budget
  <2> QED BY <1>3, <2>1, <2>2, <2>3 DEF Poll
<1>4. CASE Sleep
  <2>1. run.pc = "sleep" /\ (run' = Failed(run) \/ (run' \in Process /\ Went("poll")))
    BY <1>0, <1>4 DEF Sleep, Process, Went, Goes, Holds
  <2> QED BY <1>0, <1>4, <2>1 DEF Sleep, LightMoves, files, sentinels, disk, sink, budget
<1>5. CASE DrainStart
  <2>1. run.pc = "drain" /\ (\/ run' = Failed(run)
                             \/ run' = [run EXCEPT !.pc = "read", !.todo = {f \in Files : file[f].there}])
    BY <1>5 DEF DrainStart
  <2> DEFINE T == {f \in Files : file[f].there}
  <2>2. T \subseteq Files
    OBVIOUS
  <2>a. run.pc = "drain" /\ (run' = Failed(run) \/ run' = [run EXCEPT !.pc = "read", !.todo = T])
    BY <2>1
  <2> HIDE DEF T
  <2>3. run' = Failed(run) \/ (run' \in Process /\ Goes("read", run.phase, T, run.completed))
    BY <1>0, <2>2, <2>a DEF Process, Goes, Holds
  <2>4. run' \in Process /\ LightMoves
    BY <1>0, <2>a, <2>3 DEF LightMoves, T
  <2> QED BY <1>0, <1>5, <2>4 DEF DrainStart, files, sentinels, disk, sink, budget
<1>6. CASE DrainDone
  <2>1. run.pc = "read" /\ run.todo = {} /\ run.phase \in {"start", "watch", "final", "stop"}
    BY <1>0, <1>6 DEF DrainDone, Process
  <2>2. run' \in Process /\ (run.phase = "watch" => Went("polled"))
        /\ (run.phase = "stop" /\ ~run.completed => Went("recheck"))
        /\ (run.phase # "watch" /\ (run.phase = "stop" => run.completed) => Went("status"))
    BY <1>0, <1>6 DEF DrainDone, Process, Went, Goes, Holds
  <2>3. LightMoves
    BY <2>1, <2>2 DEF LightMoves
  <2> QED BY <1>0, <1>6, <2>2, <2>3 DEF DrainDone, files, sentinels, disk, sink, budget
<1>7. CASE Submit
  <2>1. run' \in Process /\ run.pc = "deliver" /\ Went("final")
    BY <1>0, <1>7 DEF Submit, Process, Went, Goes, Holds
  <2> QED BY <1>0, <1>7, <2>1 DEF Submit, LightMoves, files, sentinels, disk, budget
<1>8. CASE Delivered
  <2>1. run' \in Process /\ run.pc = "final" /\ run.chunk \in table /\ Went("save")
    BY <1>0, <1>8 DEF Delivered, Process, Went, Goes, Holds
  <2> QED BY <1>0, <1>8, <2>1 DEF Delivered, LightMoves, files, sentinels, disk, sink, budget
<1>9. CASE AttemptFails
  <2>1. run.pc \in {"deliver", "final"} /\ (run' = Failed(run) \/ (run' \in Process /\ Went("deliver")))
    <3> DEFINE n == run.tries + 1
    <3>1. n \in Nat
      BY <1>0 DEF Process
    <3>2. run.pc \in {"deliver", "final"} /\ (run' = Failed(run) \/ run' = [run EXCEPT !.pc = "deliver", !.tries = n])
      BY <1>9 DEF AttemptFails
    <3> HIDE DEF n
    <3> QED BY <1>0, <3>1, <3>2 DEF Process, Went, Goes, Holds
  <2> QED BY <1>0, <1>9, <2>1 DEF AttemptFails, Fault, LightMoves, files, sentinels, disk, sink
<1>10. CASE DeliveryCancelled
  BY <1>0, <1>10 DEF DeliveryCancelled, LightMoves, files, sentinels, disk, sink, budget
<1>11. CASE PublishDone
  BY <1>0, <1>11 DEF PublishDone, LightMoves, files, disk, sink, budget
<1>12. CASE Await
  <2>1. Over \in BOOLEAN
    BY DEF Over
  <2>2. run' \in Process /\ run.pc = "await" /\ Goes("replay", run.phase, run.todo, Over)
    BY <1>0, <1>12, <2>1 DEF Await, Process, Goes, Holds
  <2> QED BY <1>0, <1>12, <2>2 DEF Await, LightMoves, files, sentinels, disk, sink, budget
<1>13. CASE Recheck
  <2>1. run.pc = "recheck" /\ run' \in Process
        /\ (\/ Over /\ Goes("drain", run.phase, run.todo, TRUE)
            \/ Went("status"))
    BY <1>0, <1>13 DEF Recheck, Process, Went, Goes, Holds
  <2> QED BY <1>0, <1>13, <2>1 DEF Recheck, LightMoves, files, sentinels, disk, sink, budget
<1> QED BY <1>1, <1>2, <1>3, <1>4, <1>5, <1>6, <1>7, <1>8, <1>9, <1>10, <1>11, <1>12, <1>13 DEF Light

LEMMA StartEffect ==
    ASSUME TypeOK, Start
    PROVE  /\ run.pc = "down" /\ run' \in Process /\ cancelled' = FALSE
           /\ run'.pc = "replay" /\ run'.phase = "start" /\ run'.mem = ckpt /\ ~run'.completed
           /\ UNCHANGED <<file, base, completion, ready, done, expired, ckpt, pending, queued, table, attempt>>
<1>1. Down \in Process /\ ckpt \in Checkpoint /\ ~Down.completed /\ Down.phase = "start"
  BY ResetsType DEF TypeOK, Down
<1>2. run' = [Down EXCEPT !.pc = "replay", !.mem = ckpt]
  BY DEF Start
<1>3. /\ run' \in Process /\ run'.pc = "replay" /\ run'.phase = "start" /\ run'.mem = ckpt /\ ~run'.completed
  BY <1>1, <1>2 DEF Process
<1> QED BY <1>3 DEF Start, files, sentinels, disk, sink, budget

LEMMA ReplayEffect ==
    ASSUME TypeOK, Replay
    PROVE  /\ run.pc = "replay" /\ run' \in Process
           /\ UNCHANGED <<file, base, completion, ready, done, expired, ckpt, queued, table, cancelled, attempt>>
           /\ \/ pending' = pending /\ GaveUp(run, run')
              \/ /\ pending' = {} /\ \A m \in pending : Acknowledges(run.mem, m) /\ m.seq < run.mem.next
                 /\ run'.mem = run.mem /\ run'.phase = run.phase /\ run'.completed = run.completed
                 /\ \/ run'.pc = "baseline" /\ run.phase = "start" /\ FirstStart(run.mem)
                    \/ run'.pc = "ready" /\ run.phase = "start" /\ ~(FirstStart(run.mem) /\ pending = {})
                    \/ run'.pc = "drain" /\ run.phase = "stop"
                    \/ run.phase \notin {"start", "stop"}
              \/ \E m \in pending :
                    /\ Follows(run.mem, m) /\ pending' = pending
                    /\ run'.pc = "deliver" /\ run'.chunk = m /\ run'.ret = "replay"
                    /\ run'.mem = run.mem /\ run'.phase = run.phase /\ run'.completed = run.completed
<1>0. run.pc = "replay" /\ run \in Process /\ run.mem.next \in Nat /\ pending \subseteq Manifest
      /\ UNCHANGED <<file, base, completion, ready, done, expired, ckpt, queued, table, cancelled, attempt>>
  BY DEF TypeOK, Replay, Process, Checkpoint, files, sentinels, sink, budget
<1>1. CASE run' = Failed(run) /\ pending' = pending
  BY <1>0, <1>1, FailedEffect
<1>2. CASE /\ \A m \in pending : m.seq < run.mem.next
           /\ Replayable(run.mem)
           /\ pending' = {}
           /\ run' = IF run.phase = "start" /\ FirstStart(run.mem) /\ pending = {}
                     THEN [run EXCEPT !.pc = "baseline"]
                     ELSE Return([run EXCEPT !.ret = "replay"])
  <2>1. \A m \in pending : Acknowledges(run.mem, m) /\ m.seq < run.mem.next
    BY <1>2 DEF Replayable
  <2>2. CASE run.phase = "start" /\ FirstStart(run.mem) /\ pending = {}
    <3>1. run' = [run EXCEPT !.pc = "baseline"]
      BY <1>2, <2>2
    <3>2. /\ run' \in Process /\ run'.mem = run.mem /\ run'.phase = run.phase /\ run'.completed = run.completed
          /\ run'.pc = "baseline"
      BY <1>0, <3>1 DEF Process
    <3> QED BY <1>0, <1>2, <2>1, <2>2, <3>2
  <2>3. CASE ~(run.phase = "start" /\ FirstStart(run.mem) /\ pending = {})
    <3> DEFINE r == [run EXCEPT !.ret = "replay"]
    <3>1. /\ r \in Process /\ r.ret = "replay" /\ r.mem = run.mem /\ r.phase = run.phase /\ r.completed = run.completed
      BY <1>0 DEF Process
    <3>2. run' = Return(r)
      BY <1>2, <2>3
    <3> HIDE DEF r
    <3>3. /\ run' \in Process /\ run'.mem = run.mem /\ run'.phase = run.phase /\ run'.completed = run.completed
          /\ run.phase = "start" => run'.pc = "ready"
          /\ run.phase = "stop" => run'.pc = "drain"
      BY <3>1, <3>2, ReturnEffect
    <3> QED BY <1>0, <1>2, <2>1, <2>3, <3>3
  <2> QED BY <2>2, <2>3
<1>3. ASSUME NEW m \in pending, Replayable(run.mem), m.seq = run.mem.next, UNCHANGED pending,
             run' = [run EXCEPT !.pc = "deliver", !.chunk = m, !.ret = "replay", !.tries = 1]
      PROVE  /\ run' \in Process /\ Follows(run.mem, m) /\ pending' = pending
             /\ run'.pc = "deliver" /\ run'.chunk = m /\ run'.ret = "replay"
             /\ run'.mem = run.mem /\ run'.phase = run.phase /\ run'.completed = run.completed
  <2>1. Follows(run.mem, m)
    BY <1>0, <1>3 DEF Replayable
  <2>2. m \in Manifest
    BY <1>0
  <2>3. /\ run' \in Process
        /\ run'.pc = "deliver" /\ run'.chunk = m /\ run'.ret = "replay"
        /\ run'.mem = run.mem /\ run'.phase = run.phase /\ run'.completed = run.completed
    BY <1>0, <1>3, <2>2 DEF Process
  <2> QED BY <1>3, <2>1, <2>3
<1>4. \/ run' = Failed(run) /\ pending' = pending
      \/ /\ \A m \in pending : m.seq < run.mem.next
         /\ Replayable(run.mem)
         /\ pending' = {}
         /\ run' = IF run.phase = "start" /\ FirstStart(run.mem) /\ pending = {}
                   THEN [run EXCEPT !.pc = "baseline"]
                   ELSE Return([run EXCEPT !.ret = "replay"])
      \/ \E m \in pending : /\ Replayable(run.mem) /\ m.seq = run.mem.next /\ UNCHANGED pending
                            /\ run' = [run EXCEPT !.pc = "deliver", !.chunk = m, !.ret = "replay", !.tries = 1]
  BY DEF Replay
<1>5. CASE \E m \in pending : /\ Replayable(run.mem) /\ m.seq = run.mem.next /\ UNCHANGED pending
                              /\ run' = [run EXCEPT !.pc = "deliver", !.chunk = m, !.ret = "replay", !.tries = 1]
  BY <1>0, <1>3, <1>5
<1> QED BY <1>1, <1>2, <1>4, <1>5

LEMMA BaselineEffect ==
    ASSUME TypeOK, TakeBaseline
    PROVE  /\ run.pc = "baseline" /\ run' \in Process
           /\ UNCHANGED <<base, completion, ready, done, expired, pending, queued, table, cancelled, attempt>>
           /\ \/ run' = Down /\ ckpt' \in {ckpt, Baselined}
              \/ /\ ckpt' = Baselined /\ run'.mem = Baselined
                 /\ run'.pc = "ready" /\ run'.phase = run.phase /\ run'.completed = run.completed
           /\ file' = [f \in Files |-> [file[f] EXCEPT !.synced = Len(file[f].data)]]
<1>1. run \in Process /\ Baselined \in Checkpoint
  BY BaselinedEffect DEF TypeOK
<1>2. \/ run' = Down /\ ckpt' \in {ckpt, Baselined} /\ attempt' = attempt
      \/ ckpt' = Baselined /\ run' = [run EXCEPT !.pc = "ready", !.mem = Baselined] /\ attempt' = attempt
  BY DEF TakeBaseline, SaveCheckpoint, Fault, budget
<1>3. CASE run' = Down /\ ckpt' \in {ckpt, Baselined} /\ attempt' = attempt
  BY <1>3, ResetsType DEF TakeBaseline, sentinels, sink
<1>4. CASE ckpt' = Baselined /\ run' = [run EXCEPT !.pc = "ready", !.mem = Baselined] /\ attempt' = attempt
  <2>1. /\ run' \in Process /\ run'.mem = Baselined
        /\ run'.pc = "ready" /\ run'.phase = run.phase /\ run'.completed = run.completed
    BY <1>1, <1>4 DEF Process
  <2> QED BY <1>4, <2>1 DEF TakeBaseline, sentinels, sink
<1> QED BY <1>2, <1>3, <1>4

LEMMA NewChunkEffect ==
    ASSUME TypeOK, NEW f \in Files, IsPrefix(run.mem.source[f].prefix, file[f].data), NEW stamp \in Stamps
    PROVE  LET m == NewChunk(f, stamp)
           IN  /\ m \in Manifest /\ m.seq = run.mem.next /\ m.file = f /\ m.id = file[f].id /\ ~IsTerminal(m)
               /\ m.start = run.mem.source[f].prefix
               /\ IsPrefix(m.start, m.end) /\ IsPrefix(m.end, file[f].data)
               /\ run.phase # "watch" => m.end = file[f].data
               /\ Unread(m.end, m.start, TRUE) = NewRows(f)
<1> DEFINE p == run.mem.source[f].prefix
           d == file[f].data
           u == NewRows(f)
           m == NewChunk(f, stamp)
<1>1. p \in Seq(Tokens) /\ d \in Seq(Tokens) /\ run.mem.next \in Nat /\ file[f].id \in {0, 1} /\ IsPrefix(p, d)
  BY DEF TypeOK, History, Process, Checkpoint, SourceCheckpoint
<1>2. /\ u \in Seq(Tokens) /\ p \o u \in Seq(Tokens) /\ IsPrefix(p, p \o u) /\ IsPrefix(p \o u, d)
      /\ run.phase # "watch" => p \o u = d
  <2>1. u = Unread(d, p, run.phase # "watch") /\ (run.phase # "watch") \in BOOLEAN
    BY DEF NewRows
  <2> HIDE DEF u, p, d
  <2> QED BY <1>1, <2>1, UnreadExtends
<1>3. Unread(p \o u, p, TRUE) = u
  BY <1>1, <1>2, UnreadAgain
<1>4. m = [seq |-> run.mem.next, file |-> f, id |-> file[f].id, start |-> p, end |-> p \o u, obs |-> NoObs, stamp |-> stamp]
  BY DEF NewChunk
<1>5. f \in 0..NumFiles /\ NoObs \in Observations
  BY ConstantsAssumption DEF Files, Observations, NoObs
<1> HIDE DEF p, d, u, m
<1>6. m \in Manifest
  BY <1>1, <1>2, <1>4, <1>5 DEF Manifest
<1>7. /\ m.seq = run.mem.next /\ m.file = f /\ m.id = file[f].id /\ m.obs = NoObs /\ m.start = p /\ m.end = p \o u
  BY <1>4
<1> QED BY <1>2, <1>3, <1>6, <1>7 DEF IsTerminal, p, d, u, m

LEMMA ReadEffect ==
    ASSUME TypeOK, Read
    PROVE  LET f == Min(run.todo)
           IN  /\ run.pc = "read" /\ run' \in Process /\ f \in Files /\ f \in run.todo
               /\ UNCHANGED <<base, completion, ready, done, expired, ckpt, pending, queued, table, cancelled, attempt>>
               /\ \/ file' = file /\ GaveUp(run, run')
                  \/ /\ file[f].there /\ IsPrefix(run.mem.source[f].prefix, file[f].data) /\ SyncSource(f)
                     /\ \/ GaveUp(run, run')
                        \/ NewRows(f) = <<>> /\ Goes("read", run.phase, run.todo \ {f}, run.completed)
                        \/ \E stamp \in Stamps :
                              /\ run'.chunk = NewChunk(f, stamp) /\ run'.ret = "drain"
                              /\ run'.mem = run.mem /\ run'.phase = run.phase
                              /\ run'.todo = run.todo /\ run'.completed = run.completed
                              /\ \/ run'.pc = "rebind" /\ Moved(f)
                                 \/ run'.pc = "spool" /\ ~Moved(f) /\ HasEvents(NewRows(f))
                                 \/ /\ run'.pc = "skip" /\ ~Moved(f) /\ ~HasEvents(NewRows(f))
                                    /\ Projects(NewRows(f)) /\ NewRows(f) # <<>>
<1> DEFINE f == Min(run.todo)
<1>0. run \in Process /\ run.todo \subseteq Files /\ run.todo # {} /\ run.pc = "read"
      /\ UNCHANGED <<base, completion, ready, done, expired, ckpt, pending, queued, table, cancelled, attempt>>
  BY DEF TypeOK, Read, Process, sentinels, disk, sink, budget
<1>1. f \in Files /\ f \in run.todo
  BY <1>0, NextFile
<1>2. IF ~file[f].there \/ ~IsPrefix(run.mem.source[f].prefix, file[f].data)
      THEN run' = Failed(run) /\ UNCHANGED file
      ELSE /\ SyncSource(f)
           /\ IF NewRows(f) = <<>>
              THEN run' = [run EXCEPT !.todo = run.todo \ {f}]
              ELSE IF Moved(f) \/ Projects(NewRows(f))
              THEN \E stamp \in Stamps :
                      run' = [run EXCEPT !.chunk = NewChunk(f, stamp), !.ret = "drain",
                                !.pc = IF Moved(f) THEN "rebind"
                                       ELSE IF HasEvents(NewRows(f)) THEN "spool" ELSE "skip"]
              ELSE run' = Failed(run)
  BY DEF Read
<1> HIDE DEF f
<1>3. Failed(run) \in Process /\ GaveUp(run, Failed(run))
  BY <1>0, FailedEffect
<1>4. CASE run' = Failed(run)
  <2>1. \/ file' = file
        \/ file[f].there /\ IsPrefix(run.mem.source[f].prefix, file[f].data) /\ SyncSource(f)
    BY <1>2
  <2> QED BY <1>0, <1>1, <1>3, <1>4, <2>1 DEF f
<1>5. CASE /\ file[f].there /\ IsPrefix(run.mem.source[f].prefix, file[f].data) /\ SyncSource(f)
           /\ NewRows(f) = <<>> /\ run' = [run EXCEPT !.todo = run.todo \ {f}]
  <2>1. run.todo \ {f} \in SUBSET Files
    BY <1>0
  <2>2. run' \in Process /\ Goes("read", run.phase, run.todo \ {f}, run.completed)
    BY <1>0, <1>5, <2>1 DEF Process, Goes, Holds
  <2> QED BY <1>0, <1>1, <1>5, <2>2 DEF f
<1>6. ASSUME file[f].there, IsPrefix(run.mem.source[f].prefix, file[f].data), SyncSource(f),
             NewRows(f) # <<>>, Moved(f) \/ Projects(NewRows(f)), NEW stamp \in Stamps,
             run' = [run EXCEPT !.chunk = NewChunk(f, stamp), !.ret = "drain",
                       !.pc = IF Moved(f) THEN "rebind" ELSE IF HasEvents(NewRows(f)) THEN "spool" ELSE "skip"]
      PROVE  /\ run' \in Process
             /\ run'.chunk = NewChunk(f, stamp) /\ run'.ret = "drain"
             /\ run'.mem = run.mem /\ run'.phase = run.phase
             /\ run'.todo = run.todo /\ run'.completed = run.completed
             /\ \/ run'.pc = "rebind" /\ Moved(f)
                \/ run'.pc = "spool" /\ ~Moved(f) /\ HasEvents(NewRows(f))
                \/ /\ run'.pc = "skip" /\ ~Moved(f) /\ ~HasEvents(NewRows(f))
                   /\ Projects(NewRows(f)) /\ NewRows(f) # <<>>
  <2> DEFINE m == NewChunk(f, stamp)
             pc == IF Moved(f) THEN "rebind" ELSE IF HasEvents(NewRows(f)) THEN "spool" ELSE "skip"
  <2>1. m \in Manifest
    BY <1>1, <1>6, NewChunkEffect
  <2>2. \/ pc = "rebind" /\ Moved(f)
        \/ pc = "spool" /\ ~Moved(f) /\ HasEvents(NewRows(f))
        \/ pc = "skip" /\ ~Moved(f) /\ ~HasEvents(NewRows(f)) /\ Projects(NewRows(f)) /\ NewRows(f) # <<>>
    BY <1>6
  <2>3. run' = [run EXCEPT !.chunk = m, !.ret = "drain", !.pc = pc]
    BY <1>6
  <2>4. pc \in {"rebind", "spool", "skip"}
    BY <2>2
  <2> HIDE DEF m, pc
  <2>5. /\ run' \in Process /\ run'.chunk = m /\ run'.ret = "drain" /\ run'.mem = run.mem /\ run'.phase = run.phase
        /\ run'.todo = run.todo /\ run'.completed = run.completed /\ run'.pc = pc
    BY <1>0, <2>1, <2>3, <2>4 DEF Process
  <2> QED BY <2>2, <2>5 DEF m
<1>7. \/ run' = Failed(run)
      \/ /\ file[f].there /\ IsPrefix(run.mem.source[f].prefix, file[f].data) /\ SyncSource(f)
         /\ NewRows(f) = <<>> /\ run' = [run EXCEPT !.todo = run.todo \ {f}]
      \/ /\ file[f].there /\ IsPrefix(run.mem.source[f].prefix, file[f].data) /\ SyncSource(f)
         /\ NewRows(f) # <<>> /\ (Moved(f) \/ Projects(NewRows(f)))
         /\ \E stamp \in Stamps :
                      run' = [run EXCEPT !.chunk = NewChunk(f, stamp), !.ret = "drain",
                                !.pc = IF Moved(f) THEN "rebind"
                                       ELSE IF HasEvents(NewRows(f)) THEN "spool" ELSE "skip"]
  BY <1>2
<1>8. CASE /\ file[f].there /\ IsPrefix(run.mem.source[f].prefix, file[f].data) /\ SyncSource(f)
           /\ NewRows(f) # <<>> /\ (Moved(f) \/ Projects(NewRows(f)))
           /\ \E stamp \in Stamps :
                      run' = [run EXCEPT !.chunk = NewChunk(f, stamp), !.ret = "drain",
                                !.pc = IF Moved(f) THEN "rebind"
                                       ELSE IF HasEvents(NewRows(f)) THEN "spool" ELSE "skip"]
  BY <1>0, <1>1, <1>6, <1>8 DEF f
<1> QED BY <1>4, <1>5, <1>7, <1>8

\* writeCheckpoints: the new checkpoint c is on disk, or the call has failed.
LEMMA RebindEffect ==
    ASSUME TypeOK, Rebind, run.chunk.file \in Files
    PROVE  LET c == Rebound(run.mem, run.chunk)
           IN  /\ run.pc = "rebind" /\ run' \in Process
               /\ UNCHANGED <<file, base, completion, ready, done, expired, pending, queued, table, cancelled, attempt>>
               /\ \/ ckpt' = c /\ GaveUpWith(c)
                  \/ /\ ckpt' = c /\ run'.mem = c /\ run'.chunk = run.chunk /\ run'.ret = run.ret
                     /\ run'.phase = run.phase /\ run'.todo = run.todo /\ run'.completed = run.completed
                     /\ Projects(ChunkRows)
                     /\ \/ run'.pc = "spool"
                        \/ run'.pc = "skip" /\ ~HasEvents(ChunkRows)
                  \/ ckpt' \in {ckpt, c} /\ GaveUp(run, run')
<1> DEFINE c == Rebound(run.mem, run.chunk)
           r == [run EXCEPT !.mem = c]
<1>1. run \in Process /\ run.mem \in Checkpoint /\ run.chunk \in Manifest
  BY DEF TypeOK, Process
<1>2. c \in Checkpoint
  BY <1>1, ReboundEffect
<1>3. \/ ckpt' = c /\ attempt' = attempt
         /\ run' = IF ~Projects(ChunkRows) THEN Failed(r)
                   ELSE [r EXCEPT !.pc = IF HasEvents(ChunkRows) THEN "spool" ELSE "skip"]
      \/ ckpt' \in {ckpt, c} /\ attempt' = attempt /\ run' = Failed(run)
  BY DEF Rebind, SaveCheckpoint, Fault, budget
<1>4. run.pc = "rebind" /\ UNCHANGED <<file, base, completion, ready, done, expired, pending, queued, table, cancelled>>
  BY DEF Rebind, files, sentinels, sink
<1> HIDE DEF c
<1>5. /\ r \in Process /\ r.mem = c /\ r.chunk = run.chunk /\ r.ret = run.ret
      /\ r.phase = run.phase /\ r.todo = run.todo /\ r.completed = run.completed
  BY <1>1, <1>2 DEF Process
<1> HIDE DEF r
<1>7. CASE ckpt' = c /\ attempt' = attempt /\ ~Projects(ChunkRows) /\ run' = Failed(r)
  BY <1>4, <1>5, <1>7, FailedEffect DEF c, GaveUp, GaveUpWith
<1>8. CASE ckpt' = c /\ attempt' = attempt /\ Projects(ChunkRows)
           /\ run' = [r EXCEPT !.pc = IF HasEvents(ChunkRows) THEN "spool" ELSE "skip"]
  <2> DEFINE pc == IF HasEvents(ChunkRows) THEN "spool" ELSE "skip"
  <2>1. pc = "spool" \/ (pc = "skip" /\ ~HasEvents(ChunkRows))
    OBVIOUS
  <2>2. run' = [r EXCEPT !.pc = pc]
    BY <1>8
  <2> HIDE DEF pc
  <2>3. /\ run' \in Process /\ run'.mem = c /\ run'.chunk = run.chunk /\ run'.ret = run.ret
        /\ run'.phase = run.phase /\ run'.todo = run.todo /\ run'.completed = run.completed /\ run'.pc = pc
    BY <1>5, <2>1, <2>2 DEF Process
  <2> QED BY <1>4, <1>8, <2>1, <2>3 DEF c
<1>9. CASE ckpt' \in {ckpt, c} /\ attempt' = attempt /\ run' = Failed(run)
  BY <1>1, <1>4, <1>9, FailedEffect DEF c
<1> QED BY <1>3, <1>7, <1>8, <1>9

LEMMA SkipEffect ==
    ASSUME TypeOK, Skip, run.chunk.file \in Files, run.ret = "drain"
    PROVE  LET c == Skipped(run.mem, run.chunk)
           IN  /\ run.pc = "skip" /\ run' \in Process
               /\ UNCHANGED <<file, base, completion, ready, done, expired, pending, queued, table, cancelled, attempt>>
               /\ \/ /\ ckpt' = c /\ run'.mem = c /\ run'.chunk = run.chunk /\ run'.ret = run.ret
                     /\ run'.phase = run.phase /\ run'.completed = run.completed
                     /\ run'.todo = run.todo \ {run.chunk.file} /\ run'.pc = "read"
                  \/ ckpt' \in {ckpt, c} /\ GaveUpWith(c)
<1> DEFINE c == Skipped(run.mem, run.chunk)
           r == [run EXCEPT !.mem = c]
<1>1. run \in Process /\ run.mem \in Checkpoint /\ run.chunk \in Manifest
  BY DEF TypeOK, Process
<1>2. c \in Checkpoint
  BY <1>1, SkippedEffect
<1>3. \/ ckpt' = c /\ attempt' = attempt /\ run' = Return(r)
      \/ ckpt' \in {ckpt, c} /\ attempt' = attempt /\ run' = Failed(r)
  BY DEF Skip, SaveCheckpoint, Fault, budget
<1>4. run.pc = "skip" /\ UNCHANGED <<file, base, completion, ready, done, expired, pending, queued, table, cancelled>>
  BY DEF Skip, files, sentinels, sink
<1> HIDE DEF c
<1>5. /\ r \in Process /\ r.mem = c /\ r.chunk = run.chunk /\ r.ret = run.ret
      /\ r.phase = run.phase /\ r.todo = run.todo /\ r.completed = run.completed
  BY <1>1, <1>2 DEF Process
<1> HIDE DEF r
<1>7. CASE ckpt' = c /\ attempt' = attempt /\ run' = Return(r)
  <2>1. /\ run' \in Process /\ run'.mem = c /\ run'.chunk = run.chunk /\ run'.ret = run.ret
        /\ run'.phase = run.phase /\ run'.completed = run.completed
        /\ run'.todo = run.todo \ {run.chunk.file} /\ run'.pc = "read"
    BY <1>5, <1>7, ReturnEffect
  <2> QED BY <1>4, <1>7, <2>1 DEF c
<1>8. CASE ckpt' \in {ckpt, c} /\ attempt' = attempt /\ run' = Failed(r)
  BY <1>4, <1>5, <1>8, FailedEffect DEF c, GaveUp, GaveUpWith
<1> QED BY <1>3, <1>7, <1>8

LEMMA SpoolEffect ==
    ASSUME TypeOK, Spool
    PROVE  /\ run.pc = "spool" /\ run' \in Process
           /\ UNCHANGED <<file, base, completion, ready, done, expired, ckpt, queued, table, cancelled, attempt>>
           /\ \/ pending' = pending \cup {run.chunk} /\ Went("deliver")
              \/ pending' \in {pending, pending \cup {run.chunk}} /\ GaveUp(run, run')
<1>1. run \in Process
  BY DEF TypeOK
<1>2. \/ pending' = pending \cup {run.chunk} /\ run' = [run EXCEPT !.pc = "deliver", !.tries = 1] /\ attempt' = attempt
      \/ pending' \in {pending, pending \cup {run.chunk}} /\ run' = Failed(run) /\ attempt' = attempt
  BY DEF Spool, WritePending, Fault, budget
<1>3. /\ run.pc = "spool"
      /\ UNCHANGED <<file, base, completion, ready, done, expired, ckpt, queued, table, cancelled>>
  BY DEF Spool, files, sentinels, sink
<1>4. CASE pending' = pending \cup {run.chunk} /\ run' = [run EXCEPT !.pc = "deliver", !.tries = 1] /\ attempt' = attempt
  <2>1. run' \in Process /\ Went("deliver")
    BY <1>1, <1>4 DEF Process, Went, Goes, Holds
  <2> QED BY <1>3, <1>4, <2>1
<1>5. CASE pending' \in {pending, pending \cup {run.chunk}} /\ run' = Failed(run) /\ attempt' = attempt
  BY <1>1, <1>3, <1>5, FailedEffect
<1> QED BY <1>2, <1>4, <1>5

LEMMA SaveEffect ==
    ASSUME TypeOK, Save
    PROVE  LET c == Advance(run.mem, run.chunk)
           IN  /\ run.pc = "save" /\ run' \in Process
               /\ UNCHANGED <<file, base, completion, ready, done, expired, pending, queued, table, cancelled, attempt>>
               /\ \/ /\ ckpt' = c /\ run'.mem = c /\ run'.chunk = run.chunk /\ run'.ret = run.ret
                     /\ run'.phase = run.phase /\ run'.completed = run.completed
                     /\ run'.todo = run.todo /\ run'.pc = "remove"
                  \/ ckpt' \in {ckpt, c} /\ GaveUp(run, run')
<1> DEFINE c == Advance(run.mem, run.chunk)
<1>1. run \in Process /\ run.mem \in Checkpoint /\ run.chunk \in Manifest
  BY DEF TypeOK, Process
<1>2. c \in Checkpoint
  BY <1>1, AdvanceEffect
<1>3. \/ ckpt' = c /\ attempt' = attempt /\ run' = [run EXCEPT !.pc = "remove", !.mem = c]
      \/ ckpt' \in {ckpt, c} /\ attempt' = attempt /\ run' = Failed(run)
  BY DEF Save, SaveCheckpoint, Fault, budget
<1>4. run.pc = "save" /\ UNCHANGED <<file, base, completion, ready, done, expired, pending, queued, table, cancelled>>
  BY DEF Save, files, sentinels, sink
<1> HIDE DEF c
<1>5. CASE ckpt' = c /\ attempt' = attempt /\ run' = [run EXCEPT !.pc = "remove", !.mem = c]
  <2>1. /\ run' \in Process /\ run'.mem = c /\ run'.chunk = run.chunk /\ run'.ret = run.ret
        /\ run'.phase = run.phase /\ run'.completed = run.completed
        /\ run'.todo = run.todo /\ run'.pc = "remove"
    BY <1>1, <1>2, <1>5 DEF Process
  <2> QED BY <1>4, <1>5, <2>1 DEF c
<1>6. CASE ckpt' \in {ckpt, c} /\ attempt' = attempt /\ run' = Failed(run)
  BY <1>1, <1>4, <1>6, FailedEffect DEF c
<1> QED BY <1>3, <1>5, <1>6

LEMMA RemoveEffect ==
    ASSUME TypeOK, RemovePending
    PROVE  /\ run.pc = "remove" /\ run' \in Process
           /\ UNCHANGED <<file, base, completion, ready, done, expired, ckpt, queued, table, cancelled, attempt>>
           /\ \/ pending' \in {pending, pending \ {run.chunk}} /\ GaveUp(run, run')
              \/ /\ pending' = pending \ {run.chunk} /\ Holds(run, run')
                 /\ run'.phase = run.phase /\ run'.completed = run.completed
                 /\ run.ret = "replay" /\ run.phase = "start" => run'.pc = "ready"
                 /\ run.ret = "replay" /\ run.phase = "stop" => run'.pc = "drain"
                 /\ run.ret = "drain" => run'.pc = "read" /\ run'.todo = run.todo \ {run.chunk.file}
                 /\ run.ret = "status" => run'.pc = "done" /\ run.chunk.obs # CancelObs
<1>1. run \in Process
  BY DEF TypeOK
<1>2. \/ pending' = pending \ {run.chunk} /\ run' = Return(run) /\ attempt' = attempt
      \/ pending' \in {pending, pending \ {run.chunk}} /\ run' = Failed(run) /\ attempt' = attempt
  BY DEF RemovePending, Fault, budget
<1>3. /\ run.pc = "remove"
      /\ UNCHANGED <<file, base, completion, ready, done, expired, ckpt, queued, table, cancelled>>
  BY DEF RemovePending, files, sentinels, sink
<1>4. CASE pending' = pending \ {run.chunk} /\ run' = Return(run) /\ attempt' = attempt
  BY <1>1, <1>3, <1>4, ReturnEffect DEF GaveUp, Holds
<1>5. CASE pending' \in {pending, pending \ {run.chunk}} /\ run' = Failed(run) /\ attempt' = attempt
  BY <1>1, <1>3, <1>5, FailedEffect
<1> QED BY <1>2, <1>4, <1>5

LEMMA StatusChunkEffect ==
    ASSUME TypeOK, NEW stamp \in Stamps
    PROVE  LET m == StatusChunk(stamp)
           IN  /\ m \in Manifest /\ m.seq = run.mem.next /\ m.obs = StatusObs
               /\ m.file = 0 /\ m.start = <<>> /\ m.end = <<>>
<1>1. StatusObs \in Observations
  BY DEF TypeOK, StatusObs, Observations
<1>2. run.mem.next \in Nat
  BY DEF TypeOK, Process, Checkpoint
<1>3. NoManifest \in Manifest /\ NoManifest.file = 0 /\ NoManifest.start = <<>> /\ NoManifest.end = <<>>
  BY ResetsType DEF NoManifest
<1> QED BY <1>1, <1>2, <1>3 DEF StatusChunk, Manifest

LEMMA StatusEffect ==
    ASSUME TypeOK, PublishStatus
    PROVE  /\ run.pc = "status" /\ run' \in Process
           /\ UNCHANGED <<file, base, completion, ready, done, expired, ckpt, pending, queued, table, cancelled, attempt>>
           /\ \/ run' = Down
              \/ Went("done") /\ StatusObs # CancelObs /\ \E t \in run.mem.terminals : t.obs = StatusObs
              \/ \E stamp \in Stamps :
                    /\ run'.chunk = StatusChunk(stamp) /\ run'.ret = "status" /\ run'.pc = "spool"
                    /\ run'.mem = run.mem /\ run'.phase = run.phase
                    /\ run'.todo = run.todo /\ run'.completed = run.completed
                    /\ \A t \in run.mem.terminals : t.obs # StatusObs
<1>1. run \in Process
  BY DEF TypeOK
<1>2. \/ run' = Down
      \/ run' = [run EXCEPT !.pc = "done"] /\ StatusObs # CancelObs /\ \E t \in run.mem.terminals : t.obs = StatusObs
      \/ /\ \A t \in run.mem.terminals : t.obs # StatusObs
         /\ \E stamp \in Stamps : run' = [run EXCEPT !.pc = "spool", !.chunk = StatusChunk(stamp), !.ret = "status"]
  BY DEF PublishStatus, Stamps
<1>3. /\ run.pc = "status"
      /\ UNCHANGED <<file, base, completion, ready, done, expired, ckpt, pending, queued, table, cancelled, attempt>>
  BY DEF PublishStatus, files, sentinels, disk, sink, budget
<1>4. CASE run' = Down
  BY <1>3, <1>4, ResetsType
<1>5. CASE run' = [run EXCEPT !.pc = "done"] /\ StatusObs # CancelObs /\ \E t \in run.mem.terminals : t.obs = StatusObs
  <2>1. run' \in Process /\ Went("done")
    BY <1>1, <1>5 DEF Process, Went, Goes, Holds
  <2> QED BY <1>3, <1>5, <2>1
<1>6. ASSUME NEW stamp \in Stamps, run' = [run EXCEPT !.pc = "spool", !.chunk = StatusChunk(stamp), !.ret = "status"]
      PROVE  /\ run' \in Process
             /\ run'.chunk = StatusChunk(stamp) /\ run'.ret = "status" /\ run'.pc = "spool"
             /\ run'.mem = run.mem /\ run'.phase = run.phase
             /\ run'.todo = run.todo /\ run'.completed = run.completed
  <2> DEFINE m == StatusChunk(stamp)
  <2>1. m \in Manifest /\ run' = [run EXCEPT !.pc = "spool", !.chunk = m, !.ret = "status"]
    BY <1>6, StatusChunkEffect
  <2> HIDE DEF m
  <2>2. /\ run' \in Process
        /\ run'.chunk = m /\ run'.ret = "status" /\ run'.pc = "spool"
        /\ run'.mem = run.mem /\ run'.phase = run.phase
        /\ run'.todo = run.todo /\ run'.completed = run.completed
    BY <1>1, <2>1 DEF Process
  <2> QED BY <2>2 DEF m
<1>7. CASE /\ \A t \in run.mem.terminals : t.obs # StatusObs
           /\ \E stamp \in Stamps : run' = [run EXCEPT !.pc = "spool", !.chunk = StatusChunk(stamp), !.ret = "status"]
  BY <1>3, <1>6, <1>7
<1> QED BY <1>2, <1>4, <1>5, <1>7

\* The steps beside the process: they leave its disk and, but for a crash, itself alone.
Beside ==
    \/ \E m \in queued : Ingest(m)
    \/ Signal \/ Complete \/ Expire \/ NewAttempt
    \/ \E f \in Files : Replace(f) \/ \E token \in Tokens : Write(f, token)

LEMMA BesideEffect ==
    ASSUME Beside
    PROVE  UNCHANGED <<base, ckpt, pending, run>>
BY DEF Beside, Ingest, Signal, Complete, Expire, NewAttempt, Replace, Write, files, disk

\* A step of the system is one of these.
LEMMA Steps ==
    ASSUME [Next]_vars
    PROVE  \/ Light \/ Start \/ Replay \/ TakeBaseline \/ Read \/ Rebind \/ Skip
           \/ Spool \/ Save \/ RemovePending \/ PublishStatus
           \/ Beside \/ Crash \/ UNCHANGED vars
BY DEF Next, CollectorStep, Environment, Light, Beside

-----------------------------------------------------------------------------
(* Control: where the process can be, and what is in the spool then *)

\* A chunk is under way; it is in the spool.
InHand == {"rebind", "skip", "spool", "deliver", "final", "save", "remove"}
Spooled == {"deliver", "final", "save", "remove"}

\* Which caller is at which step.
Phases ==
    /\ run.pc = "down" => run = Down
    /\ run.pc = "replay" => run.phase \in {"start", "stop"}
    /\ run.pc \in {"baseline", "ready"} => run.phase = "start"
    /\ run.pc = "poll" => run.phase \in {"start", "watch"}
    /\ run.pc \in {"polled", "sleep"} => run.phase = "watch"
    /\ run.pc \in {"drain", "read"} => run.phase \in {"watch", "final", "stop"}
    /\ run.pc \in {"status", "done"} => run.phase \in {"final", "stop"}
    /\ run.pc \in {"recheck", "await"} => run.phase = "stop"
    /\ run.pc \in {"rebind", "skip"} => run.ret = "drain"
    /\ run.pc \in InHand =>
          \/ run.ret = "replay" /\ run.phase \in {"start", "stop"} /\ run.pc # "spool"
          \/ run.ret = "drain" /\ run.phase \in {"watch", "final", "stop"} /\ ~IsTerminal(run.chunk)
          \/ run.ret = "status" /\ run.phase \in {"final", "stop"} /\ IsTerminal(run.chunk)

\* The status of the run is asked for at the end only, when there is one.
Finishing == run.phase = "final" \/ (run.phase = "stop" /\ run.completed)
Ending ==
    /\ run.phase = "final" => Over
    /\ run.completed => run.phase = "stop" /\ Over
    /\ run.pc = "recheck" => ~run.completed

\* The chunks that exist anywhere.
Hand == IF run.pc \in InHand THEN {run.chunk} ELSE {}
Known == pending \cup queued \cup table \cup Hand

\* A terminal chunk covers no history, another one a piece of its own.
Shaped(m) ==
    IF IsTerminal(m) THEN m.file = 0 /\ m.start = <<>> /\ m.end = <<>>
    ELSE m.file \in Files /\ IsPrefix(m.start, m.end)
Shapes == \A m \in Known : Shaped(m)

\* The spool holds one chunk at most: the one under way, or what a crash or a failed
\* write has left until the next replay.
SpoolHeld ==
    /\ \A m, n \in pending : m = n
    /\ run.pc \notin Spooled \cup {"down", "replay", "await"} => pending = {}
    /\ run.pc \in Spooled => pending = {run.chunk}

ControlInv == TypeOK /\ Phases /\ Ending /\ Shapes /\ SpoolHeld

LEMMA ControlInit == Init => ControlInv
<1> SUFFICES ASSUME Init PROVE ControlInv
  OBVIOUS
<1>1. run = Down /\ pending = {} /\ queued = {} /\ table = {} /\ ckpt = NoCheckpoint /\ cancelled = FALSE
  BY DEF Init
<1>2. Down.pc = "down" /\ Down.phase = "start" /\ ~Down.completed
  BY DEF Down
<1>3. Phases /\ Ending /\ Shapes /\ SpoolHeld
  BY <1>1, <1>2 DEF Phases, Ending, Finishing, Shapes, Known, Hand, SpoolHeld, InHand, Spooled
<1>4. TypeOK
  <2>1. file \in [Files -> {[there |-> d # <<>>, id |-> 0, data |-> d, synced |-> Len(d)] : d \in Startup}]
    BY DEF Init
  <2>2. ASSUME NEW d \in Startup
        PROVE  [there |-> d # <<>>, id |-> 0, data |-> d, synced |-> Len(d)] \in
                  History
    <3>1. d \in Seq(Tokens) /\ Len(d) \in Nat /\ (d # <<>>) \in BOOLEAN
      BY ConstantsAssumption, LenProperties
    <3> QED BY <3>1 DEF History
  <2>3. file \in [Files -> History]
    BY <2>1, <2>2
  <2>4. \A f \in Files : file[f].synced <= Len(file[f].data)
    <3> TAKE f \in Files
    <3>1. PICK d \in Startup : file[f] = [there |-> d # <<>>, id |-> 0, data |-> d, synced |-> Len(d)]
      BY <2>1
    <3>2. Len(d) \in Nat
      BY ConstantsAssumption, LenProperties
    <3> QED BY <3>1, <3>2
  <2>5. base \in [Files -> Nat]
    <3>1. \A f \in Files : file[f].data \in Seq(Tokens)
      BY <2>3 DEF History
    <3>2. \A f \in Files : LastNewline(file[f].data) \in Nat
      BY <3>1, LastNewlineIn
    <3>3. base = [f \in Files |-> IF Baseline THEN LastNewline(file[f].data) ELSE 0]
      BY DEF Init
    <3> QED BY <3>2, <3>3
  <2>6. attempt \in 1..MaxRuns /\ completion \in 0..MaxRuns
    BY ConstantsAssumption DEF Init, NoObs
  <2> QED BY <1>1, <2>3, <2>4, <2>5, <2>6, ResetsType DEF TypeOK, Init
<1> QED BY <1>3, <1>4 DEF ControlInv

LEMMA ChunkFile ==
    ASSUME Phases, Shapes, run.pc \in InHand, run.ret = "drain"
    PROVE  run.chunk.file \in Files /\ ~IsTerminal(run.chunk) /\ IsPrefix(run.chunk.start, run.chunk.end)
BY DEF Phases, Shapes, Shaped, Known, Hand

\* What happens to a history: it is appended to, synced, moved away, or cut behind
\* what is synced.
LEMMA FileStep ==
    ASSUME TypeOK, Phases, [Next]_vars, NEW f \in Files
    PROVE  /\ file'[f] \in History
           /\ file[f].synced <= file'[f].synced /\ file'[f].synced <= Len(file'[f].data)
           /\ \/ file'[f].data = file[f].data /\ (file'[f].there => file[f].there)
              \/ /\ \E token \in Tokens : file'[f].data = Append(file[f].data, token)
                 /\ ~Over /\ (Baseline => ready) /\ (file[f].there \/ file[f].data = <<>>)
              \/ /\ run.pc # "down" /\ run' = Down /\ file'[f].there = file[f].there
                 /\ \E n \in file[f].synced..Len(file[f].data) : file'[f].data = SubSeq(file[f].data, 1, n)
<1>0. /\ file \in [Files -> History] /\ file[f] \in History /\ file[f].synced <= Len(file[f].data)
      /\ Len(file[f].data) \in Nat /\ file[f].synced \in Nat /\ file[f].data \in Seq(Tokens)
  BY LenProperties DEF TypeOK, History
<1>1. CASE file'[f] = file[f]
  BY <1>0, <1>1
<1>2. CASE file'[f] = [file[f] EXCEPT !.synced = Len(file[f].data)]
  <2>1. /\ file'[f] \in History /\ file'[f].synced = Len(file[f].data)
        /\ file'[f].data = file[f].data /\ file'[f].there = file[f].there
    BY <1>0, <1>2 DEF History
  <2> QED BY <1>0, <2>1
<1>3. CASE Crash
  <2>1. PICK cut \in [Files -> 0..MaxLength] :
          /\ \A g \in Files : cut[g] \in file[g].synced..Len(file[g].data)
          /\ file' = [g \in Files |-> [file[g] EXCEPT !.data = SubSeq(file[g].data, 1, cut[g])]]
    BY <1>3 DEF Crash
  <2> DEFINE n == cut[f]
  <2>2. n \in file[f].synced..Len(file[f].data) /\ file'[f] = [file[f] EXCEPT !.data = SubSeq(file[f].data, 1, n)]
    BY <2>1
  <2> HIDE DEF n
  <2>3. n \in 0..Len(file[f].data)
    BY <1>0, <2>2
  <2>4. SubSeq(file[f].data, 1, n) \in Seq(Tokens) /\ Len(SubSeq(file[f].data, 1, n)) = n
    BY <1>0, <2>3, CutSeq
  <2> DEFINE d == SubSeq(file[f].data, 1, n)
  <2>5. file'[f] = [file[f] EXCEPT !.data = d] /\ d \in Seq(Tokens) /\ Len(d) = n
    BY <2>2, <2>4
  <2> HIDE DEF d
  <2>6. /\ file'[f] \in History /\ file'[f].synced = file[f].synced /\ file'[f].data = d /\ file'[f].there = file[f].there
    BY <1>0, <2>5 DEF History
  <2>7. file[f].synced <= n
    BY <1>0, <2>2
  <2>8. run.pc # "down" /\ run' = Down
    BY <1>3 DEF Crash
  <2>9. \E k \in file[f].synced..Len(file[f].data) : file'[f].data = SubSeq(file[f].data, 1, k)
    BY <2>2, <2>6 DEF d
  <2> QED BY <1>0, <2>5, <2>6, <2>7, <2>8, <2>9
<1>4. ASSUME NEW g \in Files, NEW token \in Tokens, Write(g, token)
      PROVE  /\ file'[f] \in History
             /\ file[f].synced <= file'[f].synced /\ file'[f].synced <= Len(file'[f].data)
             /\ \/ file'[f].data = file[f].data /\ (file'[f].there => file[f].there)
                \/ /\ \E t \in Tokens : file'[f].data = Append(file[f].data, t)
                   /\ ~Over /\ (Baseline => ready) /\ (file[f].there \/ file[f].data = <<>>)
                \/ /\ run.pc # "down" /\ run' = Down /\ file'[f].there = file[f].there
                   /\ \E n \in file[f].synced..Len(file[f].data) : file'[f].data = SubSeq(file[f].data, 1, n)
  <2>1. CASE g # f
    <3>1. file'[f] = file[f]
      BY <1>0, <1>4, <2>1 DEF Write
    <3> QED BY <1>1, <3>1
  <2>2. CASE g = f
    <3> DEFINE d == Append(file[f].data, token)
    <3>1. d \in Seq(Tokens) /\ Len(d) = Len(file[f].data) + 1
      BY <1>0, AppendProperties
    <3>2. file'[f] = [file[f] EXCEPT !.there = TRUE, !.data = d]
      BY <1>0, <1>4, <2>2 DEF Write
    <3>3. ~Over /\ (Baseline => ready) /\ (file[f].there \/ file[f].data = <<>>)
      BY <1>4, <2>2 DEF Write
    <3> HIDE DEF d
    <3>4. file'[f] \in History /\ file'[f].data = d /\ file'[f].synced = file[f].synced
      BY <1>0, <3>1, <3>2 DEF History
    <3>5. \E t \in Tokens : file'[f].data = Append(file[f].data, t)
      BY <3>4 DEF d
    <3> QED BY <1>0, <3>1, <3>3, <3>4, <3>5
  <2> QED BY <2>1, <2>2
<1>5. ASSUME NEW g \in Files, Replace(g)
      PROVE  /\ file'[f] \in History
             /\ file[f].synced <= file'[f].synced /\ file'[f].synced <= Len(file'[f].data)
             /\ \/ file'[f].data = file[f].data /\ (file'[f].there => file[f].there)
                \/ /\ \E t \in Tokens : file'[f].data = Append(file[f].data, t)
                   /\ ~Over /\ (Baseline => ready) /\ (file[f].there \/ file[f].data = <<>>)
                \/ /\ run.pc # "down" /\ run' = Down /\ file'[f].there = file[f].there
                   /\ \E n \in file[f].synced..Len(file[f].data) : file'[f].data = SubSeq(file[f].data, 1, n)
  <2>1. file' = [file EXCEPT ![g].id = 1 - file[g].id] \/ file' = [file EXCEPT ![g].there = FALSE]
    BY <1>5 DEF Replace
  <2>2. \/ file'[f] = file[f] \/ file'[f] = [file[f] EXCEPT !.id = 1 - file[f].id]
        \/ file'[f] = [file[f] EXCEPT !.there = FALSE]
    BY <1>0, <2>1
  <2>3. 1 - file[f].id \in {0, 1}
    BY <1>0 DEF History
  <2>4. file[f].there \/ file'[f] = file[f]
    BY <1>0, <1>5 DEF Replace
  <2>5. CASE file'[f] = [file[f] EXCEPT !.id = 1 - file[f].id]
    <3>1. /\ file'[f] \in History /\ file'[f].synced = file[f].synced
          /\ file'[f].data = file[f].data /\ file'[f].there = file[f].there
      BY <1>0, <2>3, <2>5 DEF History
    <3> QED BY <1>0, <3>1
  <2>6. CASE file'[f] = [file[f] EXCEPT !.there = FALSE]
    <3>1. /\ file'[f] \in History /\ file'[f].synced = file[f].synced
          /\ file'[f].data = file[f].data /\ file'[f].there = FALSE
      BY <1>0, <2>6 DEF History
    <3> QED BY <1>0, <3>1
  <2> QED BY <1>1, <2>2, <2>5, <2>6
<1>6. CASE Light \/ Start \/ Replay \/ Spool \/ Save \/ RemovePending \/ PublishStatus
  BY <1>1, <1>6, LightEffect, StartEffect, ReplayEffect, SpoolEffect, SaveEffect, RemoveEffect, StatusEffect
<1>7. CASE Rebind \/ Skip
  BY <1>1, <1>7 DEF Rebind, Skip, files
<1>8. CASE TakeBaseline
  BY <1>2, <1>8 DEF TakeBaseline
<1>9. CASE Read
  <2>1. file' = file \/ SyncSource(Min(run.todo))
    BY <1>9, ReadEffect
  <2>2. file'[f] = file[f] \/ file'[f] = [file[f] EXCEPT !.synced = Len(file[f].data)]
    BY <1>0, <2>1 DEF SyncSource
  <2> QED BY <1>1, <1>2, <2>2
<1>10. CASE Beside
  <2>1. UNCHANGED file \/ (\E g \in Files : Replace(g)) \/ \E g \in Files : \E token \in Tokens : Write(g, token)
    BY <1>10 DEF Beside, Ingest, Signal, Complete, Expire, NewAttempt, files
  <2> QED BY <1>1, <1>4, <1>5, <2>1
<1>11. CASE UNCHANGED vars
  BY <1>1, <1>11 DEF vars, files
<1> QED BY <1>3, <1>6, <1>7, <1>8, <1>9, <1>10, <1>11, Steps

LEMMA FileDomain ==
    ASSUME TypeOK, Phases, [Next]_vars
    PROVE  file' = [f \in Files |-> file'[f]]
<1>0. file = [f \in Files |-> file[f]]
  BY DEF TypeOK
<1>1. CASE UNCHANGED file
  BY <1>0, <1>1
<1>2. CASE \E g \in Files : \E token \in Tokens : Write(g, token)
  BY <1>0, <1>2 DEF Write
<1>3. CASE \E g \in Files : Replace(g)
  BY <1>0, <1>3 DEF Replace
<1>4. CASE Crash
  BY <1>4 DEF Crash
<1>5. CASE TakeBaseline
  BY <1>5 DEF TakeBaseline
<1>6. CASE Read
  BY <1>0, <1>1, <1>6, ReadEffect DEF SyncSource
<1>7. CASE Light \/ Start \/ Replay \/ Spool \/ Save \/ RemovePending \/ PublishStatus
  BY <1>1, <1>7, LightEffect, StartEffect, ReplayEffect, SpoolEffect, SaveEffect, RemoveEffect, StatusEffect
<1>8. CASE Rebind \/ Skip
  BY <1>1, <1>8 DEF Rebind, Skip, files
<1>9. CASE Beside
  <2>1. UNCHANGED file \/ (\E g \in Files : Replace(g)) \/ \E g \in Files : \E token \in Tokens : Write(g, token)
    BY <1>9 DEF Beside, Ingest, Signal, Complete, Expire, NewAttempt, files
  <2> QED BY <1>1, <1>2, <1>3, <2>1
<1>10. CASE UNCHANGED vars
  BY <1>1, <1>10 DEF vars, files
<1> QED BY <1>4, <1>5, <1>6, <1>7, <1>8, <1>9, <1>10, Steps

\* Chunks come from drain and from publishStatus, and from nowhere else.
LEMMA KnownStep ==
    ASSUME TypeOK, Phases, Shapes, [Next]_vars, NEW m \in Known'
    PROVE  \/ m \in Known
           \/ /\ Read /\ m = run'.chunk /\ run'.pc \in InHand
              /\ \E stamp \in Stamps : m = NewChunk(Min(run.todo), stamp)
              /\ IsPrefix(run.mem.source[Min(run.todo)].prefix, file[Min(run.todo)].data) /\ SyncSource(Min(run.todo))
           \/ /\ PublishStatus /\ m = run'.chunk /\ run'.pc \in InHand
              /\ \E stamp \in Stamps : m = StatusChunk(stamp)
<1> USE DEF Known, Hand
<1>0. Down.pc = "down"
  BY DEF Down
<1>1. CASE Light
  BY <1>0, <1>1, LightEffect DEF LightMoves, GaveUp, Went, Goes, Holds, InHand
<1>2. CASE Start
  BY <1>2, StartEffect DEF InHand
<1>3. CASE Replay
  BY <1>0, <1>3, ReplayEffect DEF Phases, GaveUp, InHand
<1>4. CASE TakeBaseline
  BY <1>0, <1>4, BaselineEffect DEF InHand
<1>5. CASE Read
  BY <1>0, <1>5, ReadEffect DEF GaveUp, Goes, Holds, InHand
<1>6. CASE Rebind
  BY <1>0, <1>6, RebindEffect, ChunkFile DEF GaveUp, GaveUpWith, InHand, Rebind, Phases
<1>7. CASE Skip
  BY <1>0, <1>7, SkipEffect, ChunkFile DEF GaveUpWith, InHand, Skip, Phases
<1>8. CASE Spool
  BY <1>0, <1>8, SpoolEffect DEF GaveUp, Went, Goes, Holds, InHand
<1>9. CASE Save
  BY <1>0, <1>9, SaveEffect DEF GaveUp, InHand
<1>10. CASE RemovePending
  BY <1>0, <1>10, RemoveEffect DEF GaveUp, Holds, InHand, Phases
<1>11. CASE PublishStatus
  BY <1>0, <1>11, StatusEffect DEF Went, Goes, Holds, InHand
<1>12. CASE Beside
  <2>1. queued' \cup table' = queued \cup table
    BY <1>12 DEF Beside, Ingest, Signal, Complete, Expire, NewAttempt, Replace, Write, sink
  <2> QED BY <1>12, <2>1, BesideEffect
<1>13. CASE Crash
  BY <1>0, <1>13 DEF Crash, disk, sink, InHand
<1>14. CASE UNCHANGED vars
  BY <1>14 DEF vars, disk, sink
<1> QED BY <1>1, <1>2, <1>3, <1>4, <1>5, <1>6, <1>7, <1>8, <1>9, <1>10, <1>11, <1>12, <1>13, <1>14, Steps

LEMMA TypeStep ==
    ASSUME TypeOK, Phases, Shapes, [Next]_vars
    PROVE  TypeOK'
<1>0. /\ run \in Process /\ run.mem \in Checkpoint /\ run.chunk \in Manifest /\ ckpt \in Checkpoint
      /\ Down \in Process /\ Known \subseteq Manifest
  BY ResetsType DEF TypeOK, Process, Known, Hand
<1>1. file' \in [Files -> History] /\ \A f \in Files : file'[f].synced <= Len(file'[f].data)
  <2>1. \A f \in Files : file'[f] \in History /\ file'[f].synced <= Len(file'[f].data)
    BY FileStep
  <2> QED BY <2>1, FileDomain
<1>2. base' = base
  BY Steps, LightEffect, StartEffect, ReplayEffect, BaselineEffect, ReadEffect, SpoolEffect, SaveEffect, RemoveEffect,
     StatusEffect, BesideEffect DEF Rebind, Skip, Crash, vars, files
<1>3. run' \in Process /\ ckpt' \in Checkpoint
  <2>1. CASE Light \/ Start \/ Replay \/ Read \/ Spool \/ RemovePending \/ PublishStatus
    BY <1>0, <2>1, LightEffect, StartEffect, ReplayEffect, ReadEffect, SpoolEffect, RemoveEffect, StatusEffect
  <2>2. CASE TakeBaseline
    BY <1>0, <2>2, BaselineEffect, BaselinedEffect
  <2>3. CASE Rebind
    <3>1. run.chunk.file \in Files
      BY <2>3, ChunkFile DEF Rebind, Phases, InHand
    <3>2. Rebound(run.mem, run.chunk) \in Checkpoint
      BY <1>0, <3>1, ReboundEffect
    <3> QED BY <1>0, <2>3, <3>1, <3>2, RebindEffect
  <2>4. CASE Skip
    <3>1. run.chunk.file \in Files /\ run.ret = "drain"
      BY <2>4, ChunkFile DEF Skip, Phases, InHand
    <3>2. Skipped(run.mem, run.chunk) \in Checkpoint
      BY <1>0, <3>1, SkippedEffect
    <3> QED BY <1>0, <2>4, <3>1, <3>2, SkipEffect
  <2>5. CASE Save
    <3>1. Advance(run.mem, run.chunk) \in Checkpoint
      BY <1>0, AdvanceEffect
    <3> QED BY <1>0, <2>5, <3>1, SaveEffect
  <2>6. CASE Beside \/ Crash \/ UNCHANGED vars
    BY <1>0, <2>6, BesideEffect DEF Crash, vars, disk
  <2> QED BY <2>1, <2>2, <2>3, <2>4, <2>5, <2>6, Steps
<1>4. Known' \subseteq Manifest
  <2> SUFFICES ASSUME NEW m \in Known' PROVE m \in Manifest
    OBVIOUS
  <2>1. CASE m = run'.chunk
    BY <1>3, <2>1 DEF Process
  <2> QED BY <1>0, <2>1, KnownStep
<1>5. attempt' \in 1..MaxRuns /\ completion' \in 0..MaxRuns /\ {ready', done', expired', cancelled'} \subseteq BOOLEAN
  <2>0. /\ attempt \in 1..MaxRuns /\ completion \in 0..MaxRuns /\ MaxRuns \in Nat
        /\ {ready, done, expired, cancelled} \subseteq BOOLEAN
    BY ConstantsAssumption DEF TypeOK
  <2>1. CASE Light
    BY <2>0, <2>1, LightEffect
  <2>2. CASE UNCHANGED <<completion, ready, done, expired, attempt>> /\ cancelled' \in {cancelled, FALSE}
    BY <2>0, <2>2
  <2>3. CASE Start \/ Replay \/ TakeBaseline \/ Read \/ Spool \/ Save \/ RemovePending \/ PublishStatus
    <3>1. UNCHANGED <<completion, ready, done, expired, attempt>> /\ cancelled' \in {cancelled, FALSE}
      BY <2>3, StartEffect, ReplayEffect, BaselineEffect, ReadEffect, SpoolEffect, SaveEffect, RemoveEffect, StatusEffect
    <3> QED BY <2>2, <3>1
  <2>4. CASE Rebind \/ Skip
    <3>1. UNCHANGED <<completion, ready, done, expired, attempt, cancelled>>
      BY <2>4 DEF Rebind, Skip, SaveCheckpoint, Fault, sentinels, budget
    <3> QED BY <2>2, <3>1
  <2>5. CASE Crash \/ UNCHANGED vars
    <3>1. UNCHANGED <<completion, ready, done, expired, attempt, cancelled>>
      BY <2>5 DEF Crash, Fault, sentinels, budget, vars
    <3> QED BY <2>2, <3>1
  <2>6. CASE Beside
    <3>1. CASE NewAttempt
      <4>1. attempt' = attempt + 1 /\ attempt < MaxRuns /\ completion' = 0
        BY <3>1 DEF NewAttempt, NoObs
      <4>2. ready' = FALSE /\ done' = FALSE /\ expired' = FALSE /\ cancelled' = cancelled
        BY <3>1 DEF NewAttempt
      <4>3. attempt' \in 1..MaxRuns /\ completion' \in 0..MaxRuns
        BY <2>0, <4>1
      <4>4. {ready', done', expired', cancelled'} \subseteq BOOLEAN
        BY <2>0, <4>2
      <4> QED BY <4>3, <4>4
    <3>2. CASE Complete \/ Expire \/ Signal
      <4>1. attempt' = attempt /\ completion' \in {completion, attempt}
        BY <3>2 DEF Complete, Expire, Signal, sentinels, budget
      <4>2. /\ ready' = ready /\ done' = done /\ (expired' = expired \/ expired' = TRUE)
            /\ (cancelled' = cancelled \/ cancelled' = TRUE)
        BY <3>2 DEF Complete, Expire, Signal, sentinels, budget
      <4>3. attempt' \in 1..MaxRuns /\ completion' \in 0..MaxRuns
        BY <2>0, <4>1
      <4>4. {ready', done', expired', cancelled'} \subseteq BOOLEAN
        BY <2>0, <4>2
      <4> QED BY <4>3, <4>4
    <3>3. CASE UNCHANGED <<completion, ready, done, expired, attempt, cancelled>>
      BY <2>2, <3>3
    <3> QED BY <2>6, <3>1, <3>2, <3>3 DEF Beside, Ingest, Replace, Write, sentinels, budget
  <2> QED BY <2>1, <2>3, <2>4, <2>5, <2>6, Steps
<1> QED BY <1>1, <1>2, <1>3, <1>4, <1>5 DEF TypeOK, Known

LEMMA ShapesStep ==
    ASSUME TypeOK, Phases, Ending, Shapes, [Next]_vars
    PROVE  Shapes'
<1> SUFFICES ASSUME NEW m \in Known' PROVE Shaped(m)
  BY DEF Shapes, Shaped, IsTerminal
<1>1. CASE m \in Known
  BY <1>1 DEF Shapes
<1>2. CASE /\ Read
           /\ \E stamp \in Stamps : m = NewChunk(Min(run.todo), stamp)
           /\ IsPrefix(run.mem.source[Min(run.todo)].prefix, file[Min(run.todo)].data)
  <2>1. Min(run.todo) \in Files
    BY <1>2, ReadEffect
  <2>2. m.file \in Files /\ IsPrefix(m.start, m.end) /\ ~IsTerminal(m)
    BY <1>2, <2>1, NewChunkEffect
  <2> QED BY <2>2 DEF Shaped
<1>3. CASE PublishStatus /\ \E stamp \in Stamps : m = StatusChunk(stamp)
  <2>1. m.obs = StatusObs /\ m.file = 0 /\ m.start = <<>> /\ m.end = <<>>
    BY <1>3, StatusChunkEffect
  <2>2. StatusObs # NoObs
    <3>1. run.phase \in {"final", "stop"}
      BY <1>3 DEF PublishStatus, Phases
    <3>2. CASE run.phase = "stop" /\ ~run.completed
      BY <3>2 DEF StatusObs, CancelObs, NoObs
    <3>3. CASE ~(run.phase = "stop" /\ ~run.completed)
      <4>1. StatusObs = completion
        BY <3>3 DEF StatusObs
      <4>2. Over
        BY <3>1, <3>3 DEF Ending, Finishing
      <4> QED BY <4>1, <4>2 DEF Over
    <3> QED BY <3>2, <3>3
  <2> QED BY <2>1, <2>2 DEF Shaped, IsTerminal
<1> QED BY <1>1, <1>2, <1>3, KnownStep

LEMMA PhasesStep ==
    ASSUME TypeOK, Phases, Ending, Shapes, [Next]_vars
    PROVE  Phases'
<1> USE DEF InHand
<1>0. Down.pc = "down" /\ run \in Process
  BY DEF Down, TypeOK
<1>1. CASE run' = run
  BY <1>1 DEF Phases
<1>2. CASE run' = Down
  BY <1>0, <1>2 DEF Phases
<1>3. CASE run'.pc = "await" /\ run'.phase = "stop"
  BY <1>3 DEF Phases
<1>4. CASE Light /\ ~GaveUp(run, run')
  BY <1>4, LightEffect DEF LightMoves, Went, Goes, Holds, Phases
<1>5. CASE Start
  BY <1>5, StartEffect DEF Phases
<1>6. CASE Replay /\ ~GaveUp(run, run')
  BY <1>6, ReplayEffect DEF Phases
<1>7. CASE TakeBaseline
  BY <1>2, <1>7, BaselineEffect DEF Phases
<1>8. CASE Read /\ ~GaveUp(run, run')
  <2>1. CASE NewRows(Min(run.todo)) = <<>> /\ Goes("read", run.phase, run.todo \ {Min(run.todo)}, run.completed)
    BY <1>8, <2>1, ReadEffect DEF Goes, Holds, Phases
  <2>2. ASSUME NEW stamp \in Stamps, run'.chunk = NewChunk(Min(run.todo), stamp), run'.ret = "drain",
               run'.phase = run.phase, run'.pc \in {"rebind", "spool", "skip"},
               IsPrefix(run.mem.source[Min(run.todo)].prefix, file[Min(run.todo)].data)
        PROVE  Phases'
    <3>1. Min(run.todo) \in Files /\ run.pc = "read"
      BY <1>8, ReadEffect
    <3>2. ~IsTerminal(run'.chunk)
      BY <2>2, <3>1, NewChunkEffect
    <3>3. run'.phase \in {"watch", "final", "stop"}
      BY <2>2, <3>1 DEF Phases
    <3> QED BY <2>2, <3>2, <3>3 DEF Phases, IsTerminal
  <2> QED BY <1>8, <2>1, <2>2, ReadEffect
<1>9. CASE Rebind
  <2>1. run.chunk.file \in Files /\ ~IsTerminal(run.chunk) /\ run.ret = "drain" /\ run.phase \in {"watch", "final", "stop"}
    BY <1>9, ChunkFile DEF Rebind, Phases
  <2>2. CASE GaveUp(run, run') \/ GaveUpWith(Rebound(run.mem, run.chunk))
    BY <1>2, <1>3, <2>2 DEF GaveUp, GaveUpWith
  <2>3. CASE run'.chunk = run.chunk /\ run'.ret = run.ret /\ run'.phase = run.phase /\ run'.pc \in {"spool", "skip"}
    BY <2>1, <2>3 DEF Phases, IsTerminal
  <2> QED BY <1>9, <2>1, <2>2, <2>3, RebindEffect
<1>10. CASE Skip
  <2>1. run.chunk.file \in Files /\ run.ret = "drain" /\ run.phase \in {"watch", "final", "stop"}
    BY <1>10, ChunkFile DEF Skip, Phases
  <2>2. CASE GaveUpWith(Skipped(run.mem, run.chunk))
    BY <1>2, <1>3, <2>2 DEF GaveUpWith
  <2>3. CASE run'.phase = run.phase /\ run'.pc = "read"
    BY <2>1, <2>3 DEF Phases
  <2> QED BY <1>10, <2>1, <2>2, <2>3, SkipEffect
<1>11. CASE Spool /\ ~GaveUp(run, run')
  <2>1. run.pc = "spool" /\ Went("deliver")
    BY <1>11, SpoolEffect
  <2> QED BY <2>1 DEF Went, Goes, Holds, Phases, IsTerminal
<1>12. CASE Save /\ ~GaveUp(run, run')
  <2>1. run.pc = "save" /\ run'.chunk = run.chunk /\ run'.ret = run.ret /\ run'.phase = run.phase /\ run'.pc = "remove"
    BY <1>12, SaveEffect
  <2> QED BY <2>1 DEF Phases, IsTerminal
<1>13. CASE RemovePending /\ ~GaveUp(run, run')
  BY <1>13, RemoveEffect DEF Phases
<1>14. CASE PublishStatus
  <2>1. run.pc = "status" /\ run.phase \in {"final", "stop"}
    BY <1>14, StatusEffect DEF Phases
  <2>2. CASE Went("done")
    BY <2>1, <2>2 DEF Went, Goes, Phases
  <2>3. CASE run'.ret = "status" /\ run'.pc = "spool" /\ run'.phase = run.phase /\ \E stamp \in Stamps : run'.chunk = StatusChunk(stamp)
    <3>1. IsTerminal(run'.chunk)
      <4>1. run'.chunk \in Known' /\ run'.chunk.file = 0
        BY <2>3, StatusChunkEffect DEF Known, Hand
      <4>2. Shaped(run'.chunk)
        BY <4>1, ShapesStep DEF Shapes, Shaped, IsTerminal
      <4>3. 0 \notin Files
        BY DEF Files
      <4> QED BY <4>1, <4>2, <4>3 DEF Shaped
    <3> QED BY <2>1, <2>3, <3>1 DEF Phases, IsTerminal
  <2> QED BY <1>2, <1>14, <2>2, <2>3, StatusEffect
<1>15. CASE GaveUp(run, run')
  BY <1>2, <1>3, <1>15 DEF GaveUp
<1>16. CASE Beside \/ Crash \/ UNCHANGED vars
  BY <1>1, <1>2, <1>16, BesideEffect DEF Crash, vars
<1> QED BY <1>4, <1>5, <1>6, <1>7, <1>8, <1>9, <1>10, <1>11, <1>12, <1>13, <1>14, <1>15, <1>16, Steps

\* While the process runs, a completion sentinel stays.
LEMMA CompletionStep ==
    ASSUME TypeOK, Phases, [Next]_vars
    PROVE  /\ run.pc # "down" /\ Over => completion' = completion /\ Over'
           /\ \/ UNCHANGED <<completion, attempt>>
              \/ Complete
              \/ NewAttempt
<1>1. CASE Light \/ Start \/ Replay \/ TakeBaseline \/ Read \/ Spool \/ Save \/ RemovePending \/ PublishStatus
  BY <1>1, LightEffect, StartEffect, ReplayEffect, BaselineEffect, ReadEffect, SpoolEffect, SaveEffect, RemoveEffect,
     StatusEffect DEF Over
<1>2. CASE Rebind \/ Skip
  BY <1>2 DEF Rebind, Skip, SaveCheckpoint, Fault, sentinels, budget, Over
<1>3. CASE Crash \/ UNCHANGED vars
  BY <1>3 DEF Crash, Fault, sentinels, budget, vars, Over
<1>4. CASE Beside
  BY <1>4 DEF Beside, Ingest, Signal, Complete, Expire, NewAttempt, Replace, Write, sentinels, budget, Over
<1> QED BY <1>1, <1>2, <1>3, <1>4, Steps

LEMMA EndingStep ==
    ASSUME TypeOK, Phases, Ending, Shapes, [Next]_vars
    PROVE  Ending'
<1>0. Down.pc = "down" /\ Down.phase = "start" /\ ~Down.completed
  BY DEF Down
<1>1. CASE run' = Down
  BY <1>0, <1>1 DEF Ending
<1>2. CASE run' = run
  <2>1. CASE run.pc = "down"
    BY <1>1, <1>2, <2>1 DEF Phases
  <2>2. CASE run.pc # "down"
    BY <1>2, <2>2, CompletionStep DEF Ending
  <2> QED BY <2>1, <2>2
<1>3. CASE run' # Down /\ run' # run /\ ~Light
  <2>1. /\ run'.pc # "recheck"
        /\ \/ run'.phase = run.phase /\ run'.completed = run.completed /\ run.pc # "down"
           \/ run'.phase = "stop" /\ run'.completed = run.completed /\ run.phase # "stop" /\ run.pc # "down"
           \/ run'.phase = "start" /\ ~run'.completed
    <3>1. CASE Start
      BY <3>1, StartEffect
    <3>2. CASE Replay
      BY <1>3, <3>2, ReplayEffect DEF GaveUp, Phases
    <3>3. CASE TakeBaseline
      BY <1>3, <3>3, BaselineEffect
    <3>4. CASE Read
      BY <1>3, <3>4, ReadEffect DEF GaveUp, Goes
    <3>5. CASE Rebind
      BY <1>3, <3>5, RebindEffect, ChunkFile DEF GaveUp, GaveUpWith, Rebind, Phases, InHand
    <3>6. CASE Skip
      BY <1>3, <3>6, SkipEffect, ChunkFile DEF GaveUpWith, Skip, Phases, InHand
    <3>7. CASE Spool
      BY <1>3, <3>7, SpoolEffect DEF GaveUp, Went, Goes
    <3>8. CASE Save
      BY <1>3, <3>8, SaveEffect DEF GaveUp
    <3>9. CASE RemovePending
      BY <1>3, <3>9, RemoveEffect DEF GaveUp, Phases, InHand
    <3>10. CASE PublishStatus
      BY <1>3, <3>10, StatusEffect DEF Went, Goes
    <3> QED BY <1>3, <3>1, <3>2, <3>3, <3>4, <3>5, <3>6, <3>7, <3>8, <3>9, <3>10, Steps, BesideEffect DEF Crash, vars
  <2> QED BY <2>1, CompletionStep DEF Ending
<1>4. CASE Light /\ run' # Down
  <2>1. Over' = Over
    BY <1>4, LightEffect DEF Over
  <2>2. LightMoves
    BY <1>4, LightEffect
  <2>3. CASE GaveUp(run, run')
    BY <1>4, <2>1, <2>3 DEF GaveUp, Ending
  <2>4. CASE ~GaveUp(run, run')
    BY <2>1, <2>2, <2>4 DEF LightMoves, Went, Goes, Phases, Ending
  <2> QED BY <2>3, <2>4
<1> QED BY <1>1, <1>2, <1>3, <1>4

LEMMA SpoolStep ==
    ASSUME TypeOK, Phases, Shapes, SpoolHeld, [Next]_vars
    PROVE  SpoolHeld'
<1> USE DEF Spooled
<1>0. Down.pc = "down"
  BY DEF Down
<1>1. CASE pending' = pending /\ run'.pc \in {"down", "replay", "await"}
  BY <1>1 DEF SpoolHeld
<1>2. CASE pending' = pending /\ run' = run
  BY <1>2 DEF SpoolHeld
<1>3. CASE Light
  <2>1. pending' = pending /\ LightMoves
    BY <1>3, LightEffect
  <2>2. CASE GaveUp(run, run')
    BY <1>0, <1>1, <2>1, <2>2 DEF GaveUp
  <2>3. CASE ~GaveUp(run, run')
    BY <2>1, <2>3 DEF LightMoves, Went, Goes, Holds, SpoolHeld
  <2> QED BY <2>2, <2>3
<1>4. CASE Start
  BY <1>1, <1>4, StartEffect
<1>5. CASE Replay
  <2>1. CASE GaveUp(run, run') /\ pending' = pending
    BY <1>0, <1>1, <2>1 DEF GaveUp
  <2>2. CASE pending' = {} /\ run'.pc \in {"baseline", "ready", "drain"}
    BY <2>2 DEF SpoolHeld
  <2>3. ASSUME NEW m \in pending, pending' = pending, run'.pc = "deliver", run'.chunk = m PROVE SpoolHeld'
    <3>1. pending = {m}
      BY DEF SpoolHeld
    <3> QED BY <2>3, <3>1 DEF SpoolHeld
  <2> QED BY <1>5, <2>1, <2>2, <2>3, ReplayEffect DEF Phases
<1>6. CASE TakeBaseline
  BY <1>0, <1>1, <1>6, BaselineEffect DEF SpoolHeld
<1>7. CASE Read
  <2>1. CASE GaveUp(run, run')
    BY <1>0, <1>1, <1>7, <2>1, ReadEffect DEF GaveUp
  <2>2. CASE run'.pc \in {"read", "rebind", "spool", "skip"}
    BY <1>7, <2>2, ReadEffect DEF SpoolHeld
  <2> QED BY <1>7, <2>1, <2>2, ReadEffect DEF Goes
<1>8. CASE Rebind
  <2>1. run.chunk.file \in Files /\ run.pc = "rebind"
    BY <1>8, ChunkFile DEF Rebind, Phases, InHand
  <2>2. CASE GaveUp(run, run') \/ GaveUpWith(Rebound(run.mem, run.chunk))
    BY <1>0, <1>1, <1>8, <2>1, <2>2, RebindEffect DEF GaveUp, GaveUpWith
  <2>3. CASE run'.pc \in {"spool", "skip"}
    BY <1>8, <2>1, <2>3, RebindEffect DEF SpoolHeld
  <2> QED BY <1>8, <2>1, <2>2, <2>3, RebindEffect
<1>9. CASE Skip
  <2>1. run.chunk.file \in Files /\ run.pc = "skip" /\ run.ret = "drain"
    BY <1>9, ChunkFile DEF Skip, Phases, InHand
  <2>2. CASE GaveUpWith(Skipped(run.mem, run.chunk))
    BY <1>0, <1>1, <1>9, <2>1, <2>2, SkipEffect DEF GaveUpWith
  <2>3. CASE run'.pc = "read"
    BY <1>9, <2>1, <2>3, SkipEffect DEF SpoolHeld
  <2> QED BY <1>9, <2>1, <2>2, <2>3, SkipEffect
<1>10. CASE Spool
  <2>1. pending = {} /\ pending' \in {{}, {run.chunk}}
    BY <1>10, SpoolEffect DEF SpoolHeld
  <2>2. CASE GaveUp(run, run')
    BY <1>0, <2>1, <2>2 DEF GaveUp, SpoolHeld
  <2>3. CASE pending' = pending \cup {run.chunk} /\ Went("deliver")
    BY <2>1, <2>3 DEF Went, Goes, Holds, SpoolHeld
  <2> QED BY <1>10, <2>2, <2>3, SpoolEffect
<1>11. CASE Save
  BY <1>0, <1>1, <1>11, SaveEffect DEF GaveUp, SpoolHeld
<1>12. CASE RemovePending
  <2>1. pending = {run.chunk} /\ pending' \in {{}, {run.chunk}}
    BY <1>12, RemoveEffect DEF SpoolHeld
  <2>2. CASE GaveUp(run, run')
    BY <1>0, <2>1, <2>2 DEF GaveUp, SpoolHeld
  <2>3. CASE pending' = pending \ {run.chunk} /\ run'.pc \in {"ready", "drain", "read", "done"}
    BY <2>1, <2>3 DEF SpoolHeld
  <2> QED BY <1>12, <2>2, <2>3, RemoveEffect DEF Phases, InHand
<1>13. CASE PublishStatus
  BY <1>0, <1>1, <1>13, StatusEffect DEF Went, Goes, SpoolHeld
<1>14. CASE Beside \/ Crash \/ UNCHANGED vars
  BY <1>0, <1>1, <1>2, <1>14, BesideEffect DEF Crash, vars, disk
<1> QED BY <1>3, <1>4, <1>5, <1>6, <1>7, <1>8, <1>9, <1>10, <1>11, <1>12, <1>13, <1>14, Steps

LEMMA ControlNext == ControlInv /\ [Next]_vars => ControlInv'
BY TypeStep, PhasesStep, EndingStep, ShapesStep, SpoolStep DEF ControlInv

\* The type invariant: what the collector writes to its checkpoint, its spool and ADX
\* is well formed, the number before the first chunk included.
THEOREM SpoolTypeCorrect == Spec => []TypeOK
<1>1. ControlInv => TypeOK
  BY DEF ControlInv
<1> QED BY <1>1, ControlInit, ControlNext, PTL DEF Spec

-----------------------------------------------------------------------------
(* Memory and disk: the checkpoints a process works with are those of the file, or
   ahead of them by what the file could not take *)

\* A checkpoint that was never saved is empty, an unknown source has no prefix.
Sound(c) ==
    /\ ~c.saved => c = NoCheckpoint
    /\ \A f \in Files : ~c.source[f].known => c.source[f].prefix = <<>>

\* Chunk m is the one that comes next after checkpoint c; c acknowledges it.
Fits(c, m) ==
    /\ m.seq = c.next
    /\ IF IsTerminal(m) THEN \A t \in c.terminals : t.obs # m.obs ELSE m.start = c.source[m.file].prefix
Acked(c, m) ==
    IF IsTerminal(m) THEN \E t \in c.terminals : t.obs = m.obs
    ELSE Len(m.end) <= Len(c.source[m.file].prefix)

\* The chunk under way comes next after what is in memory.
Fitting ==
    /\ run.pc \in InHand \ {"remove"} => Fits(run.mem, run.chunk)
    /\ run.pc = "skip" => ~HasEvents(ChunkRows)

Soundness == Sound(ckpt) /\ Sound(run.mem)

LEMMA FollowsFits ==
    ASSUME NEW c, NEW m, Sound(c), Shaped(m), Follows(c, m)
    PROVE  Fits(c, m)
BY DEF Follows, Fits, Sound, Shaped

LEMMA SoundMade ==
    ASSUME TypeOK, NEW c \in Checkpoint, NEW m \in Manifest, Sound(c)
    PROVE  /\ Sound(NoCheckpoint)
           /\ Sound(Advance(c, m)) /\ Advance(c, m) # NoCheckpoint
           /\ m.file \in Files => Sound(Rebound(c, m)) /\ Sound(Skipped(c, m))
           /\ Sound(Baselined)
<1>1. Sound(NoCheckpoint)
  <2>1. \A f \in Files : NoCheckpoint.source[f].prefix = <<>>
    BY DEF NoCheckpoint, NoSource
  <2> QED BY <2>1 DEF Sound
<1>2. Sound(Advance(c, m)) /\ Advance(c, m) # NoCheckpoint
  <2> DEFINE d == Advance(c, m)
  <2>1. d.saved /\ \A f \in Files : d.source[f] = IF ~IsTerminal(m) /\ f = m.file THEN Collected(m) ELSE c.source[f]
    BY AdvanceEffect
  <2>2. Collected(m).known /\ ~NoCheckpoint.saved
    BY DEF Collected, NoCheckpoint
  <2> HIDE DEF d
  <2>3. Sound(d) /\ d # NoCheckpoint
    BY <2>1, <2>2 DEF Sound
  <2> QED BY <2>3 DEF d
<1>3. ASSUME m.file \in Files PROVE Sound(Rebound(c, m))
  <2> DEFINE d == Rebound(c, m)
  <2>1. d.saved /\ \A f \in Files : d.source[f].prefix = c.source[f].prefix /\ d.source[f].known = c.source[f].known
    BY <1>3, ReboundEffect
  <2> HIDE DEF d
  <2>2. Sound(d)
    BY <2>1 DEF Sound
  <2> QED BY <2>2 DEF d
<1>4. ASSUME m.file \in Files PROVE Sound(Skipped(c, m))
  <2> DEFINE d == Skipped(c, m)
  <2>1. /\ d.saved /\ \A f \in Files : f # m.file => d.source[f] = c.source[f]
        /\ d.source[m.file].known
    BY <1>4, SkippedEffect
  <2> HIDE DEF d
  <2>2. Sound(d)
    BY <2>1 DEF Sound
  <2> QED BY <2>2 DEF d
<1>5. Sound(Baselined)
  <2>1. NoSource.prefix = <<>>
    BY DEF NoSource
  <2> QED BY <2>1, BaselinedEffect DEF Sound
<1> QED BY <1>1, <1>2, <1>3, <1>4, <1>5

\* What may happen to the checkpoint file, and what is in memory then.
Written ==
    \/ /\ ckpt' = ckpt
       /\ run' = Down \/ (run.pc # "down" /\ run'.mem = run.mem) \/ Start \/ UNCHANGED run
    \/ /\ TakeBaseline /\ ckpt' \in {ckpt, Baselined}
       /\ run' = Down \/ (run'.mem = ckpt' /\ run'.pc = "ready" /\ run'.phase = run.phase)
    \/ /\ Rebind /\ run.chunk.file \in Files /\ ~IsTerminal(run.chunk)
       /\ ckpt' \in {ckpt, Rebound(run.mem, run.chunk)}
       /\ \/ run' = Down
          \/ ckpt' = Rebound(run.mem, run.chunk) /\ run'.mem = ckpt' /\ run'.phase = run.phase /\ run'.pc \in {"spool", "skip"}
          \/ run'.mem \in {run.mem, ckpt'} /\ run'.phase = "stop" /\ run.phase # "stop" /\ run'.pc = "await"
    \/ /\ Skip /\ run.chunk.file \in Files /\ ~IsTerminal(run.chunk)
       /\ ckpt' \in {ckpt, Skipped(run.mem, run.chunk)}
       /\ \/ run' = Down
          \/ ckpt' = Skipped(run.mem, run.chunk) /\ run'.mem = ckpt' /\ run'.phase = run.phase /\ run'.pc = "read"
          \/ run'.mem = Skipped(run.mem, run.chunk) /\ run'.phase = "stop" /\ run.phase # "stop" /\ run'.pc = "await"
    \/ /\ Save /\ ckpt' \in {ckpt, Advance(run.mem, run.chunk)}
       /\ \/ run' = Down
          \/ ckpt' = Advance(run.mem, run.chunk) /\ run'.mem = ckpt' /\ run'.chunk = run.chunk /\ run'.pc = "remove"
             /\ run'.phase = run.phase
          \/ run'.mem = run.mem /\ run'.phase = "stop" /\ run.phase # "stop" /\ run'.pc = "await"

LEMMA WrittenStep ==
    ASSUME ControlInv, [Next]_vars
    PROVE  Written
<1> USE DEF ControlInv
<1>1. CASE Light
  <2>1. ckpt' = ckpt /\ LightMoves
    BY <1>1, LightEffect
  <2>2. run.pc # "down" \/ run' = Down \/ GaveUp(run, run')
    BY <2>1 DEF LightMoves
  <2>3. GaveUp(run, run') => run' = Down \/ (run.pc # "down" /\ run'.mem = run.mem)
    <3>1. GaveUp(run, run') => run' = Down \/ run'.mem = run.mem
      BY DEF GaveUp
    <3>2. run.pc # "down"
      BY <1>1 DEF Light, IOFails, PublishReady, Poll, Sleep, DrainStart, DrainDone, Submit, Delivered, AttemptFails,
         DeliveryCancelled, PublishDone, Await, Recheck
    <3> QED BY <3>1, <3>2
  <2> QED BY <2>1, <2>2, <2>3 DEF LightMoves, Went, Goes, Holds, Written
<1>2. CASE Start
  BY <1>2, StartEffect DEF Written
<1>3. CASE Replay
  BY <1>3, ReplayEffect DEF GaveUp, Written
<1>4. CASE TakeBaseline
  BY <1>4, BaselineEffect DEF Written
<1>5. CASE Read
  BY <1>5, ReadEffect DEF GaveUp, Goes, Holds, Written
<1>6. CASE Rebind
  <2>1. run.chunk.file \in Files /\ ~IsTerminal(run.chunk)
    BY <1>6, ChunkFile DEF Rebind, Phases, InHand
  <2> QED BY <1>6, <2>1, RebindEffect DEF GaveUp, GaveUpWith, Written
<1>7. CASE Skip
  <2>1. run.chunk.file \in Files /\ ~IsTerminal(run.chunk) /\ run.ret = "drain"
    BY <1>7, ChunkFile DEF Skip, Phases, InHand
  <2> QED BY <1>7, <2>1, SkipEffect DEF GaveUpWith, Written
<1>8. CASE Spool
  BY <1>8, SpoolEffect DEF GaveUp, Went, Goes, Holds, Written
<1>9. CASE Save
  BY <1>9, SaveEffect DEF GaveUp, Written
<1>10. CASE RemovePending
  BY <1>10, RemoveEffect DEF GaveUp, Holds, Written
<1>11. CASE PublishStatus
  BY <1>11, StatusEffect DEF Went, Goes, Holds, Written
<1>12. CASE Beside \/ Crash \/ UNCHANGED vars
  BY <1>12, BesideEffect DEF Crash, vars, disk, Written
<1> QED BY <1>1, <1>2, <1>3, <1>4, <1>5, <1>6, <1>7, <1>8, <1>9, <1>10, <1>11, <1>12, Steps

LEMMA SoundStep ==
    ASSUME ControlInv, Soundness, [Next]_vars
    PROVE  Soundness'
<1> DEFINE A == Advance(run.mem, run.chunk)
           R == Rebound(run.mem, run.chunk)
           S == Skipped(run.mem, run.chunk)
<1>1. run.mem \in Checkpoint /\ run.chunk \in Manifest
  BY DEF ControlInv, TypeOK, Process
<1>2. /\ Sound(NoCheckpoint) /\ Sound(A) /\ Sound(Baselined) /\ Sound(ckpt) /\ Sound(run.mem)
      /\ run.chunk.file \in Files => Sound(R) /\ Sound(S)
  BY <1>1, SoundMade DEF ControlInv, Soundness
<1>3. Down.mem = NoCheckpoint
  BY DEF Down
<1>4. /\ ckpt' \in {ckpt, A, Baselined} \/ (run.chunk.file \in Files /\ ckpt' \in {R, S})
      /\ run'.mem \in {NoCheckpoint, run.mem, ckpt'} \/ (run.chunk.file \in Files /\ run'.mem = S)
  <2>1. Start => run'.mem = ckpt'
    BY StartEffect DEF ControlInv
  <2> HIDE DEF A, R, S
  <2> QED BY <1>3, <2>1, WrittenStep DEF Written, A, R, S
<1> HIDE DEF A, R, S
<1>5. Sound(ckpt') /\ Sound(run'.mem)
  BY <1>2, <1>4
<1> QED BY <1>5 DEF Soundness, Sound

LEMMA FittingStep ==
    ASSUME ControlInv, Soundness, Fitting, [Next]_vars
    PROVE  Fitting'
<1> USE DEF ControlInv, InHand
<1>0. Down.pc = "down"
  BY DEF Down
<1>1. CASE run'.pc \notin InHand \ {"remove"}
  BY <1>1 DEF Fitting
<1>2. CASE run' = run
  <2>1. ChunkRows' = ChunkRows
    BY <1>2 DEF ChunkRows
  <2> QED BY <1>2, <2>1 DEF Fitting
<1>3. CASE run'.mem = run.mem /\ run'.chunk = run.chunk /\ run'.pc # "skip" /\ run.pc \in InHand \ {"remove"}
  BY <1>3 DEF Fitting
<1>4. CASE Light
  <2>1. \/ run'.pc \notin InHand \ {"remove"}
        \/ run'.mem = run.mem /\ run'.chunk = run.chunk /\ run'.pc # "skip" /\ run.pc \in InHand \ {"remove"}
    BY <1>0, <1>4, LightEffect DEF LightMoves, GaveUp, Went, Goes, Holds
  <2> QED BY <1>1, <1>3, <2>1
<1>5. CASE Replay
  <2>1. ASSUME NEW m \in pending, Follows(run.mem, m), run'.mem = run.mem, run'.chunk = m, run'.pc = "deliver"
        PROVE  Fitting'
    <3>1. Shaped(m) /\ Sound(run.mem)
      BY DEF Shapes, Known, Soundness
    <3>2. Fits(run.mem, m)
      BY <2>1, <3>1, FollowsFits
    <3> QED BY <2>1, <3>2 DEF Fitting
  <2>2. CASE run'.pc \in {"baseline", "ready", "drain"} \/ GaveUp(run, run')
    BY <1>0, <1>1, <2>2 DEF GaveUp
  <2>3. run.phase \in {"start", "stop"}
    BY <1>5 DEF Replay, Phases
  <2> QED BY <1>5, <2>1, <2>2, <2>3, ReplayEffect
<1>6. CASE Read
  <2> DEFINE f == Min(run.todo)
  <2>1. ASSUME NEW stamp \in Stamps, IsPrefix(run.mem.source[f].prefix, file[f].data),
               run'.chunk = NewChunk(f, stamp), run'.mem = run.mem,
               run'.pc \in {"rebind", "spool"} \/ (run'.pc = "skip" /\ ~HasEvents(NewRows(f)))
        PROVE  Fitting'
    <3>1. f \in Files
      BY <1>6, ReadEffect
    <3> DEFINE m == NewChunk(f, stamp)
    <3> HIDE DEF f
    <3>2. m.seq = run.mem.next /\ m.file = f /\ ~IsTerminal(m) /\ m.start = run.mem.source[f].prefix
          /\ Unread(m.end, m.start, TRUE) = NewRows(f) /\ run'.chunk = m
      BY <2>1, <3>1, NewChunkEffect
    <3> HIDE DEF m
    <3>3. Fits(run'.mem, run'.chunk)
      BY <2>1, <3>2 DEF Fits
    <3>4. ChunkRows' = NewRows(f)
      BY <3>2 DEF ChunkRows
    <3> QED BY <2>1, <3>3, <3>4 DEF Fitting, Fits
  <2>2. CASE run'.pc = "read" \/ GaveUp(run, run')
    BY <1>0, <1>1, <2>2 DEF GaveUp
  <2> QED BY <1>6, <2>1, <2>2, ReadEffect DEF Goes
<1>7. CASE Rebind
  <2>1. run.chunk.file \in Files /\ ~IsTerminal(run.chunk)
    BY <1>7, ChunkFile DEF Rebind, Phases
  <2>2. CASE GaveUp(run, run') \/ GaveUpWith(Rebound(run.mem, run.chunk))
    BY <1>0, <1>1, <2>2 DEF GaveUp, GaveUpWith
  <2>3. CASE run'.mem = Rebound(run.mem, run.chunk) /\ run'.chunk = run.chunk
             /\ (run'.pc = "spool" \/ (run'.pc = "skip" /\ ~HasEvents(ChunkRows)))
    <3>1. run.mem \in Checkpoint /\ run.chunk \in Manifest /\ Fits(run.mem, run.chunk)
      BY <1>7 DEF TypeOK, Process, Rebind, Fitting
    <3> DEFINE d == Rebound(run.mem, run.chunk)
    <3>2. d.next = run.mem.next /\ \A f \in Files : d.source[f].prefix = run.mem.source[f].prefix
      BY <2>1, <3>1, ReboundEffect
    <3>3. run'.mem = d
      BY <2>3
    <3> HIDE DEF d
    <3>4. Fits(run'.mem, run'.chunk)
      BY <2>1, <2>3, <3>1, <3>2, <3>3 DEF Fits
    <3>5. ChunkRows' = ChunkRows
      BY <2>3 DEF ChunkRows
    <3> QED BY <2>3, <3>4, <3>5 DEF Fitting, Fits
  <2> QED BY <1>7, <2>1, <2>2, <2>3, RebindEffect
<1>8. CASE PublishStatus
  <2>1. ASSUME NEW stamp \in Stamps, run'.chunk = StatusChunk(stamp), run'.pc = "spool", run'.mem = run.mem,
               run'.ret = "status", \A t \in run.mem.terminals : t.obs # StatusObs
        PROVE  Fitting'
    <3>1. run'.chunk.seq = run.mem.next /\ run'.chunk.obs = StatusObs
      BY <2>1, StatusChunkEffect
    <3>2. IsTerminal(run'.chunk)
      <4>1. Phases'
        BY PhasesStep
      <4> QED BY <2>1, <4>1 DEF Phases, IsTerminal
    <3>3. Fits(run'.mem, run'.chunk)
      BY <2>1, <3>1, <3>2 DEF Fits
    <3> QED BY <2>1, <3>3 DEF Fitting, Fits
  <2>2. CASE run' = Down \/ Went("done")
    BY <1>0, <1>1, <2>2 DEF Went, Goes
  <2> QED BY <1>8, <2>1, <2>2, StatusEffect
<1>9. CASE Spool
  BY <1>0, <1>1, <1>3, <1>9, SpoolEffect DEF GaveUp, Went, Goes, Holds
<1>10. CASE Start \/ TakeBaseline \/ Save \/ RemovePending
  BY <1>0, <1>1, <1>10, StartEffect, BaselineEffect, SaveEffect, RemoveEffect DEF GaveUp, Phases
<1>11. CASE Skip
  <2>1. run.chunk.file \in Files /\ run.ret = "drain"
    BY <1>11, ChunkFile DEF Skip, Phases
  <2> QED BY <1>0, <1>1, <1>11, <2>1, SkipEffect DEF GaveUpWith
<1>12. CASE Beside \/ Crash \/ UNCHANGED vars
  BY <1>0, <1>1, <1>2, <1>12, BesideEffect DEF Crash, vars
<1> QED BY <1>4, <1>5, <1>6, <1>7, <1>8, <1>9, <1>10, <1>11, <1>12, Steps

\* The checkpoint file has what is in memory, but for the prefixes that rows without
\* metrics have moved; or it has the chunk in the spool as well.
Behind(c, d) ==
    /\ c.next = d.next /\ c.terminals = d.terminals
    /\ \A f \in Files : IsPrefix(c.source[f].prefix, d.source[f].prefix)
SameAs(c, d) ==
    /\ c.next = d.next /\ c.terminals = d.terminals
    /\ \A f \in Files : c.source[f].prefix = d.source[f].prefix
Advanced ==
    /\ run.pc \in {"await", "replay", "deliver", "final", "save"}
    /\ \E m \in pending : ckpt = Advance(run.mem, m) /\ Fits(run.mem, m)

Mirrored ==
    /\ run.pc # "down" /\ run.phase # "stop" => run.mem = ckpt
    /\ run.pc = "remove" => run.mem = ckpt /\ Acked(ckpt, run.chunk)
    /\ run.pc = "baseline" => ~run.mem.saved

\* Nothing in the spool while memory is ahead of the file, unless it was written then.
Catching == run.pc \in {"await", "replay"} /\ pending # {} => SameAs(ckpt, run.mem)
Stopping == run.phase = "stop" => (Behind(ckpt, run.mem) /\ Catching) \/ Advanced

MemoryInv == ControlInv /\ Soundness /\ Fitting /\ Mirrored /\ Stopping

LEMMA SameBehind ==
    ASSUME NEW c \in Checkpoint
    PROVE  SameAs(c, c) /\ Behind(c, c)
<1>1. \A f \in Files : c.source[f].prefix \in Seq(Tokens)
  BY DEF Checkpoint, SourceCheckpoint
<1>2. \A f \in Files : IsPrefix(c.source[f].prefix, c.source[f].prefix)
  BY <1>1, PrefixRefl
<1> QED BY <1>2 DEF SameAs, Behind

LEMMA ReboundSame ==
    ASSUME NEW c \in Checkpoint, NEW m \in Manifest, m.file \in Files
    PROVE  LET d == Rebound(c, m)
           IN  /\ SameAs(d, c) /\ Behind(d, c) /\ SameAs(d, d) /\ Behind(d, d)
               /\ \A x \in Checkpoint : Behind(x, c) => Behind(x, d)
<1> DEFINE d == Rebound(c, m)
<1>1. /\ d \in Checkpoint /\ d.next = c.next /\ d.terminals = c.terminals
      /\ \A f \in Files : d.source[f].prefix = c.source[f].prefix
  BY ReboundEffect
<1> HIDE DEF d
<1>2. \A f \in Files : c.source[f].prefix \in Seq(Tokens)
  BY DEF Checkpoint, SourceCheckpoint
<1>3. \A f \in Files : IsPrefix(d.source[f].prefix, c.source[f].prefix)
  BY <1>1, <1>2, PrefixRefl
<1>4. SameAs(d, c) /\ Behind(d, c) /\ SameAs(d, d) /\ Behind(d, d)
  BY <1>1, <1>3, SameBehind DEF SameAs, Behind
<1>5. \A x \in Checkpoint : Behind(x, c) => Behind(x, d)
  BY <1>1 DEF Behind
<1> QED BY <1>4, <1>5 DEF d

LEMMA SkippedBehind ==
    ASSUME NEW c \in Checkpoint, NEW m \in Manifest, m.file \in Files, ~IsTerminal(m), Fits(c, m), IsPrefix(m.start, m.end)
    PROVE  Behind(c, Skipped(c, m))
<1> DEFINE d == Skipped(c, m)
<1>1. /\ d.next = c.next /\ d.terminals = c.terminals
      /\ \A f \in Files : f # m.file => d.source[f] = c.source[f]
      /\ d.source[m.file].prefix = m.end
  BY SkippedEffect
<1> HIDE DEF d
<1>2. c.source[m.file].prefix = m.start
  BY DEF Fits
<1>3. \A f \in Files : IsPrefix(c.source[f].prefix, d.source[f].prefix)
  BY <1>1, <1>2, SameBehind DEF Behind
<1>4. Behind(c, d)
  BY <1>1, <1>3 DEF Behind
<1> QED BY <1>4 DEF d

LEMMA AdvanceAcks ==
    ASSUME NEW c \in Checkpoint, NEW m \in Manifest, Shaped(m)
    PROVE  Acked(Advance(c, m), m)
<1> DEFINE d == Advance(c, m)
<1>1. /\ d.terminals = IF IsTerminal(m) THEN c.terminals \cup {ReportedStatus(m)} ELSE c.terminals
      /\ \A f \in Files : d.source[f] = IF ~IsTerminal(m) /\ f = m.file THEN Collected(m) ELSE c.source[f]
  BY AdvanceEffect
<1>2. Collected(m).prefix = m.end /\ ReportedStatus(m).obs = m.obs /\ Len(m.end) \in Nat
  BY LenProperties DEF Collected, ReportedStatus, Manifest
<1> HIDE DEF d
<1>3. Acked(d, m)
  <2>1. CASE IsTerminal(m)
    BY <1>1, <1>2, <2>1 DEF Acked
  <2>2. CASE ~IsTerminal(m)
    <3>1. d.source[m.file].prefix = m.end
      BY <1>1, <1>2, <2>2 DEF Shaped
    <3> QED BY <1>2, <2>2, <3>1 DEF Acked
  <2> QED BY <2>1, <2>2
<1> QED BY <1>3 DEF d

\* Which steps lead where, and what they do to the spool meanwhile.
LEMMA MoveStep ==
    ASSUME ControlInv, [Next]_vars, run' # Down
    PROVE  /\ run.phase = "stop" => run'.phase = "stop"
           /\ run'.pc = "remove" => Save \/ run' = run
           /\ run'.pc = "baseline" => run' = run \/ (Replay /\ FirstStart(run.mem) /\ run'.mem = run.mem)
           /\ run.phase = "stop" /\ run'.pc \in {"await", "replay"} => run.pc \in {"await", "replay"} /\ pending' = pending
           /\ run.phase = "stop" /\ run.pc \in {"await", "replay", "deliver", "final"} =>
                 \/ run'.pc \in {"await", "replay", "deliver", "final", "save"} /\ pending' = pending
                 \/ Replay /\ \A m \in pending : m.seq < run.mem.next
           /\ run.pc = "save" => Save \/ (run' = run /\ pending' = pending)
           /\ run.phase # "stop" /\ run'.phase = "stop" => run'.pc = "await" /\ run.pc # "down"
<1> USE DEF ControlInv
<1>0. Down.pc = "down" /\ Down.phase = "start" /\ run.phase \in {"start", "watch", "final", "stop"}
  BY DEF Down, TypeOK, Process
<1>1. CASE Light
  <2>1. LightMoves /\ pending' = pending
    BY <1>1, LightEffect
  <2>2. CASE GaveUp(run, run')
    <3>1. run.pc # "down" /\ run.pc # "save"
      BY <1>1 DEF Light, IOFails, PublishReady, Poll, Sleep, DrainStart, DrainDone, Submit, Delivered, AttemptFails,
         DeliveryCancelled, PublishDone, Await, Recheck
    <3> QED BY <2>2, <3>1 DEF GaveUp
  <2>3. CASE ~GaveUp(run, run')
    BY <2>1, <2>3 DEF LightMoves, Went, Goes, Phases
  <2> QED BY <2>2, <2>3
<1>2. CASE Start
  BY <1>0, <1>2, StartEffect DEF Phases
<1>3. CASE Replay
  <2>1. run.pc = "replay" /\ run.phase \in {"start", "stop"}
    BY <1>3 DEF Replay, Phases
  <2> QED BY <1>3, <2>1, ReplayEffect DEF GaveUp
<1>4. CASE TakeBaseline
  BY <1>4, BaselineEffect DEF Phases
<1>5. CASE Read
  BY <1>5, ReadEffect DEF GaveUp, Goes
<1>6. CASE Rebind
  <2>1. run.chunk.file \in Files /\ ~IsTerminal(run.chunk)
    BY <1>6, ChunkFile DEF Rebind, Phases, InHand
  <2> QED BY <1>6, <2>1, RebindEffect DEF GaveUp, GaveUpWith
<1>7. CASE Skip
  <2>1. run.chunk.file \in Files /\ ~IsTerminal(run.chunk) /\ run.ret = "drain"
    BY <1>7, ChunkFile DEF Skip, Phases, InHand
  <2> QED BY <1>7, <2>1, SkipEffect DEF GaveUpWith
<1>8. CASE Spool
  BY <1>8, SpoolEffect DEF GaveUp, Went, Goes
<1>9. CASE Save
  BY <1>9, SaveEffect DEF GaveUp
<1>10. CASE RemovePending
  BY <1>10, RemoveEffect DEF GaveUp, Phases, InHand
<1>11. CASE PublishStatus
  BY <1>11, StatusEffect DEF Went, Goes
<1>12. CASE Beside \/ Crash \/ UNCHANGED vars
  BY <1>12, BesideEffect DEF Crash, vars, disk
<1> QED BY <1>1, <1>2, <1>3, <1>4, <1>5, <1>6, <1>7, <1>8, <1>9, <1>10, <1>11, <1>12, Steps

LEMMA MirroredStep ==
    ASSUME MemoryInv, [Next]_vars
    PROVE  Mirrored'
<1> USE DEF MemoryInv
<1>0. Down.pc = "down"
  BY DEF Down
<1>1. CASE run' = Down
  BY <1>0, <1>1 DEF Mirrored
<1>2. CASE run' # Down
  <2>1. run'.pc # "down" /\ run'.phase # "stop" => run'.mem = ckpt'
    <3>1. run'.phase # "stop" => run.phase # "stop"
      BY <1>2, MoveStep
    <3>2. CASE Start
      BY <3>2, StartEffect DEF ControlInv
    <3>3. CASE ~Start
      <4>1. run.pc # "down" \/ run' = run
        BY <1>2, <3>3, WrittenStep DEF Written, TakeBaseline, Rebind, Skip, Save
      <4> QED BY <1>2, <3>1, <3>3, <4>1, WrittenStep DEF Written, Mirrored
    <3> QED BY <3>2, <3>3
  <2>2. run'.pc = "remove" => run'.mem = ckpt' /\ Acked(ckpt', run'.chunk)
    <3> SUFFICES ASSUME run'.pc = "remove" PROVE run'.mem = ckpt' /\ Acked(ckpt', run'.chunk)
      OBVIOUS
    <3>1. Save \/ run' = run
      BY <1>2, MoveStep
    <3>2. CASE Save
      <4>1. run.pc = "save" /\ ckpt' = Advance(run.mem, run.chunk) /\ run'.mem = ckpt' /\ run'.chunk = run.chunk
        BY <1>0, <3>2, SaveEffect DEF ControlInv, GaveUp
      <4>2. run.mem \in Checkpoint /\ run.chunk \in Manifest /\ Shaped(run.chunk)
        BY <4>1 DEF ControlInv, TypeOK, Process, Shapes, Known, Hand, InHand
      <4>3. Acked(Advance(run.mem, run.chunk), run.chunk)
        BY <4>2, AdvanceAcks
      <4> QED BY <4>1, <4>3
    <3>3. CASE run' = run /\ ~Save
      <4>1. ckpt' = ckpt
        BY <3>3, WrittenStep DEF Written, TakeBaseline, Rebind, Skip
      <4> QED BY <3>3, <4>1 DEF Mirrored
    <3> QED BY <3>1, <3>2, <3>3
  <2>3. run'.pc = "baseline" => ~run'.mem.saved
    BY <1>2, MoveStep DEF Mirrored, FirstStart
  <2> QED BY <2>1, <2>2, <2>3 DEF Mirrored, Acked, IsTerminal
<1> QED BY <1>1, <1>2

LEMMA StoppingStep ==
    ASSUME MemoryInv, [Next]_vars
    PROVE  Stopping'
<1> USE DEF MemoryInv
<1> SUFFICES ASSUME run'.phase = "stop" PROVE (Behind(ckpt', run'.mem) /\ Catching') \/ Advanced'
  BY DEF Stopping, Behind
<1> DEFINE A == Advance(run.mem, run.chunk)
           R == Rebound(run.mem, run.chunk)
           S == Skipped(run.mem, run.chunk)
<1>0. Down.pc = "down" /\ Down.phase = "start" /\ run' # Down
  BY DEF Down
<1>1. run.mem \in Checkpoint /\ run.chunk \in Manifest /\ ckpt \in Checkpoint /\ A \in Checkpoint
  BY AdvanceEffect DEF ControlInv, TypeOK, Process
<1>2. /\ SameAs(ckpt, ckpt) /\ Behind(ckpt, ckpt) /\ SameAs(run.mem, run.mem) /\ Behind(run.mem, run.mem)
      /\ SameAs(A, A) /\ Behind(A, A)
  BY <1>1, SameBehind
<1>3. CASE SameAs(ckpt', run'.mem) /\ Behind(ckpt', run'.mem)
  BY <1>3 DEF Catching, SameAs
<1>4. CASE pending' = {} /\ Behind(ckpt', run'.mem)
  BY <1>4 DEF Catching
<1>5. CASE Rebind
  <2>1. run.chunk.file \in Files /\ pending = {} /\ pending' = pending
    BY <1>5, ChunkFile DEF Rebind, ControlInv, Phases, InHand, SpoolHeld, Spooled
  <2>2. /\ SameAs(R, run.mem) /\ Behind(R, run.mem) /\ SameAs(R, R) /\ Behind(R, R)
        /\ Behind(ckpt, run.mem) => Behind(ckpt, R)
    BY <1>1, <2>1, ReboundSame
  <2>3. run.pc = "rebind"
    BY <1>5 DEF Rebind
  <2>4. CASE run.phase = "stop"
    <3>1. ckpt' = R /\ run'.mem = ckpt'
      BY <1>0, <1>5, <2>1, <2>4, RebindEffect DEF ControlInv, GaveUp, GaveUpWith
    <3> QED BY <1>3, <2>2, <3>1
  <2>5. CASE run.phase # "stop"
    <3>1. run.mem = ckpt
      BY <2>3, <2>5 DEF Mirrored
    <3>2. ckpt' \in {ckpt, R} /\ run'.mem \in {run.mem, R}
      BY <1>0, <1>5, <2>1, RebindEffect DEF ControlInv, GaveUp, GaveUpWith
    <3>3. Behind(ckpt', run'.mem)
      BY <1>2, <2>2, <3>1, <3>2
    <3> QED BY <1>4, <2>1, <3>3
  <2> QED BY <2>4, <2>5
<1>6. CASE Skip
  <2>1. run.chunk.file \in Files /\ pending = {} /\ pending' = pending /\ run.ret = "drain" /\ run.pc = "skip"
        /\ ~IsTerminal(run.chunk) /\ IsPrefix(run.chunk.start, run.chunk.end)
    BY <1>6, ChunkFile DEF Skip, ControlInv, Phases, InHand, SpoolHeld, Spooled
  <2>2. S \in Checkpoint /\ Behind(run.mem, S)
    BY <1>1, <2>1, SkippedEffect, SkippedBehind DEF Fitting, InHand
  <2>3. SameAs(S, S) /\ Behind(S, S)
    BY <2>2, SameBehind
  <2>4. CASE run.phase = "stop"
    <3>1. ckpt' = S /\ run'.mem = ckpt'
      BY <1>0, <1>6, <2>1, <2>4, SkipEffect DEF ControlInv, GaveUpWith
    <3> QED BY <1>3, <2>3, <3>1
  <2>5. CASE run.phase # "stop"
    <3>1. run.mem = ckpt
      BY <2>1, <2>5 DEF Mirrored
    <3>2. ckpt' \in {ckpt, S} /\ run'.mem = S
      BY <1>0, <1>6, <2>1, SkipEffect DEF ControlInv, GaveUpWith
    <3> QED BY <1>4, <2>1, <2>2, <2>3, <3>1, <3>2
  <2> QED BY <2>4, <2>5
<1>7. CASE Save
  <2>1. run.pc = "save" /\ pending' = pending /\ pending = {run.chunk} /\ Fits(run.mem, run.chunk)
    BY <1>7 DEF Save, ControlInv, SpoolHeld, Spooled, Fitting, InHand
  <2>2. CASE run.phase = "stop"
    <3>1. ckpt' = A /\ run'.mem = ckpt'
      BY <1>0, <1>7, <2>2, SaveEffect DEF ControlInv, GaveUp
    <3> QED BY <1>2, <1>3, <3>1
  <2>3. CASE run.phase # "stop"
    <3>1. run.mem = ckpt
      BY <2>1, <2>3 DEF Mirrored
    <3>2. ckpt' \in {ckpt, A} /\ run'.mem = run.mem /\ run'.pc = "await"
      BY <1>0, <1>7, <2>3, SaveEffect DEF ControlInv, GaveUp
    <3>3. CASE ckpt' = ckpt
      BY <1>2, <1>3, <3>1, <3>2, <3>3
    <3>4. CASE ckpt' = A
      BY <2>1, <3>2, <3>4 DEF Advanced, Fits
    <3> QED BY <3>2, <3>3, <3>4
  <2> QED BY <2>2, <2>3
<1>8. CASE ~Rebind /\ ~Skip /\ ~Save
  <2>1. ~TakeBaseline
    BY <1>0, BaselineEffect DEF ControlInv, Phases
  <2>2. ~Start
    BY StartEffect DEF ControlInv
  <2>3. ckpt' = ckpt /\ run'.mem = run.mem
    BY <1>0, <1>8, <2>1, <2>2, WrittenStep DEF Written
  <2>4. CASE run.phase # "stop"
    <3>1. run.mem = ckpt
      BY <1>0, <2>4, MoveStep DEF Mirrored
    <3> QED BY <1>2, <1>3, <2>3, <3>1
  <2>5. CASE run.phase = "stop" /\ Behind(ckpt, run.mem) /\ Catching
    <3>1. run'.pc \in {"await", "replay"} => run.pc \in {"await", "replay"} /\ pending' = pending
      BY <1>0, <2>5, MoveStep
    <3> QED BY <2>3, <2>5, <3>1 DEF Catching, SameAs
  <2>6. CASE run.phase = "stop" /\ Advanced
    <3>1. PICK m \in pending : ckpt = Advance(run.mem, m) /\ Fits(run.mem, m)
      BY <2>6 DEF Advanced
    <3>2. ~(m.seq < run.mem.next)
      BY <1>1, <3>1 DEF Fits, Checkpoint
    <3>3. run'.pc \in {"await", "replay", "deliver", "final", "save"} /\ pending' = pending
      BY <1>0, <1>8, <2>6, <3>2, MoveStep DEF Advanced
    <3> QED BY <2>3, <3>1, <3>3 DEF Advanced, Fits
  <2> QED BY <2>4, <2>5, <2>6 DEF Stopping
<1> QED BY <1>5, <1>6, <1>7, <1>8

LEMMA MemoryInit == Init => MemoryInv
<1> SUFFICES ASSUME Init PROVE MemoryInv
  OBVIOUS
<1>1. Down.pc = "down" /\ Down.phase = "start" /\ Down.mem = NoCheckpoint
  BY DEF Down
<1>2. run = Down /\ ckpt = NoCheckpoint
  BY DEF Init
<1>3. Sound(NoCheckpoint)
  <2>1. \A f \in Files : NoCheckpoint.source[f].prefix = <<>>
    BY DEF NoCheckpoint, NoSource
  <2> QED BY <2>1 DEF Sound
<1> QED BY <1>1, <1>2, <1>3, ControlInit DEF MemoryInv, Soundness, Fitting, Mirrored, Stopping, InHand

LEMMA MemoryNext == MemoryInv /\ [Next]_vars => MemoryInv'
<1> SUFFICES ASSUME MemoryInv, [Next]_vars PROVE MemoryInv'
  OBVIOUS
<1>1. ControlInv'
  BY ControlNext DEF MemoryInv
<1>2. Soundness' /\ Fitting'
  BY SoundStep, FittingStep DEF MemoryInv
<1>3. Mirrored' /\ Stopping'
  BY MirroredStep, StoppingStep
<1> QED BY <1>1, <1>2, <1>3 DEF MemoryInv

-----------------------------------------------------------------------------
(* The checkpoint never goes back *)

Grows(c, d) ==
    /\ c.next <= d.next
    /\ \A f \in Files : IsPrefix(c.source[f].prefix, d.source[f].prefix)
    /\ c.terminals \subseteq d.terminals

LEMMA GrowsTrans ==
    ASSUME NEW c \in Checkpoint, NEW d \in Checkpoint, NEW e \in Checkpoint, Grows(c, d), Grows(d, e)
    PROVE  Grows(c, e)
<1>1. c.next <= e.next
  BY DEF Checkpoint, Grows
<1>2. \A f \in Files : /\ c.source[f].prefix \in Seq(Tokens) /\ d.source[f].prefix \in Seq(Tokens)
                       /\ e.source[f].prefix \in Seq(Tokens)
  BY DEF Checkpoint, SourceCheckpoint
<1>3. \A f \in Files : IsPrefix(c.source[f].prefix, e.source[f].prefix)
  BY <1>2, PrefixTrans DEF Grows
<1> QED BY <1>1, <1>3 DEF Grows

LEMMA BehindGrows ==
    ASSUME NEW c \in Checkpoint, NEW d \in Checkpoint, Behind(c, d)
    PROVE  Grows(c, d)
<1>1. c.next <= d.next
  BY DEF Checkpoint, Behind
<1> QED BY <1>1 DEF Behind, Grows

LEMMA AdvanceGrows ==
    ASSUME NEW c \in Checkpoint, NEW m \in Manifest, Shaped(m), Fits(c, m)
    PROVE  Grows(c, Advance(c, m))
<1> DEFINE d == Advance(c, m)
<1>1. /\ d.next = m.seq + 1
      /\ d.terminals = IF IsTerminal(m) THEN c.terminals \cup {ReportedStatus(m)} ELSE c.terminals
      /\ \A f \in Files : d.source[f] = IF ~IsTerminal(m) /\ f = m.file THEN Collected(m) ELSE c.source[f]
  BY AdvanceEffect
<1> HIDE DEF d
<1>2. c.next <= d.next
  BY <1>1 DEF Fits, Checkpoint
<1>3. c.terminals \subseteq d.terminals
  BY <1>1
<1>4. \A f \in Files : IsPrefix(c.source[f].prefix, c.source[f].prefix)
  BY SameBehind DEF Behind
<1>5. Collected(m).prefix = m.end
  BY DEF Collected
<1>6. \A f \in Files : IsPrefix(c.source[f].prefix, d.source[f].prefix)
  BY <1>1, <1>4, <1>5 DEF Fits, Shaped
<1>7. Grows(c, d)
  BY <1>2, <1>3, <1>6 DEF Grows
<1> QED BY <1>7 DEF d

LEMMA CheckpointStep ==
    ASSUME MemoryInv, [Next]_vars
    PROVE  Grows(ckpt, ckpt')
<1> USE DEF MemoryInv
<1> DEFINE A == Advance(run.mem, run.chunk)
           R == Rebound(run.mem, run.chunk)
           S == Skipped(run.mem, run.chunk)
<1>1. run.mem \in Checkpoint /\ run.chunk \in Manifest /\ ckpt \in Checkpoint
  BY DEF ControlInv, TypeOK, Process
<1>2. Grows(ckpt, ckpt)
  BY <1>1, SameBehind, BehindGrows
<1>3. CASE ckpt' = ckpt
  BY <1>2, <1>3
<1>4. CASE TakeBaseline /\ ckpt' = Baselined
  <2>1. run.pc = "baseline" /\ run.phase = "start"
    BY <1>4 DEF TakeBaseline, ControlInv, Phases
  <2>2. run.mem = ckpt /\ ckpt = NoCheckpoint
    BY <2>1 DEF Mirrored, Soundness, Sound
  <2>3. /\ Baselined \in Checkpoint
        /\ Baselined.next = ckpt.next /\ Baselined.terminals = ckpt.terminals
    BY <2>2, BaselinedEffect DEF ControlInv
  <2>4. \A f \in Files : Baselined.source[f].prefix \in Seq(Tokens)
    BY <2>3 DEF Checkpoint, SourceCheckpoint
  <2>5. \A f \in Files : ckpt.source[f].prefix = <<>>
    BY <2>2 DEF NoCheckpoint, NoSource
  <2>6. \A f \in Files : IsPrefix(ckpt.source[f].prefix, Baselined.source[f].prefix)
    BY <2>4, <2>5, PrefixEmpty
  <2>7. Behind(ckpt, Baselined)
    BY <2>3, <2>6 DEF Behind
  <2> QED BY <1>1, <1>4, <2>3, <2>7, BehindGrows
<1>5. ASSUME run.pc \in {"rebind", "skip"} PROVE Behind(ckpt, run.mem)
  BY <1>1, <1>5, SameBehind DEF Mirrored, Stopping, Advanced
<1>6. CASE Rebind /\ run.chunk.file \in Files /\ ckpt' = R
  <2>1. Behind(ckpt, R) /\ R \in Checkpoint
    BY <1>1, <1>5, <1>6, ReboundSame, ReboundEffect DEF Rebind
  <2> QED BY <1>1, <1>6, <2>1, BehindGrows
<1>7. CASE Skip /\ run.chunk.file \in Files /\ ~IsTerminal(run.chunk) /\ ckpt' = S
  <2>1. Shaped(run.chunk) /\ run.pc = "skip" /\ Fits(run.mem, run.chunk)
    BY <1>7 DEF Skip, ControlInv, Shapes, Known, Hand, InHand, Fitting
  <2>2. Behind(run.mem, S) /\ S \in Checkpoint
    BY <1>1, <1>7, <2>1, SkippedBehind, SkippedEffect DEF Shaped
  <2>3. Grows(ckpt, run.mem) /\ Grows(run.mem, S)
    BY <1>1, <1>5, <2>1, <2>2, BehindGrows
  <2> QED BY <1>1, <1>7, <2>2, <2>3, GrowsTrans
<1>8. CASE Save /\ ckpt' = A
  <2>1. Shaped(run.chunk) /\ run.pc = "save" /\ Fits(run.mem, run.chunk) /\ pending = {run.chunk}
    BY <1>8 DEF Save, ControlInv, Shapes, Known, Hand, InHand, Fitting, SpoolHeld, Spooled
  <2>2. Grows(run.mem, A) /\ A \in Checkpoint
    BY <1>1, <2>1, AdvanceGrows, AdvanceEffect
  <2>3. CASE ckpt = A
    BY <1>2, <1>8, <2>3
  <2>4. CASE Behind(ckpt, run.mem)
    <3>1. Grows(ckpt, run.mem)
      BY <1>1, <2>4, BehindGrows
    <3> QED BY <1>1, <1>8, <2>2, <3>1, GrowsTrans
  <2>5. ckpt = A \/ Behind(ckpt, run.mem)
    BY <1>1, <2>1, SameBehind DEF Mirrored, Stopping, Advanced
  <2> QED BY <2>3, <2>4, <2>5
<1> QED BY <1>3, <1>4, <1>6, <1>7, <1>8, WrittenStep DEF Written

\* The checkpoint never goes back: not its sequence number, not an offset, not a
\* terminal status; across failed writes, crashes, and a shutdown that goes on with a
\* memory the file is behind of.
THEOREM SpoolCheckpointGrows == Spec => CheckpointGrows
<1> DEFINE More == /\ ckpt.next <= ckpt'.next
                   /\ \A f \in Files : IsPrefix(ckpt.source[f].prefix, ckpt'.source[f].prefix)
                   /\ ckpt.terminals \subseteq ckpt'.terminals
<1>1. MemoryInv /\ [Next]_vars => [More]_vars
  BY CheckpointStep DEF Grows
<1> QED BY <1>1, MemoryInit, MemoryNext, PTL DEF Spec, CheckpointGrows

-----------------------------------------------------------------------------
(* What a checkpoint or a chunk is about survives a power loss *)

\* Prefix s of history f is there, and on stable storage.
Durable(f, s) == IsPrefix(s, file[f].data) /\ Len(s) <= file[f].synced

Kept ==
    /\ \A f \in Files : Durable(f, ckpt.source[f].prefix) /\ Durable(f, run.mem.source[f].prefix)
    /\ \A m \in Known : ~IsTerminal(m) => Durable(m.file, m.end)

LEMMA DurableStep ==
    ASSUME ControlInv, [Next]_vars, NEW f \in Files, NEW s \in Seq(Tokens), Durable(f, s)
    PROVE  IsPrefix(s, file'[f].data) /\ Len(s) <= file'[f].synced
<1> DEFINE d == file[f].data
           e == file'[f].data
<1>1. /\ d \in Seq(Tokens) /\ Len(d) \in Nat /\ Len(s) \in Nat /\ file[f].synced \in Nat
      /\ IsPrefix(s, d) /\ Len(s) <= file[f].synced
  BY LenProperties DEF ControlInv, TypeOK, History, Durable
<1>2. file'[f] \in History /\ file[f].synced <= file'[f].synced
  BY FileStep DEF ControlInv
<1>3. Len(s) <= file'[f].synced
  BY <1>1, <1>2 DEF History
<1>4. CASE e = d
  BY <1>1, <1>3, <1>4
<1>5. CASE \E token \in Tokens : e = Append(d, token)
  BY <1>1, <1>3, <1>5, PrefixAppend
<1>6. CASE \E n \in file[f].synced..Len(d) : e = SubSeq(d, 1, n)
  <2>1. PICK n \in file[f].synced..Len(d) : e = SubSeq(d, 1, n)
    BY <1>6
  <2>2. n \in 0..Len(d) /\ Len(s) <= n
    BY <1>1
  <2>3. IsPrefix(s, SubSeq(d, 1, n))
    BY <1>1, <2>2, PrefixCut
  <2> QED BY <1>3, <2>1, <2>3
<1> QED BY <1>4, <1>5, <1>6, FileStep DEF ControlInv

\* Where the prefixes of the checkpoints come from.
LEMMA PrefixFrom ==
    ASSUME MemoryInv, [Next]_vars, NEW f \in Files, NEW c \in {ckpt', run'.mem}
    PROVE  \/ c.source[f].prefix \in {ckpt.source[f].prefix, run.mem.source[f].prefix, <<>>}
           \/ /\ run.pc \in {"skip", "save"} /\ ~IsTerminal(run.chunk)
              /\ f = run.chunk.file /\ c.source[f].prefix = run.chunk.end
           \/ /\ TakeBaseline /\ run.pc = "baseline"
              /\ c.source[f].prefix = SubSeq(file[f].data, 1, LastNewline(file[f].data))
<1> USE DEF MemoryInv
<1> DEFINE A == Advance(run.mem, run.chunk)
           R == Rebound(run.mem, run.chunk)
           S == Skipped(run.mem, run.chunk)
<1>1. run.mem \in Checkpoint /\ run.chunk \in Manifest
  BY DEF ControlInv, TypeOK, Process
<1>2. NoSource.prefix = <<>> /\ NoCheckpoint.source[f] = NoSource /\ Down.mem = NoCheckpoint
  BY DEF NoSource, NoCheckpoint, Down
<1>3. A.source[f].prefix = run.mem.source[f].prefix
      \/ (~IsTerminal(run.chunk) /\ f = run.chunk.file /\ A.source[f].prefix = run.chunk.end)
  <2>1. A.source[f] = IF ~IsTerminal(run.chunk) /\ f = run.chunk.file THEN Collected(run.chunk) ELSE run.mem.source[f]
    BY <1>1, AdvanceEffect
  <2>2. Collected(run.chunk).prefix = run.chunk.end
    BY DEF Collected
  <2> HIDE DEF A
  <2> QED BY <2>1, <2>2
<1>4. run.chunk.file \in Files => R.source[f].prefix = run.mem.source[f].prefix
  BY <1>1, ReboundEffect
<1>5. run.chunk.file \in Files =>
         S.source[f].prefix = run.mem.source[f].prefix \/ (f = run.chunk.file /\ S.source[f].prefix = run.chunk.end)
  BY <1>1, SkippedEffect
<1>6. Baselined.source[f].prefix \in {<<>>, SubSeq(file[f].data, 1, LastNewline(file[f].data))}
  BY <1>2, BaselinedEffect DEF ControlInv
<1> HIDE DEF A, R, S
<1>7. \/ c \in {ckpt, run.mem, NoCheckpoint}
      \/ TakeBaseline /\ c = Baselined
      \/ run.chunk.file \in Files /\ c = R
      \/ Skip /\ run.chunk.file \in Files /\ ~IsTerminal(run.chunk) /\ c = S
      \/ Save /\ c = A
  <2>1. Start => run'.mem = ckpt
    BY StartEffect DEF ControlInv
  <2> QED BY <1>2, <2>1, WrittenStep DEF Written, A, R, S
<1>8. CASE c \in {ckpt, run.mem, NoCheckpoint}
  BY <1>2, <1>8
<1>9. CASE TakeBaseline /\ c = Baselined
  BY <1>6, <1>9 DEF TakeBaseline
<1>10. CASE run.chunk.file \in Files /\ c = R
  BY <1>4, <1>10
<1>11. CASE Skip /\ run.chunk.file \in Files /\ ~IsTerminal(run.chunk) /\ c = S
  BY <1>5, <1>11 DEF Skip
<1>12. CASE Save /\ c = A
  BY <1>3, <1>12 DEF Save
<1> QED BY <1>7, <1>8, <1>9, <1>10, <1>11, <1>12

LEMMA KeptStep ==
    ASSUME MemoryInv, Kept, [Next]_vars
    PROVE  Kept'
<1> USE DEF MemoryInv
<1>0. /\ ckpt \in Checkpoint /\ run.mem \in Checkpoint /\ Known \subseteq Manifest
      /\ \A f \in Files : file[f].data \in Seq(Tokens) /\ file[f].synced <= Len(file[f].data)
  <2>1. run.pc \in InHand => run.chunk \in Manifest
    BY DEF ControlInv, TypeOK, Process
  <2> QED BY <2>1 DEF ControlInv, TypeOK, Process, Known, Hand, History
<1>1. ASSUME NEW f \in Files, NEW c \in {ckpt', run'.mem}
      PROVE  IsPrefix(c.source[f].prefix, file'[f].data) /\ Len(c.source[f].prefix) <= file'[f].synced
  <2>1. CASE c.source[f].prefix \in {ckpt.source[f].prefix, run.mem.source[f].prefix}
    <3>1. c.source[f].prefix \in Seq(Tokens) /\ Durable(f, c.source[f].prefix)
      BY <1>0, <2>1 DEF Kept, Checkpoint, SourceCheckpoint
    <3> QED BY <3>1, DurableStep
  <2>2. CASE c.source[f].prefix = <<>>
    <3>1. file'[f] \in History
      BY FileStep DEF ControlInv
    <3>2. file'[f].data \in Seq(Tokens) /\ file'[f].synced \in Nat
      BY <3>1 DEF History
    <3>3. IsPrefix(<<>>, file'[f].data) /\ Len(<<>>) = 0
      BY <3>2, PrefixEmpty, EmptySeq
    <3> QED BY <2>2, <3>2, <3>3
  <2>3. CASE run.pc \in {"skip", "save"} /\ ~IsTerminal(run.chunk)
             /\ f = run.chunk.file /\ c.source[f].prefix = run.chunk.end
    <3>1. run.chunk \in Known
      BY <2>3 DEF Known, Hand, InHand
    <3>2. run.chunk.end \in Seq(Tokens) /\ Durable(f, run.chunk.end)
      BY <1>0, <2>3, <3>1 DEF Kept, Manifest
    <3> QED BY <2>3, <3>2, DurableStep
  <2>4. CASE TakeBaseline /\ c.source[f].prefix = SubSeq(file[f].data, 1, LastNewline(file[f].data))
    <3> DEFINE n == LastNewline(file[f].data)
               p == SubSeq(file[f].data, 1, n)
    <3>1. file[f].data \in Seq(Tokens) /\ n \in 0..Len(file[f].data) /\ Len(file[f].data) \in Nat
      BY <1>0, LastNewlineIn, LenProperties
    <3>2. IsPrefix(p, file[f].data) /\ Len(p) = n
      BY <3>1, CutSeq
    <3>3. file'[f] = [file[f] EXCEPT !.synced = Len(file[f].data)]
      BY <2>4 DEF TakeBaseline
    <3>4. file'[f].synced = Len(file[f].data) /\ file'[f].data = file[f].data
      BY <3>3 DEF ControlInv, TypeOK, History
    <3> HIDE DEF p, n
    <3>5. c.source[f].prefix = p
      BY <2>4 DEF p, n
    <3> QED BY <3>1, <3>2, <3>4, <3>5
  <2> QED BY <2>1, <2>2, <2>3, <2>4, PrefixFrom
<1>2. ASSUME NEW m \in Known', ~IsTerminal(m)
      PROVE  IsPrefix(m.end, file'[m.file].data) /\ Len(m.end) <= file'[m.file].synced
  <2>1. CASE m \in Known
    <3>1. m.file \in Files /\ m.end \in Seq(Tokens) /\ Durable(m.file, m.end)
      BY <1>0, <1>2, <2>1 DEF Kept, ControlInv, Shapes, Shaped, Manifest
    <3> QED BY <3>1, DurableStep
  <2>2. CASE Read /\ (\E stamp \in Stamps : m = NewChunk(Min(run.todo), stamp))
             /\ IsPrefix(run.mem.source[Min(run.todo)].prefix, file[Min(run.todo)].data) /\ SyncSource(Min(run.todo))
    <3> DEFINE f == Min(run.todo)
    <3>1. f \in Files
      BY <2>2, ReadEffect DEF ControlInv
    <3>2. m \in Manifest /\ m.file = f /\ IsPrefix(m.end, file[f].data)
      BY <2>2, <3>1, NewChunkEffect DEF ControlInv
    <3> HIDE DEF f
    <3>3. file'[f].synced = Len(file[f].data) /\ file'[f].data = file[f].data
      <4>1. file' = [file EXCEPT ![f].synced = Len(file[f].data)]
        BY <2>2 DEF SyncSource, f
      <4> QED BY <3>1, <4>1 DEF ControlInv, TypeOK, History
    <3>4. m.end \in Seq(Tokens) /\ Len(m.end) <= Len(file[f].data)
      BY <1>0, <3>1, <3>2, PrefixDef DEF Manifest
    <3> QED BY <3>2, <3>3, <3>4
  <2>3. CASE PublishStatus /\ \E stamp \in Stamps : m = StatusChunk(stamp)
    <3>1. Shaped(m)
      BY ShapesStep DEF ControlInv, Shapes, Shaped, IsTerminal
    <3>2. m.file = 0 /\ 0 \notin Files
      BY <2>3, StatusChunkEffect DEF ControlInv, Files
    <3> QED BY <1>2, <3>1, <3>2 DEF Shaped
  <2> QED BY <2>1, <2>2, <2>3, KnownStep DEF ControlInv
<1> QED BY <1>1, <1>2 DEF Kept, Durable, IsTerminal

LEMMA KeptInit == Init => Kept
<1> SUFFICES ASSUME Init PROVE Kept
  OBVIOUS
<1>1. TypeOK /\ Known = {}
  BY ControlInit DEF ControlInv, Init, Known, Hand, InHand, Down
<1>2. ASSUME NEW f \in Files PROVE Durable(f, <<>>)
  <2>1. file[f].data \in Seq(Tokens) /\ file[f].synced \in Nat
    BY <1>1 DEF TypeOK, History
  <2>2. IsPrefix(<<>>, file[f].data) /\ Len(<<>>) = 0
    BY <2>1, PrefixEmpty, EmptySeq
  <2> QED BY <2>1, <2>2 DEF Durable
<1>3. \A f \in Files : ckpt.source[f].prefix = <<>> /\ run.mem.source[f].prefix = <<>>
  BY DEF Init, Down, NoCheckpoint, NoSource
<1> QED BY <1>1, <1>2, <1>3 DEF Kept

\* A power loss never takes back what a checkpoint or a pending chunk is about, because
\* readSource syncs a history before it hands out what it has read: at the next start
\* its prefix is found again.
THEOREM SpoolPrefixKept == Spec => []PrefixKept
<1> DEFINE Inv == MemoryInv /\ Kept
<1>1. Init => Inv
  BY MemoryInit, KeptInit
<1>2. Inv /\ [Next]_vars => Inv'
  BY MemoryNext, KeptStep
<1>3. Inv => PrefixKept
  <2> SUFFICES ASSUME MemoryInv, Kept PROVE PrefixKept
    OBVIOUS
  <2>1. ASSUME NEW f \in Files, NEW m \in pending, m.file = f PROVE IsPrefix(m.end, file[f].data)
    <3>1. m \in Known /\ 0 \notin Files
      BY DEF Known, Files
    <3>2. ~IsTerminal(m)
      BY <2>1, <3>1 DEF MemoryInv, ControlInv, Shapes, Shaped
    <3> QED BY <2>1, <3>1, <3>2 DEF Kept, Durable
  <2> QED BY <2>1 DEF PrefixKept, Kept, Durable
<1> HIDE DEF Inv
<1> QED BY <1>1, <1>2, <1>3, PTL DEF Spec

-----------------------------------------------------------------------------
(* Nothing is checkpointed before ADX has it *)

Stored(c) == \A f \in Files : \A i \in Rows(f, c.source[f].prefix) : Ingested(f, i)

\* With a baseline, nothing is written to a history before its checkpoint is saved.
Fresh ==
    Baseline /\ ~ckpt.saved =>
        \A f \in Files : base[f] = LastNewline(file[f].data) /\ file[f].synced = Len(file[f].data)
Prepared ==
    /\ Baseline /\ (ready \/ run.pc = "ready") => ckpt.saved
    /\ run.pc = "baseline" => Baseline
    /\ run.pc = "remove" => ckpt.saved

InTable == run.pc \in {"save", "remove"} => run.chunk \in table

LossInv == MemoryInv /\ Kept /\ Fresh /\ Prepared /\ InTable /\ Stored(ckpt) /\ Stored(run.mem)

LEMMA SinkStep ==
    ASSUME ControlInv, [Next]_vars
    PROVE  /\ base' = base /\ table \subseteq table' /\ queued' \cup table' \subseteq queued \cup table \cup {run.chunk}
           /\ queued \cup table \subseteq queued' \cup table'
           /\ queued' \cup table' = queued \cup table \/ run.pc = "deliver"
           /\ ready' => ready \/ run.pc = "ready"
<1> USE DEF ControlInv
<1>1. CASE Light
  BY <1>1, LightEffect DEF TypeOK
<1>2. CASE Start \/ Replay \/ TakeBaseline \/ Read \/ Spool \/ Save \/ RemovePending \/ PublishStatus
  <2>1. UNCHANGED <<base, ready, queued, table>>
    BY <1>2, StartEffect, ReplayEffect, BaselineEffect, ReadEffect, SpoolEffect, SaveEffect, RemoveEffect, StatusEffect
  <2> QED BY <2>1
<1>3. CASE Rebind \/ Skip
  BY <1>3 DEF Rebind, Skip, files, sink, sentinels
<1>4. CASE Beside
  <2>1. base' = base /\ table \subseteq table' /\ queued' \cup table' = queued \cup table
    BY <1>4 DEF Beside, Ingest, Signal, Complete, Expire, NewAttempt, Replace, Write, sink, files
  <2>2. ready' = ready \/ ready' = FALSE
    BY <1>4 DEF Beside, Ingest, Signal, Complete, Expire, NewAttempt, Replace, Write, sentinels
  <2> QED BY <2>1, <2>2
<1>5. CASE Crash \/ UNCHANGED vars
  BY <1>5 DEF Crash, vars, sink, files, sentinels
<1> QED BY <1>1, <1>2, <1>3, <1>4, <1>5, Steps

LEMMA SavedStep ==
    ASSUME MemoryInv, [Next]_vars
    PROVE  ckpt' = ckpt \/ ckpt'.saved
<1> USE DEF MemoryInv
<1>1. run.mem \in Checkpoint /\ run.chunk \in Manifest
  BY DEF ControlInv, TypeOK, Process
<1>2. /\ Advance(run.mem, run.chunk).saved /\ Baselined.saved
      /\ run.chunk.file \in Files => Rebound(run.mem, run.chunk).saved /\ Skipped(run.mem, run.chunk).saved
  BY <1>1, AdvanceEffect, ReboundEffect, SkippedEffect, BaselinedEffect DEF ControlInv
<1> QED BY <1>2, WrittenStep DEF Written

LEMMA FreshStep ==
    ASSUME MemoryInv, Fresh, Prepared, [Next]_vars
    PROVE  Fresh'
<1> SUFFICES ASSUME Baseline, ~ckpt'.saved, NEW f \in Files
             PROVE  base'[f] = LastNewline(file'[f].data) /\ file'[f].synced = Len(file'[f].data)
  BY DEF Fresh
<1>1. ckpt' = ckpt /\ ~ckpt.saved /\ ~ready
  BY SavedStep DEF Prepared
<1>2. base[f] = LastNewline(file[f].data) /\ file[f].synced = Len(file[f].data)
  BY <1>1 DEF Fresh
<1>3. /\ file[f].data \in Seq(Tokens) /\ Len(file[f].data) \in Nat
      /\ file'[f] \in History /\ file[f].synced <= file'[f].synced /\ file'[f].synced <= Len(file'[f].data)
  BY FileStep, LenProperties DEF MemoryInv, ControlInv, TypeOK, History
<1>4. file'[f].data = file[f].data
  <2>1. CASE \E n \in file[f].synced..Len(file[f].data) : file'[f].data = SubSeq(file[f].data, 1, n)
    <3>1. file'[f].data = SubSeq(file[f].data, 1, Len(file[f].data))
      BY <1>2, <1>3, <2>1
    <3> QED BY <1>3, <3>1, SubSeqFull
  <2> QED BY <1>1, <2>1, FileStep DEF MemoryInv, ControlInv
<1>5. file'[f].synced = Len(file'[f].data)
  BY <1>2, <1>3, <1>4 DEF History
<1> QED BY <1>2, <1>4, <1>5, SinkStep DEF MemoryInv

LEMMA PreparedStep ==
    ASSUME MemoryInv, Prepared, [Next]_vars
    PROVE  Prepared'
<1> USE DEF MemoryInv
<1>0. Down.pc = "down"
  BY DEF Down
<1>1. ckpt.saved => ckpt'.saved
  BY SavedStep
<1>2. run'.pc = "baseline" => Baseline
  BY <1>0, MoveStep DEF Prepared, FirstStart
<1>3. run'.pc = "remove" => ckpt'.saved
  <2>1. ASSUME Save, run'.pc = "remove" PROVE ckpt'.saved
    <3>1. run.mem \in Checkpoint /\ run.chunk \in Manifest
      BY DEF ControlInv, TypeOK, Process
    <3>2. ckpt' = Advance(run.mem, run.chunk)
      BY <1>0, <2>1, SaveEffect DEF ControlInv, GaveUp
    <3> QED BY <3>1, <3>2, AdvanceEffect
  <2> QED BY <1>0, <1>1, <2>1, MoveStep DEF Prepared
<1>4. Baseline /\ ready' => ckpt'.saved
  BY <1>1, SinkStep DEF Prepared
<1>5. ASSUME Baseline, run'.pc = "ready" PROVE ckpt'.saved
  <2>1. CASE run' = run
    BY <1>1, <1>5, <2>1 DEF Prepared
  <2>2. CASE Replay
    <3>1. /\ run.phase = "start" /\ run.pc = "replay" /\ ckpt' = ckpt
          /\ ~(FirstStart(run.mem) /\ pending = {})
          /\ \A m \in pending : Acknowledges(run.mem, m) /\ m.seq < run.mem.next
      <4>1. run.phase \in {"start", "stop"}
        BY <2>2 DEF Replay, ControlInv, Phases
      <4> QED BY <1>0, <1>5, <2>2, <4>1, ReplayEffect DEF ControlInv, GaveUp
    <3>2. run.mem = ckpt
      BY <3>1 DEF Mirrored
    <3>3. ASSUME ~ckpt.saved PROVE FALSE
      <4>1. run.mem = NoCheckpoint
        BY <3>2, <3>3 DEF Soundness, Sound
      <4>2. PICK m \in pending : Acknowledges(NoCheckpoint, m)
        BY <1>5, <3>1, <3>2, <3>3, <4>1 DEF FirstStart
      <4>3. m \in Known
        BY DEF Known
      <4>4. NoCheckpoint.terminals = {} /\ \A f \in Files : ~NoCheckpoint.source[f].known
        BY DEF NoCheckpoint, NoSource
      <4> QED BY <4>2, <4>3, <4>4 DEF Acknowledges, ControlInv, Shapes, Shaped
    <3> QED BY <3>1, <3>3
  <2>3. CASE TakeBaseline
    BY <1>0, <1>5, <2>3, BaselineEffect, BaselinedEffect DEF ControlInv
  <2>4. CASE RemovePending
    BY <1>1, <2>4 DEF RemovePending, Prepared
  <2>5. CASE Light
    BY <1>0, <1>5, <2>5, LightEffect DEF ControlInv, LightMoves, GaveUp, Went, Goes
  <2>6. CASE Start \/ Read \/ Spool \/ Save \/ PublishStatus
    BY <1>0, <1>5, <2>6, StartEffect, ReadEffect, SpoolEffect, SaveEffect, StatusEffect DEF ControlInv, GaveUp, Went, Goes
  <2>7. CASE Rebind \/ Skip
    <3>1. run.chunk.file \in Files /\ run.ret = "drain"
      BY <2>7, ChunkFile DEF ControlInv, Phases, InHand, Rebind, Skip
    <3> QED BY <1>0, <1>5, <2>7, <3>1, RebindEffect, SkipEffect DEF ControlInv, GaveUp, GaveUpWith
  <2>8. CASE Beside \/ Crash \/ UNCHANGED vars
    BY <1>0, <1>5, <2>1, <2>8, BesideEffect DEF Crash, vars
  <2> QED BY <2>2, <2>3, <2>4, <2>5, <2>6, <2>7, <2>8, Steps
<1> QED BY <1>2, <1>3, <1>4, <1>5 DEF Prepared

LEMMA InTableStep ==
    ASSUME ControlInv, InTable, [Next]_vars
    PROVE  InTable'
<1>0. Down.pc = "down"
  BY DEF Down
<1>1. table \subseteq table'
  BY SinkStep
<1>2. CASE run'.pc \notin {"save", "remove"}
  BY <1>2 DEF InTable
<1>3. CASE run'.pc \in {"save", "remove"}
  <2>1. run'.chunk \in table
    <3>1. CASE Light
      BY <1>0, <1>3, <3>1, LightEffect DEF ControlInv, LightMoves, GaveUp, Went, Goes, Holds
    <3>2. CASE run' = run \/ Save
      BY <1>0, <1>3, <3>2, SaveEffect DEF ControlInv, GaveUp, InTable
    <3>3. CASE Start \/ Replay \/ TakeBaseline \/ Read \/ Spool \/ RemovePending \/ PublishStatus
      <4>1. Replay => run.phase \in {"start", "stop"}
        BY DEF Replay, ControlInv, Phases
      <4> QED BY <1>0, <1>3, <3>3, <4>1, StartEffect, ReplayEffect, BaselineEffect, ReadEffect, SpoolEffect, RemoveEffect,
               StatusEffect DEF ControlInv, GaveUp, Went, Goes, Phases, InHand
    <3>4. CASE Rebind \/ Skip
      BY <1>0, <1>3, <3>4, RebindEffect, SkipEffect, ChunkFile
         DEF ControlInv, GaveUp, GaveUpWith, Phases, InHand, Rebind, Skip
    <3> QED BY <1>0, <1>3, <3>1, <3>2, <3>3, <3>4, Steps, BesideEffect DEF Crash, vars
  <2> QED BY <1>1, <2>1 DEF InTable
<1> QED BY <1>2, <1>3

\* Past its start, a chunk has the rows that were read.
LEMMA UnreadRows ==
    ASSUME NEW s \in Seq(Tokens), NEW e \in Seq(Tokens), IsPrefix(s, e), ~HasEvents(Unread(e, s, TRUE)),
           NEW i \in 1..Len(e), i > Len(s)
    PROVE  e[i] # "row"
<1> DEFINE n == Len(e)
           k == Len(s) + 1
           u == SubSeq(e, k, n)
<1>0. Len(s) \in Nat /\ n \in Nat /\ k \in Int /\ k <= n /\ i - Len(s) \in 1..(n - k + 1)
  BY LenProperties
<1>1. u \in Seq(Tokens) /\ Len(u) = n - k + 1 /\ \A j \in 1..(n - k + 1) : u[j] = e[k + j - 1]
  <2> HIDE DEF k, n
  <2>1. \A j \in k..n : e[j] \in Tokens
    BY <1>0, ElementOfSeq DEF k, n
  <2>2. /\ SubSeq(e, k, n) \in Seq(Tokens)
        /\ Len(SubSeq(e, k, n)) = IF k <= n THEN n - k + 1 ELSE 0
        /\ \A j \in 1 .. n - k + 1 : SubSeq(e, k, n)[j] = e[k + j - 1]
    BY <1>0, <2>1, SubSeqProperties
  <2> QED BY <1>0, <2>2
<1>2. Unread(e, s, TRUE) = u
  BY DEF Unread
<1> HIDE DEF u
<1>3. DOMAIN u = 1..(n - k + 1)
  BY <1>1
<1>4. u[i - Len(s)] = e[i]
  <2>1. u[i - Len(s)] = e[k + (i - Len(s)) - 1]
    BY <1>0, <1>1
  <2>2. k + (i - Len(s)) - 1 = i
    BY <1>0
  <2> QED BY <2>1, <2>2
<1>5. u[i - Len(s)] # "row"
  BY <1>0, <1>2, <1>3 DEF HasEvents
<1> QED BY <1>4, <1>5

LEMMA StoredStep ==
    ASSUME LossInv, [Next]_vars
    PROVE  Stored(ckpt)' /\ Stored(run.mem)'
<1> USE DEF LossInv, MemoryInv
<1>0. base' = base /\ table \subseteq table'
  BY SinkStep
<1>1. ASSUME NEW c \in {ckpt', run'.mem}, NEW f \in Files, NEW i \in DOMAIN c.source[f].prefix,
             i > base[f], c.source[f].prefix[i] = "row"
      PROVE  \E m \in table' : Covers(m, f, i)
  <2> DEFINE p == c.source[f].prefix
  <2>1. CASE p \in {ckpt.source[f].prefix, run.mem.source[f].prefix}
    <3>1. i \in Rows(f, ckpt.source[f].prefix) \/ i \in Rows(f, run.mem.source[f].prefix)
      BY <1>1, <2>1 DEF Rows
    <3>2. Ingested(f, i)
      BY <3>1 DEF Stored
    <3> QED BY <1>0, <3>2 DEF Ingested
  <2>2. CASE p = <<>>
    BY <1>1, <2>2
  <2>3. CASE run.pc \in {"skip", "save"} /\ ~IsTerminal(run.chunk) /\ f = run.chunk.file /\ p = run.chunk.end
    <3> DEFINE m == run.chunk
    <3>1. m \in Known /\ m \in Manifest
      BY <2>3 DEF Known, Hand, InHand, ControlInv, TypeOK, Process
    <3>2. IsPrefix(m.start, m.end) /\ m.start = run.mem.source[f].prefix /\ m.start \in Seq(Tokens) /\ m.end \in Seq(Tokens)
      <4>1. Fits(run.mem, m)
        BY <2>3 DEF Fitting, InHand
      <4> QED BY <2>3, <3>1, <4>1 DEF Fits, ControlInv, Shapes, Shaped, Manifest
    <3>3. i \in 1..Len(m.end) /\ m.end[i] = "row" /\ Len(m.start) \in Nat
      BY <1>1, <2>3, <3>2, LenProperties
    <3>4. CASE i <= Len(m.start)
      <4>1. i \in DOMAIN m.start /\ m.start[i] = "row"
        BY <3>2, <3>3, <3>4, PrefixDef
      <4>2. i \in Rows(f, run.mem.source[f].prefix)
        BY <1>1, <3>2, <4>1 DEF Rows
      <4>3. Ingested(f, i)
        BY <4>2 DEF Stored
      <4> QED BY <1>0, <4>3 DEF Ingested
    <3>5. CASE i > Len(m.start)
      <4>1. CASE run.pc = "skip"
        <5>1. ~HasEvents(Unread(m.end, m.start, TRUE))
          BY <4>1 DEF Fitting, ChunkRows
        <5> HIDE DEF m
        <5>2. m.end[i] # "row"
          BY <3>2, <3>3, <3>5, <5>1, UnreadRows
        <5> QED BY <3>3, <5>2
      <4>2. CASE run.pc = "save"
        <5>1. m \in table
          BY <4>2 DEF InTable
        <5>2. Covers(m, f, i)
          BY <2>3, <3>3, <3>5 DEF Covers
        <5> QED BY <1>0, <5>1, <5>2
      <4> QED BY <2>3, <4>1, <4>2
    <3> QED BY <3>3, <3>4, <3>5
  <2>4. CASE TakeBaseline /\ run.pc = "baseline" /\ p = SubSeq(file[f].data, 1, LastNewline(file[f].data))
    <3>1. Baseline /\ ~ckpt.saved
      BY <2>4 DEF Prepared, Mirrored, ControlInv, Phases
    <3>2. base[f] = LastNewline(file[f].data)
      BY <3>1 DEF Fresh
    <3>3. file[f].data \in Seq(Tokens)
      BY DEF ControlInv, TypeOK, History
    <3>4. LastNewline(file[f].data) \in 0..Len(file[f].data)
      BY <3>3, LastNewlineIn
    <3>5. p \in Seq(Tokens) /\ Len(p) = base[f] /\ base[f] \in Nat
      BY <2>4, <3>2, <3>3, <3>4, CutSeq
    <3> QED BY <1>1, <3>5
  <2> QED BY <2>1, <2>2, <2>3, <2>4, PrefixFrom
<1> QED BY <1>0, <1>1 DEF Stored, Rows, Ingested, Covers

LEMMA LossInit == Init => LossInv
<1> SUFFICES ASSUME Init PROVE LossInv
  OBVIOUS
<1>1. Down.pc = "down" /\ run = Down /\ ready = FALSE
  BY DEF Down, Init
<1>2. \A f \in Files : ckpt.source[f].prefix = <<>> /\ run.mem.source[f].prefix = <<>>
  BY DEF Init, Down, NoCheckpoint, NoSource
<1>3. Stored(ckpt) /\ Stored(run.mem)
  BY <1>2 DEF Stored, Rows
<1>4. Fresh
  <2>1. \A f \in Files : \E d \in Startup : file[f] = [there |-> d # <<>>, id |-> 0, data |-> d, synced |-> Len(d)]
    BY DEF Init
  <2>2. ASSUME NEW f \in Files PROVE file[f].synced = Len(file[f].data)
    <3>1. PICK d \in Startup : file[f] = [there |-> d # <<>>, id |-> 0, data |-> d, synced |-> Len(d)]
      BY <2>1
    <3>2. file[f].data = d /\ file[f].synced = Len(d)
      BY <3>1
    <3> QED BY <3>2
  <2>3. Baseline => \A f \in Files : base[f] = LastNewline(file[f].data)
    BY DEF Init
  <2> QED BY <2>2, <2>3 DEF Fresh
<1> QED BY <1>1, <1>3, <1>4, MemoryInit, KeptInit DEF LossInv, Prepared, InTable

LEMMA LossNext == LossInv /\ [Next]_vars => LossInv'
<1> SUFFICES ASSUME LossInv, [Next]_vars PROVE LossInv'
  OBVIOUS
<1>1. MemoryInv' /\ Kept'
  BY MemoryNext, KeptStep DEF LossInv
<1>2. Fresh' /\ Prepared' /\ InTable'
  BY FreshStep, PreparedStep, InTableStep DEF LossInv, MemoryInv
<1> QED BY <1>1, <1>2, StoredStep DEF LossInv

\* Nothing is checkpointed before ADX has it: every row below a source's offset, past
\* the baseline, has been ingested, whatever fails, is retried or replayed in between.
THEOREM SpoolNothingLost == Spec => []NothingLost
<1>1. LossInv => NothingLost
  BY DEF LossInv, Stored, NothingLost
<1> QED BY <1>1, LossInit, LossNext, PTL DEF Spec

-----------------------------------------------------------------------------
(* Nothing is stored twice *)

\* Two chunks that bring nothing twice.
Apart(m, n) ==
    IF IsTerminal(m) THEN m.obs # n.obs
    ELSE n.file = m.file => Len(m.end) <= Len(n.start) \/ Len(n.end) <= Len(m.start)

\* What was sent is still in the spool, or acknowledged by the checkpoint.
Sent == \A m \in queued \cup table : m \in pending \/ Acked(ckpt, m)
Separate == \A m, n \in queued \cup table \cup pending : m # n => Apart(m, n)

LEMMA AckedGrows ==
    ASSUME NEW c \in Checkpoint, NEW d \in Checkpoint, NEW m \in Manifest, Shaped(m), Grows(c, d), Acked(c, m)
    PROVE  Acked(d, m)
<1>1. CASE IsTerminal(m)
  BY <1>1 DEF Acked, Grows
<1>2. CASE ~IsTerminal(m)
  <2> DEFINE p == c.source[m.file].prefix
             q == d.source[m.file].prefix
  <2>1. p \in Seq(Tokens) /\ q \in Seq(Tokens) /\ m.end \in Seq(Tokens) /\ IsPrefix(p, q)
    BY <1>2 DEF Shaped, Grows, Checkpoint, SourceCheckpoint, Manifest
  <2>2. Len(m.end) <= Len(p)
    BY <1>2 DEF Acked
  <2> HIDE DEF p, q
  <2>3. Len(m.end) \in Nat /\ Len(p) \in Nat /\ Len(q) \in Nat /\ Len(p) <= Len(q)
    BY <2>1, PrefixDef, LenProperties
  <2>4. Len(m.end) <= Len(q)
    BY <2>2, <2>3
  <2> QED BY <1>2, <2>4 DEF Acked, q
<1> QED BY <1>1, <1>2

\* A chunk leaves the spool when the checkpoint file acknowledges it.
LEMMA SpoolLeft ==
    ASSUME MemoryInv, [Next]_vars, NEW m \in pending, m \notin pending'
    PROVE  Acked(ckpt, m)
<1> USE DEF MemoryInv
<1>1. CASE Replay
  <2>1. pending' = {} /\ Acknowledges(run.mem, m) /\ m.seq < run.mem.next /\ run.pc = "replay"
    BY <1>1, ReplayEffect DEF ControlInv
  <2>2. Shaped(m) /\ m \in Manifest /\ run.mem \in Checkpoint
    BY DEF ControlInv, Shapes, Known, TypeOK, Process
  <2>3. Acked(run.mem, m)
    <3>1. CASE IsTerminal(m)
      BY <2>1, <3>1 DEF Acked, Acknowledges, ReportedStatus
    <3>2. CASE ~IsTerminal(m)
      <4>1. Len(run.mem.source[m.file].prefix) >= Len(m.end)
        BY <2>1, <3>2 DEF Acknowledges
      <4>2. run.mem.source[m.file].prefix \in Seq(Tokens) /\ m.end \in Seq(Tokens)
        BY <2>2, <3>2 DEF Shaped, Checkpoint, SourceCheckpoint, Manifest
      <4>3. Len(run.mem.source[m.file].prefix) \in Nat /\ Len(m.end) \in Nat
        BY <4>2, LenProperties
      <4>4. Len(m.end) <= Len(run.mem.source[m.file].prefix)
        BY <4>1, <4>3
      <4> QED BY <3>2, <4>4 DEF Acked
    <3> QED BY <3>1, <3>2
  <2>4. CASE run.phase # "stop"
    BY <2>1, <2>3, <2>4 DEF Mirrored
  <2>5. CASE run.phase = "stop"
    <3>1. ~Advanced
      <4> SUFFICES ASSUME NEW n \in pending, Fits(run.mem, n) PROVE FALSE
        BY DEF Advanced
      <4>1. n = m
        BY DEF ControlInv, SpoolHeld
      <4> QED BY <2>1, <2>2, <4>1 DEF Fits, Checkpoint
    <3>2. SameAs(ckpt, run.mem)
      BY <2>1, <2>5, <3>1 DEF Stopping, Catching
    <3> QED BY <2>2, <2>3, <3>2 DEF SameAs, Acked, Shaped
  <2> QED BY <2>4, <2>5
<1>2. CASE RemovePending
  <2>1. run.pc = "remove" /\ m = run.chunk
    BY <1>2, RemoveEffect DEF ControlInv
  <2> QED BY <2>1 DEF Mirrored
<1>3. CASE Light \/ Start \/ TakeBaseline \/ Read \/ Spool \/ Save \/ PublishStatus
  BY <1>3, LightEffect, StartEffect, BaselineEffect, ReadEffect, SpoolEffect, SaveEffect, StatusEffect DEF ControlInv
<1>4. CASE Rebind \/ Skip \/ Beside \/ Crash \/ UNCHANGED vars
  BY <1>4, BesideEffect DEF Rebind, Skip, Crash, vars, disk
<1> QED BY <1>1, <1>2, <1>3, <1>4, Steps

\* A chunk enters the spool when it is written, and ADX when it is in the spool.
LEMMA SpoolEntered ==
    ASSUME MemoryInv, [Next]_vars, NEW m \in queued' \cup table' \cup pending'
    PROVE  \/ m \in queued \cup table \cup pending /\ (m \in queued' \cup table' => m \in queued \cup table \/ m \in pending')
           \/ Spool /\ m = run.chunk
<1> USE DEF MemoryInv, ControlInv
<1>1. CASE Spool
  <2>1. pending' \subseteq pending \cup {run.chunk} /\ queued' = queued /\ table' = table
    BY <1>1, SpoolEffect
  <2> QED BY <1>1, <2>1
<1>2. CASE ~Spool
  <2>1. pending' \subseteq pending
    <3>1. CASE Light \/ Start \/ Replay \/ TakeBaseline \/ Read \/ Save \/ RemovePending \/ PublishStatus
      BY <3>1, LightEffect, StartEffect, ReplayEffect, BaselineEffect, ReadEffect, SaveEffect, RemoveEffect, StatusEffect
    <3>2. CASE Rebind \/ Skip \/ Beside \/ Crash \/ UNCHANGED vars
      BY <3>2, BesideEffect DEF Rebind, Skip, Crash, vars, disk
    <3> QED BY <1>2, <3>1, <3>2, Steps
  <2>2. queued' \cup table' = queued \cup table \/ Submit
    <3>1. CASE Light
      BY <3>1 DEF Light, IOFails, PublishReady, Poll, Sleep, DrainStart, DrainDone, Submit, Delivered, AttemptFails,
         DeliveryCancelled, PublishDone, Await, Recheck, sink
    <3>2. CASE ~Light
      <4>1. CASE Start \/ Replay \/ TakeBaseline \/ Read \/ Save \/ RemovePending \/ PublishStatus
        BY <4>1, StartEffect, ReplayEffect, BaselineEffect, ReadEffect, SaveEffect, RemoveEffect, StatusEffect
      <4>2. CASE Rebind \/ Skip \/ Crash \/ UNCHANGED vars
        BY <4>2 DEF Rebind, Skip, Crash, vars, sink
      <4>3. CASE Beside
        BY <4>3 DEF Beside, Ingest, Signal, Complete, Expire, NewAttempt, Replace, Write, sink
      <4> QED BY <1>2, <3>2, <4>1, <4>2, <4>3, Steps
    <3> QED BY <3>1, <3>2
  <2>3. CASE queued' \cup table' = queued \cup table
    BY <2>1, <2>3
  <2>4. CASE Submit
    <3>1. run.pc = "deliver" /\ queued' = queued \cup {run.chunk} /\ table' = table /\ pending' = pending
      BY <2>4 DEF Submit, disk
    <3>2. run.chunk \in pending
      BY <3>1 DEF SpoolHeld, Spooled
    <3> QED BY <3>1, <3>2
  <2> QED BY <2>2, <2>3, <2>4
<1> QED BY <1>1, <1>2

LEMMA SentStep ==
    ASSUME MemoryInv, Sent, [Next]_vars
    PROVE  Sent'
<1> SUFFICES ASSUME NEW m \in queued' \cup table', m \notin pending' PROVE Acked(ckpt', m)
  BY DEF Sent, Acked, IsTerminal
<1>1. /\ ckpt \in Checkpoint /\ ckpt' \in Checkpoint /\ Grows(ckpt, ckpt')
  BY CheckpointStep, MemoryNext DEF MemoryInv, ControlInv, TypeOK
<1>2. m \in queued \cup table
  <2>1. ~Spool \/ m # run.chunk \/ m \in queued \cup table
    BY SpoolEffect DEF MemoryInv, ControlInv
  <2> QED BY <2>1, SpoolEntered
<1>3. m \in Manifest /\ Shaped(m)
  BY <1>2 DEF MemoryInv, ControlInv, TypeOK, Shapes, Known
<1>4. Acked(ckpt, m)
  BY <1>2, SpoolLeft DEF Sent
<1> QED BY <1>1, <1>3, <1>4, AckedGrows

LEMMA FitsApart ==
    ASSUME NEW c \in Checkpoint, NEW m \in Manifest, NEW n \in Manifest, Shaped(m), Shaped(n), Fits(c, m), Acked(c, n)
    PROVE  Apart(m, n) /\ Apart(n, m)
<1>1. CASE IsTerminal(m)
  <2>1. m.obs # n.obs
    BY <1>1 DEF Fits, Acked, IsTerminal
  <2>2. ~IsTerminal(n) => n.file # m.file
    BY <1>1 DEF Shaped, Files
  <2> QED BY <1>1, <2>1, <2>2 DEF Apart
<1>2. CASE ~IsTerminal(m) /\ IsTerminal(n)
  <2>1. m.obs # n.obs
    BY <1>2 DEF IsTerminal
  <2>2. n.file # m.file
    BY <1>2 DEF Shaped, Files
  <2> QED BY <1>2, <2>1, <2>2 DEF Apart
<1>3. CASE ~IsTerminal(m) /\ ~IsTerminal(n)
  <2>1. n.file = m.file => Len(n.end) <= Len(m.start)
    BY <1>3 DEF Fits, Acked
  <2> QED BY <1>3, <2>1 DEF Apart
<1> QED BY <1>1, <1>2, <1>3

LEMMA SeparateStep ==
    ASSUME MemoryInv, Sent, Separate, [Next]_vars
    PROVE  Separate'
<1> USE DEF MemoryInv
<1> SUFFICES ASSUME NEW m \in queued' \cup table' \cup pending', NEW n \in queued' \cup table' \cup pending', m # n
             PROVE  Apart(m, n)
  BY DEF Separate, Apart, IsTerminal
<1>1. CASE ~Spool
  <2>1. m \in queued \cup table \cup pending /\ n \in queued \cup table \cup pending
    BY <1>1, SpoolEntered
  <2> QED BY <2>1 DEF Separate
<1>2. CASE Spool
  <2>1. run.pc = "spool" /\ pending = {} /\ queued' = queued /\ table' = table /\ pending' \subseteq {run.chunk}
    BY <1>2, SpoolEffect DEF ControlInv, SpoolHeld, Spooled
  <2>2. Fits(run.mem, run.chunk) /\ run.chunk \in Known /\ run.chunk \in Manifest /\ run.mem \in Checkpoint /\ ckpt \in Checkpoint
    BY <2>1 DEF Fitting, InHand, Known, Hand, ControlInv, TypeOK, Process
  <2>3. Behind(ckpt, run.mem)
    BY <2>1, <2>2, SameBehind DEF Mirrored, Stopping, Advanced
  <2>4. Grows(ckpt, run.mem)
    BY <2>2, <2>3, BehindGrows
  <2>5. ASSUME NEW x \in queued \cup table PROVE Apart(x, run.chunk) /\ Apart(run.chunk, x)
    <3>1. x \in Known /\ x \in Manifest /\ Acked(ckpt, x)
      BY <2>1, <2>5 DEF Sent, Known, ControlInv, TypeOK
    <3>2. Shaped(x) /\ Shaped(run.chunk)
      BY <2>2, <3>1 DEF ControlInv, Shapes
    <3>3. Acked(run.mem, x)
      BY <2>2, <2>4, <3>1, <3>2, AckedGrows
    <3> QED BY <2>2, <3>1, <3>2, <3>3, FitsApart
  <2>6. m \in queued \cup table \/ m = run.chunk
    BY <2>1
  <2>7. n \in queued \cup table \/ n = run.chunk
    BY <2>1
  <2> QED BY <2>5, <2>6, <2>7 DEF Separate
<1> QED BY <1>1, <1>2

\* Nothing is stored twice, although chunks are submitted again after lost answers,
\* crashes and failed writes: no two chunks that ADX has or will have cover the same row,
\* and no observation is reported twice.
THEOREM SpoolNothingTwice == Spec => []NothingTwice
<1> DEFINE Inv == MemoryInv /\ Sent /\ Separate
<1>1. Init => Inv
  BY MemoryInit DEF Init, Sent, Separate
<1>2. Inv /\ [Next]_vars => Inv'
  BY MemoryNext, SentStep, SeparateStep
<1>3. Inv => NothingTwice
  <2> SUFFICES ASSUME Inv, NEW m \in queued \cup table, NEW n \in queued \cup table, m # n
               PROVE  IF IsTerminal(m) THEN m.obs # n.obs
                      ELSE ~\E i \in 1..MaxLength : Covers(m, m.file, i) /\ Covers(n, m.file, i)
    BY DEF NothingTwice
  <2>1. Apart(m, n)
    BY DEF Separate
  <2>2. CASE IsTerminal(m)
    BY <2>1, <2>2 DEF Apart
  <2>3. CASE ~IsTerminal(m)
    <3>1. ASSUME NEW i \in 1..MaxLength, Covers(m, m.file, i), Covers(n, m.file, i) PROVE FALSE
      <4>1. n.file = m.file /\ Len(m.start) < i /\ i <= Len(m.end) /\ Len(n.start) < i /\ i <= Len(n.end)
        BY <3>1 DEF Covers
      <4>2. Len(m.end) <= Len(n.start) \/ Len(n.end) <= Len(m.start)
        BY <2>1, <2>3, <4>1 DEF Apart
      <4>3. m \in Manifest /\ n \in Manifest
        BY DEF MemoryInv, ControlInv, TypeOK
      <4>4. Len(m.start) \in Nat /\ Len(m.end) \in Nat /\ Len(n.start) \in Nat /\ Len(n.end) \in Nat
        BY <4>3, LenProperties DEF Manifest
      <4> QED BY <4>1, <4>2, <4>4
    <3> QED BY <2>3, <3>1
  <2> QED BY <2>2, <2>3
<1> HIDE DEF Inv
<1> QED BY <1>1, <1>2, <1>3, PTL DEF Spec

-----------------------------------------------------------------------------
(* The terminal status is the last thing ADX hears *)

\* ADX has every row of every history; all of history f is in memory.
AllIn == \A f \in Files : file[f].there => \A i \in Rows(f, file[f].data) : Ingested(f, i)
Drained(f) == file[f].there => run.mem.source[f].prefix = file[f].data

\* The last drain leaves nothing behind.
Drains ==
    /\ Finishing /\ run.pc = "read" => \A f \in Files \ run.todo : Drained(f)
    /\ Finishing /\ run.pc \in InHand /\ run.ret = "drain" =>
          /\ \A f \in Files \ run.todo : Drained(f)
          /\ file[run.chunk.file].there => run.chunk.end = file[run.chunk.file].data
    /\ Finishing /\ run.pc = "status" => \A f \in Files : Drained(f)

\* A status of this pod is about a finished workload whose rows ADX has.
Reports ==
    /\ completion \in {NoObs, attempt}
    /\ \A m \in Known : m.obs <= attempt /\ (m.obs = attempt => Over /\ AllIn)

\* A status the checkpoint knows of is in ADX.
Reflected == \A t \in ckpt.terminals \cup run.mem.terminals : \E m \in table : m.obs = t.obs

StatusStored == Over /\ \E m \in table : m.obs = completion
Ends ==
    /\ run.pc \in InHand /\ run.ret = "status" => run.chunk.obs = CancelObs \/ (Over /\ run.chunk.obs = completion)
    /\ run.pc = "done" => StatusStored
    /\ done => StatusStored

StatusInv == LossInv /\ Drains /\ Reports /\ Reflected /\ Ends

\* Once the workload is over its histories do not grow.
LEMMA OverStep ==
    ASSUME ControlInv, Over, [Next]_vars, NEW f \in Files
    PROVE  /\ run' # Down => file'[f].data = file[f].data /\ (file'[f].there => file[f].there)
           /\ file'[f].there => file[f].there
           /\ IsPrefix(file'[f].data, file[f].data)
<1>1. file[f].data \in Seq(Tokens) /\ Len(file[f].data) \in Nat /\ file[f].synced \in Nat
  BY LenProperties DEF ControlInv, TypeOK, History
<1>2. CASE file'[f].data = file[f].data /\ (file'[f].there => file[f].there)
  BY <1>1, <1>2, PrefixRefl
<1>3. CASE /\ run' = Down /\ file'[f].there = file[f].there
           /\ \E n \in file[f].synced..Len(file[f].data) : file'[f].data = SubSeq(file[f].data, 1, n)
  <2>1. PICK n \in file[f].synced..Len(file[f].data) : file'[f].data = SubSeq(file[f].data, 1, n)
    BY <1>3
  <2>2. n \in 0..Len(file[f].data)
    BY <1>1
  <2>3. IsPrefix(SubSeq(file[f].data, 1, n), file[f].data)
    BY <1>1, <2>2, CutSeq
  <2> QED BY <1>3, <2>1, <2>3
<1> QED BY <1>2, <1>3, FileStep DEF ControlInv

LEMMA AllInStep ==
    ASSUME ControlInv, Over, AllIn, [Next]_vars
    PROVE  AllIn'
<1>1. base' = base /\ table \subseteq table'
  BY SinkStep
<1>2. ASSUME NEW f \in Files, file'[f].there, NEW i \in DOMAIN file'[f].data, i > base[f], file'[f].data[i] = "row"
      PROVE  \E m \in table' : Covers(m, f, i)
  <2>1. file[f].there /\ IsPrefix(file'[f].data, file[f].data)
    BY <1>2, OverStep
  <2>2. file[f].data \in Seq(Tokens) /\ file'[f].data \in Seq(Tokens)
    <3>1. file'[f] \in History
      BY FileStep DEF ControlInv
    <3> QED BY <3>1 DEF ControlInv, TypeOK, History
  <2>3. i \in DOMAIN file[f].data /\ file[f].data[i] = "row"
    BY <1>2, <2>1, <2>2, PrefixDef
  <2>4. Ingested(f, i)
    BY <1>2, <2>1, <2>3 DEF AllIn, Rows
  <2> QED BY <1>1, <2>4 DEF Ingested
<1> QED BY <1>1, <1>2 DEF AllIn, Rows, Ingested, Covers

LEMMA ReflectedStep ==
    ASSUME LossInv, Reflected, [Next]_vars
    PROVE  Reflected'
<1> USE DEF LossInv, MemoryInv
<1> DEFINE A == Advance(run.mem, run.chunk)
           R == Rebound(run.mem, run.chunk)
           S == Skipped(run.mem, run.chunk)
           Good(c) == \A t \in c.terminals : \E m \in table : m.obs = t.obs
<1>1. run.mem \in Checkpoint /\ run.chunk \in Manifest /\ table \subseteq table'
  BY SinkStep DEF ControlInv, TypeOK, Process
<1>2. NoCheckpoint.terminals = {} /\ Down.mem = NoCheckpoint
  BY DEF NoCheckpoint, Down
<1>3. /\ A.terminals = IF IsTerminal(run.chunk) THEN run.mem.terminals \cup {ReportedStatus(run.chunk)} ELSE run.mem.terminals
      /\ Baselined.terminals = run.mem.terminals
      /\ run.chunk.file \in Files => R.terminals = run.mem.terminals /\ S.terminals = run.mem.terminals
  BY <1>1, AdvanceEffect, ReboundEffect, SkippedEffect, BaselinedEffect DEF ControlInv
<1>4. ReportedStatus(run.chunk).obs = run.chunk.obs
  BY DEF ReportedStatus
<1>5. ASSUME NEW c \in {ckpt', run'.mem}
      PROVE  \/ c \in {ckpt, run.mem, NoCheckpoint, Baselined} \/ (run.chunk.file \in Files /\ c \in {R, S})
             \/ c = A /\ run.chunk \in table
  <2> HIDE DEF A, R, S
  <2>1. Start => run'.mem = ckpt
    BY StartEffect DEF ControlInv
  <2>2. Save => run.chunk \in table
    BY DEF Save, InTable
  <2> QED BY <1>2, <2>1, <2>2, WrittenStep DEF Written, A, R, S
<1>6. Good(ckpt) /\ Good(run.mem) /\ Good(NoCheckpoint)
  BY <1>2 DEF Reflected
<1> HIDE DEF A, R, S
<1>7. \A c \in {ckpt', run'.mem} : Good(c)
  BY <1>3, <1>4, <1>5, <1>6
<1> QED BY <1>1, <1>7 DEF Reflected

\* While a process goes on, what was a finished workload stays one.
LEMMA StoredStatusStep ==
    ASSUME ControlInv, StatusStored, [Next]_vars, ~NewAttempt
    PROVE  StatusStored' /\ completion' = completion
<1>1. completion' = completion
  BY CompletionStep DEF ControlInv, StatusStored, Complete
<1> QED BY <1>1, SinkStep DEF StatusStored, Over

LEMMA EndsStep ==
    ASSUME StatusInv, [Next]_vars
    PROVE  Ends'
<1> USE DEF StatusInv, LossInv, MemoryInv, ControlInv
<1>0. Down.pc = "down"
  BY DEF Down
<1>1. ASSUME run'.pc \in InHand, run'.ret = "status"
      PROVE  run'.chunk.obs = CancelObs \/ (Over' /\ run'.chunk.obs = completion')
  <2>1. run' # Down
    BY <1>0, <1>1 DEF InHand
  <2>2. CASE PublishStatus
    <3>1. run'.chunk.obs = StatusObs /\ completion' = completion /\ run.pc = "status"
      BY <1>0, <1>1, <2>2, StatusEffect, StatusChunkEffect DEF Went, Goes, InHand
    <3>2. StatusObs = CancelObs \/ (Over /\ StatusObs = completion)
      BY <3>1 DEF StatusObs, Phases, Ending
    <3> QED BY <3>1, <3>2 DEF Over
  <2>3. CASE run.pc \in InHand /\ run'.chunk = run.chunk /\ run.ret = "status"
    <3>1. run.pc # "down"
      BY <2>3 DEF InHand
    <3> QED BY <2>3, <3>1, CompletionStep DEF Ends
  <2>4. PublishStatus \/ (run.pc \in InHand /\ run'.chunk = run.chunk /\ run.ret = "status")
    <3>1. CASE Light
      BY <1>0, <1>1, <3>1, LightEffect DEF LightMoves, GaveUp, Went, Goes, Holds, InHand
    <3>2. CASE Start \/ Replay \/ TakeBaseline \/ Read
      <4>1. Replay => run.phase \in {"start", "stop"}
        BY DEF Replay, Phases
      <4> QED BY <1>0, <1>1, <3>2, <4>1, StartEffect, ReplayEffect, BaselineEffect, ReadEffect DEF GaveUp, Goes, InHand
    <3>3. CASE Rebind \/ Skip
      BY <1>0, <1>1, <3>3, RebindEffect, SkipEffect, ChunkFile DEF GaveUp, GaveUpWith, Rebind, Skip, Phases, InHand
    <3>4. CASE Spool \/ Save \/ RemovePending
      BY <1>0, <1>1, <3>4, SpoolEffect, SaveEffect, RemoveEffect DEF GaveUp, Went, Goes, Holds, InHand
    <3>5. CASE Beside \/ Crash \/ UNCHANGED vars
      BY <1>1, <2>1, <3>5, BesideEffect DEF Crash, vars
    <3> QED BY <3>1, <3>2, <3>3, <3>4, <3>5, Steps
  <2> QED BY <2>2, <2>3, <2>4
<1>2. ASSUME run'.pc = "done" PROVE StatusStored'
  <2>1. run' # Down
    BY <1>0, <1>2
  <2>2. CASE PublishStatus
    <3>1. /\ StatusObs # CancelObs /\ run.pc = "status" /\ UNCHANGED <<completion, table>>
          /\ \E t \in run.mem.terminals : t.obs = StatusObs
      BY <1>2, <2>1, <2>2, StatusEffect DEF Went, Goes
    <3>2. Over /\ StatusObs = completion
      BY <3>1 DEF StatusObs, Phases, Ending
    <3>3. \E m \in table : m.obs = completion
      BY <3>1, <3>2 DEF Reflected
    <3> QED BY <3>1, <3>2, <3>3 DEF StatusStored, Over
  <2>3. CASE RemovePending
    <3>1. /\ run.pc = "remove" /\ UNCHANGED <<completion, table>>
          /\ run.ret = "status" /\ run.chunk.obs # CancelObs
      BY <1>2, <2>1, <2>3, RemoveEffect DEF GaveUp, Phases, InHand
    <3>2. Over /\ run.chunk.obs = completion /\ run.chunk \in table
      BY <3>1 DEF Ends, InTable, InHand
    <3> QED BY <3>1, <3>2 DEF StatusStored, Over
  <2>4. CASE run' = run
    <3>1. run.pc = "done" /\ ~NewAttempt
      BY <1>2, <2>4 DEF NewAttempt
    <3> QED BY <3>1, StoredStatusStep DEF Ends
  <2>5. PublishStatus \/ RemovePending \/ run' = run
    <3>1. CASE Light
      BY <1>2, <2>1, <3>1, LightEffect DEF LightMoves, GaveUp, Went, Goes
    <3>2. CASE Start \/ Replay \/ TakeBaseline \/ Read
      <4>1. Replay => run.phase \in {"start", "stop"}
        BY DEF Replay, Phases
      <4> QED BY <1>2, <2>1, <3>2, <4>1, StartEffect, ReplayEffect, BaselineEffect, ReadEffect DEF GaveUp, Goes
    <3>3. CASE Rebind \/ Skip
      BY <1>2, <2>1, <3>3, RebindEffect, SkipEffect, ChunkFile DEF GaveUp, GaveUpWith, Rebind, Skip, Phases, InHand
    <3>4. CASE Spool \/ Save
      BY <1>2, <2>1, <3>4, SpoolEffect, SaveEffect DEF GaveUp, Went, Goes
    <3> QED BY <2>1, <3>1, <3>2, <3>3, <3>4, Steps, BesideEffect DEF Crash, vars
  <2> QED BY <2>2, <2>3, <2>4, <2>5
<1>3. ASSUME done' PROVE StatusStored'
  <2>1. ~NewAttempt
    BY <1>3 DEF NewAttempt
  <2>2. done \/ run.pc = "done"
    <3>1. CASE Light
      BY <1>3, <3>1, LightEffect
    <3>2. CASE Start \/ Replay \/ TakeBaseline \/ Read \/ Spool \/ Save \/ RemovePending \/ PublishStatus
      BY <1>3, <3>2, StartEffect, ReplayEffect, BaselineEffect, ReadEffect, SpoolEffect, SaveEffect, RemoveEffect, StatusEffect
    <3>3. CASE Rebind \/ Skip \/ Crash \/ UNCHANGED vars
      BY <1>3, <3>3 DEF Rebind, Skip, Crash, vars, sentinels
    <3>4. CASE Beside
      BY <1>3, <2>1, <3>4 DEF Beside, Ingest, Signal, Complete, Expire, Replace, Write, sentinels
    <3> QED BY <3>1, <3>2, <3>3, <3>4, Steps
  <2> QED BY <2>1, <2>2, StoredStatusStep DEF Ends
<1> QED BY <1>1, <1>2, <1>3 DEF Ends

LEMMA ReportsStep ==
    ASSUME StatusInv, [Next]_vars
    PROVE  Reports'
<1> USE DEF StatusInv, LossInv, MemoryInv, ControlInv
<1>0. attempt \in Nat \ {0} /\ \A m \in Known : m.obs \in Int
  <2>1. run.pc \in InHand => run.chunk \in Manifest
    BY DEF TypeOK, Process
  <2>2. Known \subseteq Manifest
    BY <2>1 DEF TypeOK, Known, Hand
  <2>3. attempt \in Nat \ {0} /\ Observations \subseteq Int
    BY ConstantsAssumption DEF TypeOK, Observations, CancelObs
  <2> QED BY <2>2, <2>3 DEF Manifest
<1>1. completion' \in {NoObs, attempt'}
  BY CompletionStep DEF Reports, Complete, NewAttempt, budget
<1>2. attempt' = attempt \/ attempt' = attempt + 1
  BY CompletionStep DEF Complete, NewAttempt, budget
<1>3. ASSUME NEW m \in Known' PROVE m.obs <= attempt' /\ (m.obs = attempt' => Over' /\ AllIn')
  <2>1. CASE m \in Known
    <3>1. m.obs <= attempt' /\ (m.obs = attempt' => attempt' = attempt)
      BY <1>0, <1>2, <2>1 DEF Reports
    <3>2. ASSUME m.obs = attempt' PROVE Over' /\ AllIn'
      <4>1. m.obs = attempt /\ Over /\ AllIn /\ attempt' = attempt
        BY <2>1, <3>1, <3>2 DEF Reports
      <4>2. ~NewAttempt
        BY <1>0, <4>1 DEF NewAttempt
      <4>3. completion' = completion
        BY <4>1, <4>2, CompletionStep DEF Complete
      <4> QED BY <4>1, <4>3, AllInStep DEF Over
    <3> QED BY <3>1, <3>2
  <2>2. CASE Read /\ (\E stamp \in Stamps : m = NewChunk(Min(run.todo), stamp))
             /\ IsPrefix(run.mem.source[Min(run.todo)].prefix, file[Min(run.todo)].data)
    <3>1. ~IsTerminal(m) /\ attempt' = attempt
      BY <2>2, ReadEffect, NewChunkEffect
    <3>2. m.obs = 0
      BY <3>1 DEF IsTerminal, NoObs
    <3> QED BY <1>0, <3>1, <3>2
  <2>3. CASE PublishStatus /\ \E stamp \in Stamps : m = StatusChunk(stamp)
    <3>1. m.obs = StatusObs /\ run.pc = "status" /\ UNCHANGED <<attempt, completion, file, base, table>>
      BY <2>3, StatusEffect, StatusChunkEffect
    <3>2. CASE run.phase = "stop" /\ ~run.completed
      <4>1. m.obs = -1
        BY <3>1, <3>2 DEF StatusObs, CancelObs
      <4> QED BY <1>0, <3>1, <4>1
    <3>3. CASE ~(run.phase = "stop" /\ ~run.completed)
      <4>1. m.obs = completion /\ Over /\ Finishing
        BY <3>1, <3>3 DEF StatusObs, Phases, Ending, Finishing
      <4>2. m.obs = attempt
        BY <4>1 DEF Reports, Over
      <4>3. \A f \in Files : Drained(f)
        BY <3>1, <4>1 DEF Drains
      <4>4. AllIn
        BY <4>3 DEF Drained, AllIn, Stored
      <4>5. AllIn' /\ Over'
        BY <3>1, <4>1, <4>4, AllInStep DEF Over
      <4> QED BY <1>0, <3>1, <4>2, <4>5
    <3> QED BY <3>2, <3>3
  <2> QED BY <2>1, <2>2, <2>3, KnownStep
<1> QED BY <1>1, <1>3 DEF Reports

LEMMA DrainsStep ==
    ASSUME StatusInv, [Next]_vars
    PROVE  Drains'
<1> USE DEF StatusInv, LossInv, MemoryInv, ControlInv
<1> DEFINE Busy == run'.pc \in {"read", "status"} \/ (run'.pc \in InHand /\ run'.ret = "drain")
           Done(f) == file'[f].there => run'.mem.source[f].prefix = file'[f].data
           Goal == /\ run'.pc = "read" => \A f \in Files \ run'.todo : Done(f)
                   /\ run'.pc \in InHand /\ run'.ret = "drain" =>
                         /\ \A f \in Files \ run'.todo : Done(f)
                         /\ file'[run'.chunk.file].there => run'.chunk.end = file'[run'.chunk.file].data
                   /\ run'.pc = "status" => \A f \in Files : Done(f)
<1>0. Down.pc = "down"
  BY DEF Down
<1> SUFFICES ASSUME Finishing', Busy PROVE Goal
  BY DEF Drains, Drained, Finishing
<1>1. run' # Down /\ run.mem \in Checkpoint /\ run.chunk \in Manifest
  BY <1>0 DEF InHand, TypeOK, Process
<1>2. Finishing => Over
  BY DEF Finishing, Ending
<1>3. Over => \A f \in Files : file'[f].data = file[f].data /\ (file'[f].there => file[f].there)
  BY <1>1, OverStep
<1>4. CASE run' = run
  <2>1. Finishing
    BY <1>4 DEF Finishing
  <2>2. \A f \in Files : Drained(f) => Done(f)
    BY <1>2, <1>3, <1>4, <2>1 DEF Drained
  <2>3. run.pc \in InHand /\ run.ret = "drain" => run.chunk.file \in Files
    BY ChunkFile
  <2> QED BY <1>2, <1>3, <1>4, <2>1, <2>2, <2>3 DEF Drains
<1>5. CASE Light
  <2>0. LightMoves /\ file' = file
    BY <1>5, LightEffect
  <2>1. ~GaveUp(run, run')
    BY <1>1 DEF GaveUp, InHand
  <2>2. CASE run.pc = "drain" /\ Goes("read", run.phase, {f \in Files : file[f].there}, run.completed)
    BY <2>0, <2>2 DEF Goes, InHand
  <2>3. CASE run.pc = "read" /\ run.todo = {} /\ run.phase # "watch" /\ (run.phase = "stop" => run.completed) /\ Went("status")
    <3>1. Finishing
      BY <2>3 DEF Went, Goes, Finishing
    <3> QED BY <2>0, <2>3, <3>1 DEF Went, Goes, Holds, Drains, Drained, InHand
  <2>4. CASE run.pc \in InHand /\ run.ret = "drain" /\ (Went("deliver") \/ Went("final") \/ Went("save"))
    <3>1. Finishing
      BY <2>4 DEF Went, Goes, Finishing
    <3> QED BY <2>0, <2>4, <3>1 DEF Went, Goes, Holds, Drains, Drained, InHand
  <2>5. CASE run.pc = "recheck" /\ Went("status")
    BY <2>5 DEF Went, Goes, Finishing, Phases, Ending
  <2> HIDE DEF Goal
  <2> QED BY <2>0, <2>1, <2>2, <2>3, <2>4, <2>5 DEF LightMoves, Went, Goes, Holds, InHand
<1>6. CASE Start \/ TakeBaseline \/ Replay \/ PublishStatus
  <2>1. Replay => run.phase \in {"start", "stop"}
    BY DEF Replay, Phases
  <2> QED BY <1>1, <1>6, <2>1, StartEffect, BaselineEffect, ReplayEffect, StatusEffect DEF GaveUp, Went, Goes, InHand
<1>7. CASE Read
  <2> DEFINE g == Min(run.todo)
             p == run.mem.source[g].prefix
  <2>1. run.pc = "read" /\ g \in Files /\ ~GaveUp(run, run')
    BY <1>1, <1>7, ReadEffect DEF GaveUp, InHand
  <2>2. /\ IsPrefix(p, file[g].data) /\ run'.mem = run.mem /\ run'.phase = run.phase /\ run'.completed = run.completed
        /\ \/ NewRows(g) = <<>> /\ run'.pc = "read" /\ run'.todo = run.todo \ {g}
           \/ \E stamp \in Stamps : /\ run'.chunk = NewChunk(g, stamp) /\ run'.ret = "drain" /\ run'.todo = run.todo
                                    /\ run'.pc \in {"rebind", "spool", "skip"}
    BY <1>7, <2>1, ReadEffect DEF Goes, Holds
  <2>3. Finishing /\ run.phase # "watch"
    BY <2>2 DEF Finishing
  <2>4. \A f \in Files : Drained(f) => Done(f)
    BY <1>2, <1>3, <2>2, <2>3 DEF Drained
  <2>5. \A f \in Files \ run.todo : Done(f)
    BY <2>1, <2>3, <2>4 DEF Drains
  <2>6. CASE NewRows(g) = <<>> /\ run'.pc = "read" /\ run'.todo = run.todo \ {g}
    <3>1. p \in Seq(Tokens) /\ file[g].data \in Seq(Tokens)
      BY <1>1, <2>1 DEF Checkpoint, SourceCheckpoint, TypeOK, History
    <3>2. Unread(file[g].data, p, TRUE) = <<>>
      BY <2>3, <2>6 DEF NewRows
    <3> HIDE DEF p
    <3>3. p \o <<>> = file[g].data
      BY <2>2, <3>1, <3>2, UnreadExtends
    <3>4. p = file[g].data
      BY <3>1, <3>3, ConcatEmptySeq
    <3>5. Done(g)
      BY <2>1, <2>4, <3>4 DEF Drained, p
    <3> QED BY <2>5, <2>6, <3>5 DEF InHand
  <2>7. ASSUME NEW stamp \in Stamps, run'.chunk = NewChunk(g, stamp), run'.ret = "drain", run'.todo = run.todo,
               run'.pc \in {"rebind", "spool", "skip"}
        PROVE  Goal
    <3>1. run'.chunk.file = g /\ run'.chunk.end = file[g].data
      BY <2>1, <2>2, <2>3, <2>7, NewChunkEffect
    <3>2. run'.chunk.end = file'[g].data
      BY <1>2, <1>3, <2>1, <2>3, <3>1
    <3> QED BY <2>5, <2>7, <3>1, <3>2
  <2> QED BY <2>2, <2>6, <2>7
<1>8. CASE Rebind
  <2> DEFINE R == Rebound(run.mem, run.chunk)
  <2>1. run.chunk.file \in Files /\ run.pc = "rebind" /\ run.ret = "drain"
    BY <1>8, ChunkFile DEF Rebind, Phases, InHand
  <2>2. /\ run'.mem = R /\ run'.chunk = run.chunk /\ run'.ret = run.ret
        /\ run'.phase = run.phase /\ run'.todo = run.todo /\ run'.completed = run.completed
        /\ run'.pc \in {"spool", "skip"} /\ file' = file
    BY <1>1, <1>8, <2>1, RebindEffect DEF GaveUp, GaveUpWith, InHand
  <2>3. \A f \in Files : R.source[f].prefix = run.mem.source[f].prefix
    BY <1>1, <2>1, ReboundEffect
  <2> HIDE DEF R
  <2>4. Finishing
    BY <2>2 DEF Finishing
  <2>5. \A f \in Files : Drained(f) => Done(f)
    BY <2>2, <2>3 DEF Drained
  <2> QED BY <2>1, <2>2, <2>4, <2>5 DEF Drains, InHand
<1>9. ASSUME run.pc \in InHand, run.ret = "drain", Finishing, file' = file, run'.chunk = run.chunk,
             NEW c, run'.mem = c, \A f \in Files : f # run.chunk.file => c.source[f] = run.mem.source[f],
             c.source[run.chunk.file].prefix = run.chunk.end
      PROVE  (\A f \in Files \ run.todo : Done(f)) /\ Done(run.chunk.file)
             /\ (file'[run.chunk.file].there => run.chunk.end = file'[run.chunk.file].data)
  <2>1. /\ \A f \in Files \ run.todo : Drained(f)
        /\ file[run.chunk.file].there => run.chunk.end = file[run.chunk.file].data
    BY <1>9 DEF Drains
  <2>2. Done(run.chunk.file)
    BY <1>9, <2>1
  <2>3. \A f \in Files \ run.todo : Done(f)
    BY <1>9, <2>1, <2>2 DEF Drained
  <2> QED BY <1>9, <2>1, <2>2, <2>3
<1>10. CASE Skip
  <2> DEFINE S == Skipped(run.mem, run.chunk)
  <2>1. run.chunk.file \in Files /\ run.pc = "skip" /\ run.ret = "drain"
    BY <1>10, ChunkFile DEF Skip, Phases, InHand
  <2>2. /\ run'.mem = S /\ run'.chunk = run.chunk
        /\ run'.phase = run.phase /\ run'.todo = run.todo \ {run.chunk.file} /\ run'.completed = run.completed
        /\ run'.pc = "read" /\ file' = file
    BY <1>1, <1>10, <2>1, SkipEffect DEF GaveUpWith, InHand
  <2>3. /\ \A f \in Files : f # run.chunk.file => S.source[f] = run.mem.source[f]
        /\ S.source[run.chunk.file].prefix = run.chunk.end
    BY <1>1, <2>1, SkippedEffect
  <2> HIDE DEF S
  <2>4. Finishing
    BY <2>2 DEF Finishing
  <2>5. (\A f \in Files \ run.todo : Done(f)) /\ Done(run.chunk.file)
    BY <1>9, <2>1, <2>2, <2>3, <2>4 DEF InHand
  <2> QED BY <2>2, <2>5 DEF InHand
<1>11. CASE Save
  <2> DEFINE A == Advance(run.mem, run.chunk)
  <2>1. /\ run.pc = "save" /\ run'.mem = A /\ run'.chunk = run.chunk /\ run'.ret = run.ret
        /\ run'.phase = run.phase /\ run'.todo = run.todo /\ run'.completed = run.completed
        /\ run'.pc = "remove" /\ file' = file
    BY <1>1, <1>11, SaveEffect DEF GaveUp, InHand
  <2>2. run.ret = "drain"
    BY <2>1
  <2>3. run.chunk.file \in Files /\ ~IsTerminal(run.chunk)
    BY <2>1, <2>2, ChunkFile DEF InHand
  <2>4. \A f \in Files : A.source[f] = IF ~IsTerminal(run.chunk) /\ f = run.chunk.file THEN Collected(run.chunk)
                                     ELSE run.mem.source[f]
    BY <1>1, AdvanceEffect
  <2>5. Collected(run.chunk).prefix = run.chunk.end
    BY DEF Collected
  <2> HIDE DEF A
  <2>6. /\ \A f \in Files : f # run.chunk.file => A.source[f] = run.mem.source[f]
        /\ A.source[run.chunk.file].prefix = run.chunk.end
    BY <2>3, <2>4, <2>5
  <2>7. Finishing
    BY <2>1 DEF Finishing
  <2>8. (\A f \in Files \ run.todo : Done(f))
        /\ (file'[run.chunk.file].there => run.chunk.end = file'[run.chunk.file].data)
    BY <1>9, <2>1, <2>2, <2>6, <2>7 DEF InHand
  <2> QED BY <2>1, <2>8 DEF InHand
<1>12. CASE Spool
  <2>1. run.pc = "spool" /\ Went("deliver") /\ file' = file
    BY <1>1, <1>12, SpoolEffect DEF GaveUp, InHand
  <2>2. Finishing /\ run.ret = "drain"
    BY <2>1 DEF Went, Goes, Holds, Finishing
  <2> QED BY <2>1, <2>2 DEF Went, Goes, Holds, Drains, Drained, InHand
<1>13. CASE RemovePending
  <2>1. run.pc = "remove" /\ run.ret = "drain" /\ run'.mem = run.mem /\ run'.phase = run.phase /\ run'.completed = run.completed
        /\ run'.pc = "read" /\ run'.todo = run.todo \ {run.chunk.file} /\ file' = file
    BY <1>1, <1>13, RemoveEffect DEF GaveUp, Holds, Phases, InHand
  <2>2. run.chunk.file \in Files /\ ~IsTerminal(run.chunk)
    BY <2>1, ChunkFile DEF InHand
  <2>3. Finishing
    BY <2>1 DEF Finishing
  <2>4. /\ \A f \in Files \ run.todo : Drained(f)
        /\ file[run.chunk.file].there => run.chunk.end = file[run.chunk.file].data
    BY <2>1, <2>3 DEF Drains, InHand
  <2> DEFINE p == run.mem.source[run.chunk.file].prefix
             d == file[run.chunk.file].data
  <2>5. p \in Seq(Tokens) /\ d \in Seq(Tokens) /\ IsPrefix(p, d)
    BY <1>1, <2>2 DEF Checkpoint, SourceCheckpoint, TypeOK, History, Kept, Durable
  <2>6. Len(run.chunk.end) <= Len(p)
    BY <2>1, <2>2 DEF Mirrored, Acked
  <2>7. ASSUME file[run.chunk.file].there PROVE p = d
    <3>1. run.chunk.end = d
      BY <2>4, <2>7
    <3> HIDE DEF p, d
    <3>2. Len(p) \in Nat /\ Len(d) \in Nat /\ Len(p) <= Len(d) /\ Len(d) <= Len(p)
      BY <2>5, <2>6, <3>1, PrefixDef, LenProperties
    <3>3. Len(p) = Len(d)
      BY <3>2
    <3> QED BY <2>5, <3>3, PrefixWhole
  <2>8. Drained(run.chunk.file)
    BY <2>7 DEF Drained
  <2>9. \A f \in Files \ run'.todo : Done(f)
    BY <2>1, <2>4, <2>8 DEF Drained
  <2> QED BY <2>1, <2>9 DEF InHand
<1> HIDE DEF Goal, Busy
<1> QED BY <1>1, <1>4, <1>5, <1>6, <1>7, <1>8, <1>10, <1>11, <1>12, <1>13, Steps, BesideEffect DEF Crash, vars

LEMMA StatusInit == Init => StatusInv
<1> SUFFICES ASSUME Init PROVE StatusInv
  OBVIOUS
<1>1. Down.pc = "down" /\ run = Down /\ done = FALSE /\ completion = NoObs
  BY DEF Down, Init
<1>2. Known = {}
  BY <1>1 DEF Init, Known, Hand, InHand
<1>3. ckpt.terminals = {} /\ run.mem.terminals = {}
  BY DEF Init, Down, NoCheckpoint
<1> QED BY <1>1, <1>2, <1>3, LossInit DEF StatusInv, Drains, Reports, Reflected, Ends, InHand

LEMMA StatusNext == StatusInv /\ [Next]_vars => StatusInv'
<1> SUFFICES ASSUME StatusInv, [Next]_vars PROVE StatusInv'
  OBVIOUS
<1>1. LossInv' /\ Reflected'
  BY LossNext, ReflectedStep DEF StatusInv
<1> QED BY <1>1, DrainsStep, ReportsStep, EndsStep DEF StatusInv

\* The terminal status of a finished workload is the last thing ADX hears: by then it
\* has every row of every history.  And the done sentinel, on which the workload's
\* wrapper waits, is only written when ADX has the status.
THEOREM SpoolStatusLast == Spec => []StatusLast
<1>1. StatusInv => StatusLast
  <2> SUFFICES ASSUME StatusInv, Over
               PROVE  /\ (\E m \in queued \cup table : m.obs = completion) =>
                           \A f \in Files : file[f].there => \A i \in Rows(f, file[f].data) : Ingested(f, i)
                      /\ done => \E m \in table : m.obs = completion
    BY DEF StatusLast
  <2>1. completion = attempt
    BY DEF StatusInv, Reports, Over
  <2>2. ASSUME NEW m \in queued \cup table, m.obs = completion PROVE AllIn
    BY <2>1, <2>2 DEF StatusInv, Reports, Known
  <2> QED BY <2>2 DEF AllIn, StatusInv, Ends, StatusStored
<1> QED BY <1>1, StatusInit, StatusNext, PTL DEF Spec

-----------------------------------------------------------------------------
(* Rows from before the workload stay out, as long as nobody interrupts the collector *)

\* Without a signal there is no shutdown.
Quiet == signals = 0 /\ ~cancelled /\ run.phase # "stop"

\* With a baseline the collector does not go on without a checkpoint, and what it then
\* collects from a history begins behind what was there before.
Awaited ==
    /\ ~Baseline => \A f \in Files : base[f] = 0
    /\ Baseline /\ run.pc \notin {"down", "replay", "baseline"} => ckpt.saved
    /\ Baseline /\ ~ckpt.saved => pending = {}
Skips ==
    /\ \A f \in Files : base[f] <= file[f].synced
    /\ ckpt.saved => \A f \in Files : base[f] <= Len(ckpt.source[f].prefix) \/ ~file[f].there
Young(m) == IsTerminal(m) \/ base[m.file] <= Len(m.start)
OldInv == LossInv /\ Quiet /\ Awaited /\ Skips /\ \A m \in Known : Young(m)

LEMMA SignalStep ==
    ASSUME [Next]_vars
    PROVE  \/ Signal
           \/ signals' = signals /\ (cancelled' = cancelled \/ cancelled' = FALSE)
<1>1. CASE CollectorStep
  <2>1. CASE IOFails \/ AttemptFails \/ Spool \/ RemovePending
    BY <2>1 DEF IOFails, AttemptFails, Spool, RemovePending, Fault, budget
  <2>2. CASE TakeBaseline \/ Rebind \/ Skip \/ Save
    BY <2>2 DEF TakeBaseline, Rebind, Skip, Save, SaveCheckpoint, Fault, budget
  <2>3. CASE Replay \/ PublishReady \/ Poll \/ Sleep \/ DrainStart \/ Read \/ DrainDone \/ Submit \/ Delivered
             \/ DeliveryCancelled \/ PublishStatus \/ PublishDone \/ Await \/ Recheck
    BY <2>3 DEF Replay, PublishReady, Poll, Sleep, DrainStart, Read, DrainDone, Submit, Delivered, DeliveryCancelled,
       PublishStatus, PublishDone, Await, Recheck, budget
  <2> QED BY <1>1, <2>1, <2>2, <2>3 DEF CollectorStep
<1>2. CASE Start
  BY <1>2 DEF Start, budget
<1>3. CASE Environment
  BY <1>3 DEF Environment, Ingest, Crash, Complete, Expire, NewAttempt, Replace, Write, Fault, budget
<1>4. CASE UNCHANGED vars
  BY <1>4 DEF vars, budget
<1> QED BY <1>1, <1>2, <1>3, <1>4 DEF Next

LEMMA StopStep ==
    ASSUME ControlInv, [Next]_vars, run'.phase = "stop", run.phase # "stop"
    PROVE  cancelled
<1> USE DEF ControlInv
<1>0. Down.phase = "start" /\ run' # Down /\ run.pc # "down" /\ run'.pc = "await"
  BY MoveStep DEF Down
<1>1. CASE Light
  BY <1>0, <1>1, LightEffect DEF LightMoves, GaveUp, Went, Goes, Phases
<1>2. CASE Start \/ Replay \/ TakeBaseline \/ Read
  <2>1. Replay => run.phase \in {"start", "stop"}
    BY DEF Replay, Phases
  <2> QED BY <1>0, <1>2, <2>1, StartEffect, ReplayEffect, BaselineEffect, ReadEffect DEF GaveUp, Goes
<1>3. CASE Rebind \/ Skip
  BY <1>0, <1>3, RebindEffect, SkipEffect, ChunkFile DEF GaveUp, GaveUpWith, Rebind, Skip, Phases, InHand
<1>4. CASE Spool \/ Save \/ RemovePending \/ PublishStatus
  BY <1>0, <1>4, SpoolEffect, SaveEffect, RemoveEffect, StatusEffect DEF GaveUp, Went, Goes
<1>5. CASE Beside \/ Crash \/ UNCHANGED vars
  BY <1>0, <1>5, BesideEffect DEF Crash, vars
<1> QED BY <1>1, <1>2, <1>3, <1>4, <1>5, Steps

LEMMA QuietStep ==
    ASSUME SignalBudget = 0, ControlInv, Quiet, [Next]_vars
    PROVE  Quiet'
<1>1. ~Signal
  BY DEF Signal, Quiet
<1>a. signals' = signals /\ (cancelled' = cancelled \/ cancelled' = FALSE)
  BY <1>1, SignalStep
<1>b. signals = 0 /\ ~cancelled
  BY DEF Quiet
<1>2. signals' = 0 /\ ~cancelled'
  BY <1>a, <1>b
<1>3. run'.phase # "stop"
  BY StopStep DEF Quiet
<1> QED BY <1>2, <1>3 DEF Quiet

\* How a chunk may get under way while there is no checkpoint.
LEMMA GoesOn ==
    ASSUME ControlInv, [Next]_vars, run'.pc \notin {"down", "replay", "baseline"}
    PROVE  \/ run.pc \notin {"down", "replay", "baseline"}
           \/ run'.pc = "ready"
           \/ pending # {}
           \/ run'.phase = "stop"
<1> USE DEF ControlInv
<1>0. Down.pc = "down" /\ run' # Down
  BY DEF Down
<1>1. CASE Replay
  <2>1. run.phase \in {"start", "stop"}
    BY <1>1 DEF Replay, Phases
  <2> QED BY <1>0, <1>1, <2>1, ReplayEffect DEF GaveUp
<1>2. CASE TakeBaseline
  BY <1>0, <1>2, BaselineEffect
<1>3. CASE Light
  BY <1>0, <1>3, LightEffect DEF LightMoves, GaveUp
<1>4. CASE Start
  BY <1>4, StartEffect
<1>5. CASE Read \/ Rebind \/ Skip \/ Spool \/ Save \/ RemovePending \/ PublishStatus
  BY <1>5 DEF Read, Rebind, Skip, Spool, Save, RemovePending, PublishStatus
<1>6. CASE Beside \/ Crash \/ UNCHANGED vars
  BY <1>0, <1>6, BesideEffect DEF Crash, vars
<1> QED BY <1>1, <1>2, <1>3, <1>4, <1>5, <1>6, Steps

LEMMA AwaitedStep ==
    ASSUME SignalBudget = 0, OldInv, [Next]_vars
    PROVE  Awaited'
<1> USE DEF OldInv, LossInv, MemoryInv
<1>0. base' = base /\ Quiet' /\ Prepared'
  BY SinkStep, QuietStep, PreparedStep
<1>1. ~Baseline => \A f \in Files : base'[f] = 0
  BY <1>0 DEF Awaited
<1>2. ASSUME Baseline, run'.pc \notin {"down", "replay", "baseline"} PROVE ckpt'.saved
  <2>1. ckpt.saved => ckpt'.saved
    BY SavedStep
  <2>2. run'.phase # "stop"
    BY <1>0 DEF Quiet
  <2>3. run'.pc = "ready" => ckpt'.saved
    BY <1>0, <1>2 DEF Prepared
  <2> QED BY <1>2, <2>1, <2>2, <2>3, GoesOn DEF Awaited
<1>3. ASSUME Baseline, ~ckpt'.saved PROVE pending' = {}
  <2>1. ~ckpt.saved
    BY <1>3, SavedStep
  <2>2. pending = {} /\ run.pc \in {"down", "replay", "baseline"}
    BY <1>3, <2>1 DEF Awaited
  <2>3. ~Spool
    BY <2>2 DEF Spool
  <2>4. pending' \subseteq pending
    <3>1. CASE Light \/ Start \/ Replay \/ TakeBaseline \/ Read \/ Save \/ RemovePending \/ PublishStatus
      BY <3>1, LightEffect, StartEffect, ReplayEffect, BaselineEffect, ReadEffect, SaveEffect, RemoveEffect, StatusEffect
         DEF ControlInv
    <3>2. CASE Rebind \/ Skip \/ Beside \/ Crash \/ UNCHANGED vars
      BY <3>2, BesideEffect DEF Rebind, Skip, Crash, vars, disk
    <3> QED BY <2>3, <3>1, <3>2, Steps
  <2> QED BY <2>2, <2>4
<1> QED BY <1>1, <1>2, <1>3 DEF Awaited

LEMMA SkipsStep ==
    ASSUME SignalBudget = 0, OldInv, [Next]_vars
    PROVE  Skips'
<1> USE DEF OldInv, LossInv, MemoryInv
<1>0. base' = base /\ base \in [Files -> Nat] /\ ckpt \in Checkpoint /\ ckpt' \in Checkpoint /\ Grows(ckpt, ckpt')
  BY SinkStep, CheckpointStep, MemoryNext DEF ControlInv, TypeOK
<1>1. ASSUME NEW f \in Files PROVE base[f] <= file'[f].synced
  <2>1. file'[f] \in History /\ file[f].synced <= file'[f].synced /\ file[f] \in History
    BY FileStep DEF ControlInv, TypeOK
  <2>2. file[f].synced \in Nat /\ file'[f].synced \in Nat /\ base[f] \in Nat /\ base[f] <= file[f].synced
    BY <1>0, <2>1 DEF History, Skips
  <2> QED BY <2>1, <2>2
<1>2. ASSUME ckpt'.saved, NEW f \in Files, file'[f].there PROVE base[f] <= Len(ckpt'.source[f].prefix)
  <2> DEFINE p == ckpt.source[f].prefix
             q == ckpt'.source[f].prefix
  <2>1. p \in Seq(Tokens) /\ q \in Seq(Tokens) /\ IsPrefix(p, q)
    BY <1>0 DEF Grows, Checkpoint, SourceCheckpoint
  <2> HIDE DEF p, q
  <2>2. Len(p) \in Nat /\ Len(q) \in Nat /\ Len(p) <= Len(q) /\ base[f] \in Nat
    BY <1>0, <2>1, PrefixDef, LenProperties
  <2>3. CASE base[f] = 0
    BY <2>2, <2>3 DEF q
  <2>4. CASE base[f] # 0
    <3>1. Baseline
      BY <2>4 DEF Awaited
    <3>2. file[f].there
      <4>1. base[f] <= file[f].synced /\ file[f].synced <= Len(file[f].data) /\ file[f].synced \in Nat
            /\ Len(file[f].data) \in Nat
        BY LenProperties DEF Skips, ControlInv, TypeOK, History
      <4>2. Len(file[f].data) # 0
        BY <2>2, <2>4, <4>1
      <4>3. file[f].data # <<>>
        BY <4>2
      <4> QED BY <1>2, <4>3, FileStep DEF ControlInv
    <3>3. CASE ckpt.saved
      <4>1. base[f] <= Len(p)
        BY <3>2, <3>3 DEF Skips, p
      <4>2. base[f] <= Len(q)
        BY <2>2, <4>1
      <4> QED BY <4>2 DEF q
    <3>4. CASE ~ckpt.saved
      <4>1. run.pc \in {"down", "replay", "baseline"} /\ ckpt' # ckpt
        BY <1>2, <3>1, <3>4 DEF Awaited
      <4>2. TakeBaseline /\ ckpt' = Baselined
        BY <4>1, WrittenStep DEF Written, Rebind, Skip, Save
      <4>3. q = SubSeq(file[f].data, 1, LastNewline(file[f].data))
        BY <3>2, <4>2, BaselinedEffect DEF ControlInv, q
      <4>4. base[f] = LastNewline(file[f].data)
        BY <3>1, <3>4 DEF Fresh
      <4>5. file[f].data \in Seq(Tokens)
        BY DEF ControlInv, TypeOK, History
      <4>6. Len(q) = base[f]
        BY <4>3, <4>4, <4>5, LastNewlineIn, CutSeq
      <4>7. base[f] <= Len(q)
        BY <2>2, <4>6
      <4> QED BY <4>7 DEF q
    <3> QED BY <3>3, <3>4
  <2> QED BY <2>3, <2>4
<1> QED BY <1>0, <1>1, <1>2 DEF Skips

LEMMA YoungStep ==
    ASSUME SignalBudget = 0, OldInv, [Next]_vars, NEW m \in Known'
    PROVE  IsTerminal(m) \/ base[m.file] <= Len(m.start)
<1> USE DEF OldInv, LossInv, MemoryInv
<1>1. CASE m \in Known
  BY <1>1 DEF Young
<1>2. CASE Read /\ (\E stamp \in Stamps : m = NewChunk(Min(run.todo), stamp))
           /\ IsPrefix(run.mem.source[Min(run.todo)].prefix, file[Min(run.todo)].data) /\ m = run'.chunk /\ run'.pc \in InHand
  <2> DEFINE f == Min(run.todo)
  <2>1. f \in Files /\ run.pc = "read" /\ file[f].there
    BY <1>2, ReadEffect DEF ControlInv, GaveUp, Down, InHand
  <2>a. PICK stamp \in Stamps : m = NewChunk(f, stamp)
    BY <1>2
  <2>b. IsPrefix(run.mem.source[f].prefix, file[f].data)
    BY <1>2
  <2> HIDE DEF f
  <2>2. m.file = f /\ m.start = run.mem.source[f].prefix
    BY <2>a, <2>b, <2>1, NewChunkEffect DEF ControlInv
  <2>3. run.mem = ckpt
    BY <2>1 DEF Quiet, Mirrored
  <2>4. CASE Baseline
    <3>1. ckpt.saved
      BY <2>1, <2>4 DEF Awaited
    <3> QED BY <2>1, <2>2, <2>3, <3>1 DEF Skips
  <2>5. CASE ~Baseline
    <3>1. base[f] = 0
      BY <2>1, <2>5 DEF Awaited
    <3>2. m.start \in Seq(Tokens)
      BY <2>1, <2>2, <2>3 DEF ControlInv, TypeOK, Checkpoint, SourceCheckpoint
    <3>3. Len(m.start) \in Nat
      BY <3>2, LenProperties
    <3> QED BY <2>2, <3>1, <3>3
  <2> QED BY <2>4, <2>5
<1>3. CASE PublishStatus /\ \E stamp \in Stamps : m = StatusChunk(stamp)
  <2>1. Shaped(m)
    BY ShapesStep DEF ControlInv, Shapes, Shaped, IsTerminal
  <2>2. m.file = 0 /\ 0 \notin Files
    BY <1>3, StatusChunkEffect DEF ControlInv, Files
  <2> QED BY <2>1, <2>2 DEF Shaped
<1> QED BY <1>1, <1>2, <1>3, KnownStep DEF ControlInv

LEMMA OldInit == Init => OldInv
<1> SUFFICES ASSUME Init PROVE OldInv
  OBVIOUS
<1>1. Down.pc = "down" /\ Down.phase = "start" /\ run = Down /\ ckpt = NoCheckpoint /\ ~NoCheckpoint.saved
      /\ cancelled = FALSE /\ signals = 0 /\ pending = {}
  BY DEF Down, Init, NoCheckpoint
<1>2. Known = {}
  BY <1>1 DEF Init, Known, Hand, InHand
<1>3. LossInv /\ TypeOK
  BY LossInit DEF LossInv, MemoryInv, ControlInv
<1>4. ~Baseline => \A f \in Files : base[f] = 0
  BY DEF Init
<1>5. ASSUME NEW f \in Files PROVE base[f] <= file[f].synced
  <2>1. CASE Baseline
    <3>1. base[f] = LastNewline(file[f].data) /\ file[f].synced = Len(file[f].data)
      BY <1>1, <1>3, <2>1 DEF LossInv, Fresh
    <3>2. file[f].data \in Seq(Tokens)
      BY <1>3 DEF TypeOK, History
    <3> QED BY <3>1, <3>2, LastNewlineIn
  <2>2. CASE ~Baseline
    BY <1>3, <1>4, <2>2 DEF TypeOK, History
  <2> QED BY <2>1, <2>2
<1> QED BY <1>1, <1>2, <1>3, <1>4, <1>5 DEF OldInv, Quiet, Awaited, Skips

LEMMA OldNext == ASSUME SignalBudget = 0 PROVE OldInv /\ [Next]_vars => OldInv'
<1> SUFFICES ASSUME OldInv, [Next]_vars PROVE OldInv'
  OBVIOUS
<1>1. LossInv' /\ Quiet'
  BY LossNext, QuietStep DEF OldInv, LossInv, MemoryInv
<1>2. Awaited' /\ Skips'
  BY AwaitedStep, SkipsStep
<1>3. base' = base
  BY SinkStep DEF OldInv, LossInv, MemoryInv
<1>4. \A m \in Known' : IsTerminal(m) \/ base'[m.file] <= Len(m.start)
  BY <1>3, YoungStep
<1> QED BY <1>1, <1>2, <1>4 DEF OldInv, Young, IsTerminal

\* Rows that were complete before the workload started never reach ADX, whatever
\* restarts follow: a collector with a baseline does not collect before the checkpoint
\* that holds it is on disk.  The one way around it is a shutdown before that, which
\* collects with what is in memory; hence the assumption that nobody signals.
THEOREM SpoolNothingOld == ASSUME SignalBudget = 0 PROVE Spec => []NothingOld
<1>1. OldInv => NothingOld
  <2> SUFFICES ASSUME OldInv, NEW f \in Files, NEW i \in 1..base[f], NEW m \in table, Covers(m, f, i) PROVE FALSE
    BY DEF NothingOld, Ingested
  <2>1. m.file = f /\ Len(m.start) < i /\ m \in Known /\ m \in Manifest /\ base[f] \in Nat
    BY DEF Covers, Known, OldInv, LossInv, MemoryInv, ControlInv, TypeOK
  <2>2. ~IsTerminal(m)
    BY <2>1 DEF OldInv, LossInv, MemoryInv, ControlInv, Shapes, Shaped, Files
  <2>3. base[f] <= Len(m.start) /\ Len(m.start) \in Nat
    BY <2>1, <2>2, LenProperties DEF OldInv, Young, Manifest
  <2> QED BY <2>1, <2>3
<1>2. OldInv /\ [Next]_vars => OldInv'
  BY OldNext
<1> QED BY <1>1, <1>2, OldInit, PTL DEF Spec

-----------------------------------------------------------------------------
(* Whatever is left in the spool can be replayed *)

\* What was read has metrics, when all rows do.
LEMMA ProjectsEvents ==
    ASSUME NEW s \in Seq(Tokens), s # <<>>, Projects(s), \A i \in DOMAIN s : s[i] # "meta"
    PROVE  HasEvents(s)
<1> DEFINE ends == {j \in (0 + 1)..Len(s) : s[j] = "nl"}
           e == IF ends = {} THEN Len(s) ELSE Min(ends) - 1
           l == SubSeq(s, 1, e)
<1>0. Len(s) \in Nat /\ 0 < Len(s) /\ DOMAIN s = 1..Len(s)
  BY LenProperties, EmptySeq
<1>1. 0 \in LineStarts(s)
  BY <1>0 DEF LineStarts
<1>2. LineAt(s, 0) = l
  BY DEF LineAt
<1>3. e \in 0..Len(s)
  <2>1. CASE ends = {}
    BY <1>0, <2>1
  <2>2. CASE ends # {}
    <3>1. ends \subseteq Nat /\ ends \subseteq 1..Len(s)
      BY <1>0
    <3>2. Min(ends) \in ends
      <4> HIDE DEF ends
      <4> QED BY <2>2, <3>1, LeastExists DEF Min
    <3>3. e = Min(ends) - 1 /\ Min(ends) \in 1..Len(s)
      BY <2>2, <3>1, <3>2
    <3> HIDE DEF e, ends
    <3> QED BY <1>0, <3>3
  <2> QED BY <2>1, <2>2
<1> HIDE DEF e
<1>4. Len(l) = e /\ \A i \in 1..e : l[i] = s[i]
  BY <1>3, CutSeq
<1>5. l \in {<<"row">>, <<"meta">>, <<"torn", "row">>}
  BY <1>1, <1>2 DEF Projects, RowLine
<1> HIDE DEF l
<1>6. CASE l = <<"row">>
  <2>1. e = 1 /\ l[1] = "row"
    BY <1>4, <1>6
  <2> QED BY <1>0, <1>3, <1>4, <2>1 DEF HasEvents
<1>7. CASE l = <<"meta">>
  <2>1. e = 1 /\ l[1] = "meta"
    BY <1>4, <1>7
  <2> QED BY <1>0, <1>3, <1>4, <2>1
<1>8. CASE l = <<"torn", "row">>
  <2>1. e = 2 /\ l[2] = "row"
    BY <1>4, <1>8
  <2> QED BY <1>0, <1>3, <1>4, <2>1 DEF HasEvents
<1> QED BY <1>5, <1>6, <1>7, <1>8

LEMMA UnreadTokens ==
    ASSUME NEW d \in Seq(Tokens), NEW p \in Seq(Tokens), NEW trailing \in BOOLEAN
    PROVE  /\ Unread(d, p, trailing) \in Seq(Tokens)
           /\ \A j \in DOMAIN Unread(d, p, trailing) : \E i \in DOMAIN d : Unread(d, p, trailing)[j] = d[i]
<1> DEFINE n == IF trailing THEN Len(d) ELSE LastNewline(d)
           k == Len(p) + 1
           u == SubSeq(d, k, n)
<1>0. Len(p) \in Nat /\ Len(d) \in Nat /\ n \in 0..Len(d) /\ k \in Nat \ {0} /\ DOMAIN d = 1..Len(d)
  BY LastNewlineIn
<1>1. Unread(d, p, trailing) = u
  BY DEF Unread
<1> HIDE DEF n, k
<1>2. u \in Seq(Tokens) /\ DOMAIN u = 1..Len(u) /\ Len(u) = (IF k <= n THEN n - k + 1 ELSE 0)
      /\ \A j \in 1..(n - k + 1) : u[j] = d[k + j - 1]
  <2>1. \A j \in k..n : d[j] \in Tokens
    BY <1>0, ElementOfSeq
  <2>2. k \in Int /\ n \in Int
    BY <1>0
  <2>3. /\ SubSeq(d, k, n) \in Seq(Tokens)
        /\ Len(SubSeq(d, k, n)) = IF k <= n THEN n - k + 1 ELSE 0
        /\ \A j \in 1 .. n - k + 1 : SubSeq(d, k, n)[j] = d[k + j - 1]
    BY <2>1, <2>2, SubSeqProperties
  <2> QED BY <2>3
<1> HIDE DEF u
<1>3. ASSUME NEW j \in DOMAIN u PROVE k + j - 1 \in 1..Len(d) /\ u[j] = d[k + j - 1]
  <2>1. k <= n /\ j \in 1..(n - k + 1)
    BY <1>0, <1>2
  <2> QED BY <1>0, <1>2, <2>1
<1> QED BY <1>0, <1>1, <1>2, <1>3

\* Either nobody signals the collector, or histories are not replaced and all their
\* rows have metrics.
Undisturbed ==
    \/ SignalBudget = 0
    \/ ChurnBudget = 0 /\ ~MetadataRows /\ \A d \in Startup : \A i \in DOMAIN d : d[i] # "meta"

\* In the second case nothing is rebound and nothing skipped.
PlainFile(h) == h.id = 0 /\ \A i \in DOMAIN h.data : h.data[i] # "meta"
Plain ==
    /\ churn = 0
    /\ \A f \in Files : /\ PlainFile(file[f])
                        /\ ckpt.source[f].id = 0 /\ run.mem.source[f].id = 0
    /\ \A m \in Known : IsTerminal(m) \/ m.id = 0
    /\ run.pc \notin {"rebind", "skip"}

LEMMA ChurnStep ==
    ASSUME [Next]_vars
    PROVE  churn' = churn \/ \E f \in Files : Replace(f)
<1>1. CASE CollectorStep
  <2>1. CASE IOFails \/ AttemptFails \/ Spool \/ RemovePending
    BY <2>1 DEF IOFails, AttemptFails, Spool, RemovePending, Fault, budget
  <2>2. CASE TakeBaseline \/ Rebind \/ Skip \/ Save
    BY <2>2 DEF TakeBaseline, Rebind, Skip, Save, SaveCheckpoint, Fault, budget
  <2>3. CASE Replay \/ PublishReady \/ Poll \/ Sleep \/ DrainStart \/ Read \/ DrainDone \/ Submit \/ Delivered
             \/ DeliveryCancelled \/ PublishStatus \/ PublishDone \/ Await \/ Recheck
    BY <2>3 DEF Replay, PublishReady, Poll, Sleep, DrainStart, Read, DrainDone, Submit, Delivered, DeliveryCancelled,
       PublishStatus, PublishDone, Await, Recheck, budget
  <2> QED BY <1>1, <2>1, <2>2, <2>3 DEF CollectorStep
<1>2. CASE Start
  BY <1>2 DEF Start, budget
<1>3. CASE Environment
  BY <1>3 DEF Environment, Ingest, Crash, Signal, Complete, Expire, NewAttempt, Write, Fault, budget
<1>4. CASE UNCHANGED vars
  BY <1>4 DEF vars, budget
<1> QED BY <1>1, <1>2, <1>3, <1>4 DEF Next

LEMMA PlainFileStep ==
    ASSUME ControlInv, ~MetadataRows, [Next]_vars, ~\E g \in Files : Replace(g), NEW f \in Files, PlainFile(file[f])
    PROVE  PlainFile(file'[f])
<1> USE DEF ControlInv
<1>0. file \in [Files -> History] /\ file[f] \in History /\ file[f].data \in Seq(Tokens) /\ Len(file[f].data) \in Nat
      /\ DOMAIN file[f].data = 1..Len(file[f].data) /\ file[f].id = 0 /\ \A i \in DOMAIN file[f].data : file[f].data[i] # "meta"
  BY LenProperties DEF TypeOK, History, PlainFile
<1>1. CASE file'[f] = file[f]
  BY <1>1
<1>2. CASE file'[f] = [file[f] EXCEPT !.synced = Len(file[f].data)]
  <2>1. file'[f].id = file[f].id /\ file'[f].data = file[f].data
    BY <1>0, <1>2 DEF History
  <2> QED BY <1>0, <2>1 DEF PlainFile
<1>3. CASE Crash
  <2>1. PICK cut \in [Files -> 0..MaxLength] :
          /\ \A g \in Files : cut[g] \in file[g].synced..Len(file[g].data)
          /\ file' = [g \in Files |-> [file[g] EXCEPT !.data = SubSeq(file[g].data, 1, cut[g])]]
    BY <1>3 DEF Crash
  <2> DEFINE n == cut[f]
             d == SubSeq(file[f].data, 1, n)
  <2>2. file[f].synced \in Nat
    BY <1>0 DEF History
  <2>3. n \in 0..Len(file[f].data) /\ file'[f] = [file[f] EXCEPT !.data = d]
    BY <1>0, <2>1, <2>2
  <2>4. d \in Seq(Tokens) /\ Len(d) = n /\ \A i \in 1..n : d[i] = file[f].data[i]
    BY <1>0, <2>3, CutSeq
  <2> HIDE DEF d, n
  <2>5. file'[f].id = 0 /\ file'[f].data = d
    BY <1>0, <2>3 DEF History
  <2>6. DOMAIN d = 1..n
    BY <2>4
  <2>7. \A i \in DOMAIN d : d[i] # "meta"
    BY <1>0, <2>3, <2>4, <2>6
  <2> QED BY <2>5, <2>7 DEF PlainFile
<1>4. ASSUME NEW g \in Files, NEW token \in Tokens, Write(g, token) PROVE PlainFile(file'[f])
  <2>1. CASE g # f
    <3>1. file'[f] = file[f]
      BY <1>0, <1>4, <2>1 DEF Write
    <3> QED BY <1>1, <3>1
  <2>2. CASE g = f
    <3> DEFINE d == Append(file[f].data, token)
    <3>1. /\ d \in Seq(Tokens) /\ Len(d) = Len(file[f].data) + 1 /\ d[Len(file[f].data) + 1] = token
          /\ \A i \in 1..Len(file[f].data) : d[i] = file[f].data[i]
      BY <1>0, AppendProperties
    <3>2. file'[f] = [file[f] EXCEPT !.there = TRUE, !.data = d] /\ token # "meta"
      BY <1>0, <1>4, <2>2 DEF Write
    <3> HIDE DEF d
    <3>3. file'[f].id = 0 /\ file'[f].data = d
      BY <1>0, <3>2 DEF History
    <3>4. DOMAIN d = 1..(Len(file[f].data) + 1)
      BY <3>1
    <3>5. \A i \in DOMAIN d : d[i] # "meta"
      <4> SUFFICES ASSUME NEW i \in 1..(Len(file[f].data) + 1) PROVE d[i] # "meta"
        BY <3>4
      <4>1. CASE i = Len(file[f].data) + 1
        BY <3>1, <3>2, <4>1
      <4>2. CASE i \in 1..Len(file[f].data)
        BY <1>0, <3>1, <4>2
      <4> QED BY <1>0, <4>1, <4>2
    <3> QED BY <3>3, <3>5 DEF PlainFile
  <2> QED BY <2>1, <2>2
<1>5. CASE Light \/ Start \/ Replay \/ Spool \/ Save \/ RemovePending \/ PublishStatus
  BY <1>1, <1>5, LightEffect, StartEffect, ReplayEffect, SpoolEffect, SaveEffect, RemoveEffect, StatusEffect
<1>6. CASE Rebind \/ Skip
  BY <1>1, <1>6 DEF Rebind, Skip, files
<1>7. CASE TakeBaseline
  BY <1>2, <1>7 DEF TakeBaseline
<1>8. CASE Read
  <2>1. file' = file \/ SyncSource(Min(run.todo))
    BY <1>8, ReadEffect
  <2>2. file'[f] = file[f] \/ file'[f] = [file[f] EXCEPT !.synced = Len(file[f].data)]
    BY <1>0, <2>1 DEF SyncSource
  <2> QED BY <1>1, <1>2, <2>2
<1>9. CASE Beside
  <2>1. UNCHANGED file \/ \E g \in Files : \E token \in Tokens : Write(g, token)
    BY <1>9 DEF Beside, Ingest, Signal, Complete, Expire, NewAttempt, files
  <2> QED BY <1>1, <1>4, <2>1
<1>10. CASE UNCHANGED vars
  BY <1>1, <1>10 DEF vars, files
<1> QED BY <1>3, <1>5, <1>6, <1>7, <1>8, <1>9, <1>10, Steps

LEMMA PlainStep ==
    ASSUME MemoryInv, ChurnBudget = 0, ~MetadataRows, Plain, [Next]_vars
    PROVE  Plain'
<1> USE DEF MemoryInv, ControlInv
<1>0. Down.pc = "down" /\ Down.mem = NoCheckpoint /\ \A f \in Files : NoCheckpoint.source[f].id = 0
  BY DEF Down, NoCheckpoint, NoSource
<1>1. ~\E f \in Files : Replace(f)
  BY DEF Plain, Replace
<1>2. churn' = 0
  BY <1>1, ChurnStep DEF Plain
<1>3. \A f \in Files : PlainFile(file'[f])
  BY <1>1, PlainFileStep DEF Plain
<1>4. run'.pc \notin {"rebind", "skip"}
  <2>1. run.pc \notin {"rebind", "skip"}
    BY DEF Plain
  <2>2. CASE Read
    <3> DEFINE f == Min(run.todo)
    <3>1. f \in Files
      BY <2>2, ReadEffect
    <3>2. file[f].data \in Seq(Tokens) /\ run.mem.source[f].prefix \in Seq(Tokens) /\ (run.phase # "watch") \in BOOLEAN
      BY <3>1 DEF TypeOK, History, Process, Checkpoint, SourceCheckpoint
    <3>3. file[f].id = 0 /\ run.mem.source[f].id = 0 /\ \A i \in DOMAIN file[f].data : file[f].data[i] # "meta"
      BY <3>1 DEF Plain, PlainFile
    <3>4. ~Moved(f)
      BY <3>3 DEF Moved
    <3>5. NewRows(f) # <<>> /\ Projects(NewRows(f)) => HasEvents(NewRows(f))
      <4> SUFFICES ASSUME NewRows(f) # <<>>, Projects(NewRows(f)) PROVE HasEvents(NewRows(f))
        OBVIOUS
      <4> DEFINE u == NewRows(f)
                 d == file[f].data
                 p == run.mem.source[f].prefix
                 t == run.phase # "watch"
      <4>0. u = Unread(d, p, t)
        BY DEF NewRows
      <4>a. d \in Seq(Tokens) /\ p \in Seq(Tokens) /\ t \in BOOLEAN /\ \A i \in DOMAIN d : d[i] # "meta"
        BY <3>2, <3>3
      <4>3. u # <<>> /\ Projects(u)
        OBVIOUS
      <4> HIDE DEF u, d, p, t
      <4>1. u \in Seq(Tokens) /\ \A j \in DOMAIN u : \E i \in DOMAIN d : u[j] = d[i]
        BY <4>0, <4>a, UnreadTokens
      <4>4. \A j \in DOMAIN u : u[j] # "meta"
        BY <4>1, <4>a
      <4>5. HasEvents(u)
        BY <4>1, <4>3, <4>4, ProjectsEvents
      <4> QED BY <4>5 DEF u
    <3> QED BY <1>0, <2>2, <3>4, <3>5, ReadEffect DEF GaveUp, Goes
  <2>3. CASE Light
    BY <1>0, <2>1, <2>3, LightEffect DEF LightMoves, GaveUp, Went, Goes
  <2>4. CASE Replay
    <3>1. run.phase \in {"start", "stop"}
      BY <2>4 DEF Replay, Phases
    <3> QED BY <1>0, <2>4, <3>1, ReplayEffect DEF GaveUp
  <2>5. CASE Start \/ TakeBaseline \/ Spool \/ Save \/ RemovePending \/ PublishStatus
    BY <1>0, <2>5, StartEffect, BaselineEffect, SpoolEffect, SaveEffect, RemoveEffect, StatusEffect
       DEF GaveUp, Went, Goes, Phases, InHand
  <2>6. CASE Rebind \/ Skip
    BY <2>1, <2>6 DEF Rebind, Skip
  <2>7. CASE Beside \/ Crash \/ UNCHANGED vars
    BY <1>0, <2>1, <2>7, BesideEffect DEF Crash, vars
  <2> QED BY <2>2, <2>3, <2>4, <2>5, <2>6, <2>7, Steps
<1>5. \A m \in Known' : IsTerminal(m) \/ m.id = 0
  <2> TAKE m \in Known'
  <2>1. CASE m \in Known
    BY <2>1 DEF Plain
  <2>2. CASE /\ Read
             /\ \E stamp \in Stamps : m = NewChunk(Min(run.todo), stamp)
    <3> DEFINE f == Min(run.todo)
    <3>1. f \in Files
      BY <2>2, ReadEffect
    <3>2. PICK stamp \in Stamps : m = NewChunk(f, stamp)
      BY <2>2
    <3> HIDE DEF f
    <3>3. m.id = file[f].id
      BY <3>2 DEF NewChunk
    <3> QED BY <3>1, <3>3 DEF Plain, PlainFile
  <2>3. CASE /\ PublishStatus /\ m = run'.chunk /\ run'.pc \in InHand
             /\ \E stamp \in Stamps : m = StatusChunk(stamp)
    <3>1. PICK stamp \in Stamps : m = StatusChunk(stamp)
      BY <2>3
    <3>2. m.id = 0
      BY <3>1 DEF StatusChunk, NoManifest
    <3> QED BY <3>2
  <2> QED BY <2>1, <2>2, <2>3, KnownStep
<1>6. \A f \in Files : ckpt'.source[f].id = 0 /\ run'.mem.source[f].id = 0
  <2> DEFINE A == Advance(run.mem, run.chunk)
  <2>1. run.mem \in Checkpoint /\ run.chunk \in Manifest
    BY DEF TypeOK, Process
  <2>2. Save => \A f \in Files : A.source[f].id = 0
    <3> SUFFICES ASSUME Save, NEW f \in Files PROVE A.source[f].id = 0
      OBVIOUS
    <3>1. run.chunk \in Known
      BY DEF Save, Known, Hand, InHand
    <3>2. IsTerminal(run.chunk) \/ Collected(run.chunk).id = 0
      BY <3>1 DEF Plain, Collected
    <3>3. A.source[f] = IF ~IsTerminal(run.chunk) /\ f = run.chunk.file THEN Collected(run.chunk) ELSE run.mem.source[f]
      BY <2>1, AdvanceEffect
    <3> HIDE DEF A
    <3> QED BY <3>2, <3>3 DEF Plain
  <2>3. \A f \in Files : Baselined.source[f].id = 0
    <3> TAKE f \in Files
    <3>1. Baselined.source[f] = IF file[f].there THEN BaselineSource(f) ELSE NoSource
      BY BaselinedEffect
    <3>2. BaselineSource(f).id = file[f].id /\ NoSource.id = 0 /\ file[f].id = 0
      BY DEF BaselineSource, NoSource, Plain, PlainFile
    <3> QED BY <3>1, <3>2
  <2>4. ~Rebind /\ ~Skip
    BY DEF Plain, Rebind, Skip
  <2>5. Start => run'.mem = ckpt'
    BY StartEffect
  <2> HIDE DEF A
  <2>6. /\ ckpt' \in {ckpt, Baselined} \/ (Save /\ ckpt' = A)
        /\ run'.mem \in {NoCheckpoint, run.mem, ckpt'}
    BY <1>0, <2>4, <2>5, WrittenStep DEF Written, A
  <2>7. \A f \in Files : ckpt.source[f].id = 0 /\ run.mem.source[f].id = 0
    BY DEF Plain
  <2>8. \A f \in Files : ckpt'.source[f].id = 0
    BY <2>2, <2>3, <2>6, <2>7
  <2> QED BY <1>0, <2>6, <2>7, <2>8
<1> QED BY <1>2, <1>3, <1>4, <1>5, <1>6 DEF Plain

\* The chunk under way is one advanceCheckpointForManifest accepts; a source that has
\* moved is one that is known.
Accepted ==
    /\ run.pc \in {"spool", "deliver", "final", "save"} => Follows(run.mem, run.chunk)
    /\ run.pc = "rebind" => run.mem.source[run.chunk.file].known

\* What is in the spool is acknowledged by the checkpoint file or comes next after it.
Answers(c, m) == (m.seq < c.next /\ Acknowledges(c, m)) \/ Follows(c, m)

\* During shutdown memory is what the file has, but for the chunk in the spool.
Level ==
    run.phase = "stop" =>
        \/ run.mem = ckpt
        \/ \E m \in pending : ckpt = Advance(run.mem, m) /\ Follows(run.mem, m)

RecoverInv ==
    /\ MemoryInv /\ Accepted /\ Level
    /\ \A m \in pending : Answers(ckpt, m)
    /\ \/ SignalBudget = 0 /\ Quiet
       \/ ChurnBudget = 0 /\ ~MetadataRows /\ Plain

LEMMA FollowsIntro ==
    ASSUME NEW c, NEW m, Fits(c, m), Sound(c),
           ~IsTerminal(m) => m.file \in Files /\ (c.source[m.file].known => c.source[m.file].id = m.id)
    PROVE  Follows(c, m)
BY DEF Follows, Fits, Sound

LEMMA AcceptedStep ==
    ASSUME MemoryInv, Accepted, [Next]_vars
    PROVE  Accepted'
<1> USE DEF MemoryInv, ControlInv
<1> DEFINE Under == {"spool", "deliver", "final", "save"}
<1>0. Down.pc = "down" /\ Soundness' /\ Fitting'
  BY SoundStep, FittingStep DEF Down
<1>1. CASE run'.pc \notin Under \cup {"rebind"}
  BY <1>1 DEF Accepted
<1>2. CASE run' = run
  BY <1>2 DEF Accepted, Follows, IsTerminal
<1>3. CASE run'.mem = run.mem /\ run'.chunk = run.chunk /\ run'.pc \in Under /\ run.pc \in Under
  BY <1>3 DEF Accepted, Follows, IsTerminal
<1>4. ASSUME run'.pc = "spool", Fits(run'.mem, run'.chunk) => Follows(run'.mem, run'.chunk) PROVE Accepted'
  <2>1. Fits(run'.mem, run'.chunk)
    BY <1>0, <1>4 DEF Fitting, InHand, Fits, IsTerminal
  <2> QED BY <1>4, <2>1 DEF Accepted, Follows, IsTerminal
<1>5. CASE Light
  <2>1. \/ run'.pc \notin Under \cup {"rebind"}
        \/ run'.mem = run.mem /\ run'.chunk = run.chunk /\ run'.pc \in Under /\ run.pc \in Under
    BY <1>0, <1>5, LightEffect DEF LightMoves, GaveUp, Went, Goes, Holds
  <2> QED BY <1>1, <1>3, <2>1
<1>6. CASE Replay
  <2>1. ASSUME NEW m \in pending, Follows(run.mem, m), run'.mem = run.mem, run'.chunk = m, run'.pc = "deliver"
        PROVE  Accepted'
    BY <2>1 DEF Accepted, Follows, IsTerminal
  <2>2. CASE run'.pc \in {"baseline", "ready", "drain"} \/ GaveUp(run, run')
    BY <1>0, <1>1, <2>2 DEF GaveUp
  <2>3. run.phase \in {"start", "stop"}
    BY <1>6 DEF Replay, Phases
  <2> QED BY <1>6, <2>1, <2>2, <2>3, ReplayEffect
<1>7. CASE Read
  <2> DEFINE f == Min(run.todo)
  <2>1. ASSUME NEW stamp \in Stamps, IsPrefix(run.mem.source[f].prefix, file[f].data),
               run'.chunk = NewChunk(f, stamp), run'.mem = run.mem,
               (run'.pc = "rebind" /\ Moved(f)) \/ (run'.pc = "spool" /\ ~Moved(f))
        PROVE  Accepted'
    <3>1. f \in Files
      BY <1>7, ReadEffect
    <3> DEFINE m == NewChunk(f, stamp)
    <3> HIDE DEF f
    <3>2. m.file = f /\ m.id = file[f].id /\ run'.chunk = m
      BY <2>1, <3>1, NewChunkEffect
    <3> HIDE DEF m
    <3>3. CASE run'.pc = "rebind" /\ Moved(f)
      BY <2>1, <3>2, <3>3 DEF Accepted, Moved
    <3>4. CASE run'.pc = "spool" /\ ~Moved(f)
      <4>1. Sound(run'.mem)
        BY <2>1 DEF Soundness
      <4>2. run'.mem.source[m.file].known => run'.mem.source[m.file].id = m.id
        BY <2>1, <3>2, <3>4 DEF Moved
      <4>3. Fits(run'.mem, m) => Follows(run'.mem, m)
        BY <3>1, <3>2, <4>1, <4>2, FollowsIntro
      <4> QED BY <1>4, <3>2, <3>4, <4>3
    <3> QED BY <2>1, <3>3, <3>4
  <2>2. CASE run'.pc \in {"read", "skip"} \/ GaveUp(run, run')
    BY <1>0, <1>1, <2>2 DEF GaveUp
  <2> QED BY <1>7, <2>1, <2>2, ReadEffect DEF Goes
<1>8. CASE Rebind
  <2>1. run.chunk.file \in Files /\ ~IsTerminal(run.chunk)
    BY <1>8, ChunkFile DEF Rebind, Phases, InHand
  <2>2. CASE GaveUp(run, run') \/ GaveUpWith(Rebound(run.mem, run.chunk)) \/ run'.pc = "skip"
    BY <1>0, <1>1, <2>2 DEF GaveUp, GaveUpWith
  <2>3. CASE run'.mem = Rebound(run.mem, run.chunk) /\ run'.chunk = run.chunk /\ run'.pc = "spool"
    <3>1. run.mem \in Checkpoint /\ run.chunk \in Manifest
      BY DEF TypeOK, Process
    <3> DEFINE d == Rebound(run.mem, run.chunk)
    <3>2. d.source[run.chunk.file].id = run.chunk.id /\ Sound(d)
      BY <2>1, <3>1, ReboundEffect, SoundMade DEF Soundness
    <3>3. run'.mem = d
      BY <2>3
    <3> HIDE DEF d
    <3>4. Fits(d, run.chunk) => Follows(d, run.chunk)
      BY <2>1, <3>2, FollowsIntro
    <3> QED BY <1>4, <2>3, <3>3, <3>4
  <2> QED BY <1>8, <2>1, <2>2, <2>3, RebindEffect
<1>9. CASE PublishStatus
  <2>1. ASSUME run'.pc = "spool", run'.mem = run.mem, run'.ret = "status" PROVE Accepted'
    <3>1. IsTerminal(run'.chunk)
      <4>1. Phases'
        BY PhasesStep
      <4> QED BY <2>1, <4>1 DEF Phases, IsTerminal, InHand
    <3>2. Sound(run'.mem)
      BY <2>1 DEF Soundness
    <3>3. Fits(run'.mem, run'.chunk) => Follows(run'.mem, run'.chunk)
      BY <3>1, <3>2, FollowsIntro
    <3> QED BY <1>4, <2>1, <3>3
  <2>2. CASE run' = Down \/ Went("done")
    BY <1>0, <1>1, <2>2 DEF Went, Goes
  <2> QED BY <1>9, <2>1, <2>2, StatusEffect
<1>10. CASE Spool
  BY <1>0, <1>1, <1>3, <1>10, SpoolEffect DEF GaveUp, Went, Goes, Holds
<1>11. CASE Start \/ TakeBaseline \/ Save \/ RemovePending
  BY <1>0, <1>1, <1>11, StartEffect, BaselineEffect, SaveEffect, RemoveEffect DEF GaveUp, Phases, InHand
<1>12. CASE Skip
  <2>1. run.chunk.file \in Files /\ run.ret = "drain"
    BY <1>12, ChunkFile DEF Skip, Phases, InHand
  <2> QED BY <1>0, <1>1, <1>12, <2>1, SkipEffect DEF GaveUpWith
<1>13. CASE Beside \/ Crash \/ UNCHANGED vars
  BY <1>0, <1>1, <1>2, <1>13, BesideEffect DEF Crash, vars
<1> QED BY <1>5, <1>6, <1>7, <1>8, <1>9, <1>10, <1>11, <1>12, <1>13, Steps

LEMMA AdvanceAnswers ==
    ASSUME NEW c \in Checkpoint, NEW m \in Manifest, Shaped(m)
    PROVE  Answers(Advance(c, m), m)
<1> DEFINE d == Advance(c, m)
<1>1. /\ d.next = m.seq + 1
      /\ d.terminals = IF IsTerminal(m) THEN c.terminals \cup {ReportedStatus(m)} ELSE c.terminals
      /\ \A f \in Files : d.source[f] = IF ~IsTerminal(m) /\ f = m.file THEN Collected(m) ELSE c.source[f]
  BY AdvanceEffect
<1>2. /\ Collected(m).prefix = m.end /\ Collected(m).known /\ Collected(m).seq = m.seq /\ Collected(m).stamp = m.stamp
      /\ Len(m.end) \in Nat /\ m.seq \in Nat
  BY LenProperties DEF Collected, Manifest
<1> HIDE DEF d
<1>3. m.seq < d.next
  BY <1>1, <1>2
<1>4. Acknowledges(d, m)
  <2>1. CASE IsTerminal(m)
    BY <1>1, <2>1 DEF Acknowledges
  <2>2. CASE ~IsTerminal(m)
    <3>1. d.source[m.file] = Collected(m)
      BY <1>1, <2>2 DEF Shaped
    <3>2. Len(Collected(m).prefix) >= Len(m.end)
      BY <1>2
    <3> QED BY <1>2, <2>2, <3>1, <3>2 DEF Acknowledges
  <2> QED BY <2>1, <2>2
<1> QED BY <1>3, <1>4 DEF d, Answers

LEMMA AnswersStep ==
    ASSUME MemoryInv, Accepted, Level, \A m \in pending : Answers(ckpt, m), [Next]_vars
    PROVE  \A m \in pending' : Answers(ckpt', m)
<1> USE DEF MemoryInv, ControlInv
<1> TAKE m \in pending'
<1>1. CASE m \in pending /\ ckpt' = ckpt
  BY <1>1
<1>2. CASE m \notin pending
  <2>1. Spool /\ m = run.chunk /\ ckpt' = ckpt
    <3>1. CASE Light \/ Start \/ Replay \/ TakeBaseline \/ Read \/ Save \/ RemovePending \/ PublishStatus
      BY <1>2, <3>1, LightEffect, StartEffect, ReplayEffect, BaselineEffect, ReadEffect, SaveEffect, RemoveEffect,
         StatusEffect
    <3>2. CASE Rebind \/ Skip \/ Beside \/ Crash \/ UNCHANGED vars
      BY <1>2, <3>2, BesideEffect DEF Rebind, Skip, Crash, vars, disk
    <3>3. CASE Spool
      BY <1>2, <3>3, SpoolEffect
    <3> QED BY <3>1, <3>2, <3>3, Steps
  <2>2. run.pc = "spool" /\ pending = {} /\ Follows(run.mem, run.chunk)
    BY <2>1 DEF Spool, SpoolHeld, Spooled, Accepted
  <2>3. run.mem = ckpt
    BY <2>2 DEF Mirrored, Level
  <2> QED BY <2>1, <2>2, <2>3 DEF Answers
<1>3. CASE m \in pending /\ ckpt' # ckpt
  <2>1. Save /\ ckpt' = Advance(run.mem, run.chunk)
    <3>1. ~TakeBaseline /\ ~Rebind /\ ~Skip
      BY <1>3 DEF TakeBaseline, Rebind, Skip, SpoolHeld, Spooled
    <3> QED BY <1>3, <3>1, WrittenStep DEF Written
  <2>2. m = run.chunk /\ Shaped(m) /\ m \in Manifest /\ run.mem \in Checkpoint
    BY <1>3, <2>1 DEF Save, SpoolHeld, Spooled, Shapes, Known, TypeOK, Process
  <2>3. Answers(Advance(run.mem, m), m)
    BY <2>2, AdvanceAnswers
  <2> QED BY <2>1, <2>2, <2>3
<1> QED BY <1>1, <1>2, <1>3

LEMMA LevelStep ==
    ASSUME MemoryInv, Accepted, Level, Plain, [Next]_vars
    PROVE  Level'
<1> USE DEF MemoryInv, ControlInv
<1> SUFFICES ASSUME run'.phase = "stop"
             PROVE  run'.mem = ckpt' \/ \E m \in pending' : ckpt' = Advance(run'.mem, m) /\ Follows(run'.mem, m)
  BY DEF Level, Follows, IsTerminal, Advance
<1>0. Down.pc = "down" /\ Down.phase = "start" /\ run' # Down
  BY DEF Down
<1>1. ~Rebind /\ ~Skip
  BY DEF Plain, Rebind, Skip
<1>2. CASE Save
  <2>1. run.pc = "save" /\ pending' = pending /\ pending = {run.chunk} /\ Follows(run.mem, run.chunk)
    BY <1>2 DEF Save, SpoolHeld, Spooled, Accepted
  <2>2. CASE run.phase = "stop"
    BY <1>0, <1>2, <2>2, SaveEffect DEF GaveUp
  <2>3. CASE run.phase # "stop"
    <3>1. run.mem = ckpt
      BY <2>1, <2>3 DEF Mirrored
    <3>2. ckpt' \in {ckpt, Advance(run.mem, run.chunk)} /\ run'.mem = run.mem
      BY <1>0, <1>2, <2>3, SaveEffect DEF GaveUp
    <3> QED BY <2>1, <3>1, <3>2
  <2> QED BY <2>2, <2>3
<1>3. CASE ~Save
  <2>1. ~TakeBaseline
    BY <1>0, BaselineEffect DEF Phases
  <2>2. ~Start
    BY StartEffect
  <2>3. ckpt' = ckpt /\ run'.mem = run.mem
    BY <1>0, <1>1, <1>3, <2>1, <2>2, WrittenStep DEF Written
  <2>4. CASE run.phase # "stop"
    BY <1>0, <2>3, <2>4, MoveStep DEF Mirrored
  <2>5. CASE run.mem = ckpt
    BY <2>3, <2>5
  <2>6. CASE run.phase = "stop" /\ run.mem # ckpt
    <3>1. PICK m \in pending : ckpt = Advance(run.mem, m) /\ Follows(run.mem, m)
      BY <2>6 DEF Level
    <3>2. ~(m.seq < run.mem.next)
      <4>1. m.seq = run.mem.next /\ run.mem.next \in Nat
        BY <3>1 DEF Follows, TypeOK, Process, Checkpoint
      <4> QED BY <4>1
    <3>3. run.pc \in {"await", "replay", "deliver", "final", "save"}
      <4>1. run.pc # "down" /\ run.pc # "remove"
        BY <1>0, <2>6 DEF Phases, Mirrored
      <4> QED BY <3>1, <4>1 DEF SpoolHeld, Spooled
    <3>4. pending' = pending
      BY <1>0, <1>3, <2>6, <3>2, <3>3, MoveStep
    <3> QED BY <2>3, <3>1, <3>4
  <2> QED BY <2>4, <2>5, <2>6
<1> QED BY <1>2, <1>3

LEMMA RecoverInit == Undisturbed /\ Init => RecoverInv
<1> SUFFICES ASSUME Undisturbed, Init PROVE RecoverInv
  OBVIOUS
<1>1. /\ Down.pc = "down" /\ Down.phase = "start" /\ Down.mem = NoCheckpoint
      /\ \A f \in Files : NoCheckpoint.source[f].id = 0
  BY DEF Down, NoCheckpoint, NoSource
<1>2. /\ run = Down /\ ckpt = NoCheckpoint /\ pending = {} /\ queued = {} /\ table = {}
      /\ signals = 0 /\ churn = 0
  BY DEF Init
<1>3. ~cancelled
  BY DEF Init
<1>4. Accepted /\ Level /\ \A m \in pending : Answers(ckpt, m)
  BY <1>1, <1>2 DEF Accepted, Level
<1>5. Quiet
  BY <1>1, <1>2, <1>3 DEF Quiet
<1>6. ASSUME \A d \in Startup : \A i \in DOMAIN d : d[i] # "meta" PROVE Plain
  <2>1. Known = {}
    BY <1>1, <1>2 DEF Known, Hand, InHand
  <2>2. ASSUME NEW f \in Files PROVE PlainFile(file[f])
    <3>1. file \in [Files -> {[there |-> d # <<>>, id |-> 0, data |-> d, synced |-> Len(d)] : d \in Startup}]
      BY DEF Init
    <3>2. PICK d \in Startup : file[f] = [there |-> d # <<>>, id |-> 0, data |-> d, synced |-> Len(d)]
      BY <3>1
    <3>3. file[f].id = 0 /\ file[f].data = d
      BY <3>2
    <3> QED BY <1>6, <3>3 DEF PlainFile
  <2> QED BY <1>1, <1>2, <2>1, <2>2 DEF Plain
<1> QED BY <1>4, <1>5, <1>6, MemoryInit DEF RecoverInv, Undisturbed

LEMMA RecoverNext == RecoverInv /\ [Next]_vars => RecoverInv'
<1> SUFFICES ASSUME RecoverInv, [Next]_vars PROVE RecoverInv'
  OBVIOUS
<1>1. MemoryInv' /\ Accepted'
  BY MemoryNext, AcceptedStep DEF RecoverInv
<1>2. \A m \in pending' : Answers(ckpt', m)
  BY AnswersStep DEF RecoverInv
<1>3. CASE SignalBudget = 0 /\ Quiet
  <2>1. Quiet'
    BY <1>3, QuietStep DEF RecoverInv, MemoryInv
  <2>2. Level'
    BY <2>1 DEF Quiet, Level
  <2> QED BY <1>1, <1>2, <1>3, <2>1, <2>2 DEF RecoverInv, Answers, Acknowledges, Follows, IsTerminal
<1>4. CASE ChurnBudget = 0 /\ ~MetadataRows /\ Plain
  <2>1. Plain' /\ Level'
    BY <1>4, PlainStep, LevelStep DEF RecoverInv
  <2> QED BY <1>1, <1>2, <1>4, <2>1 DEF RecoverInv, Answers, Acknowledges, Follows, IsTerminal
<1> QED BY <1>3, <1>4 DEF RecoverInv

\* What a crash or a failed write leaves in the spool is replayed, at the next start and
\* during shutdown, when the collector is not interrupted, or when its histories are
\* neither replaced nor hold rows without metrics.
THEOREM SpoolReplayed == ASSUME Undisturbed PROVE Spec => []SpoolRecoverable
<1>1. RecoverInv => SpoolRecoverable
  <2> SUFFICES ASSUME RecoverInv PROVE SpoolRecoverable
    OBVIOUS
  <2> USE DEF RecoverInv, MemoryInv, ControlInv
  <2>1. Cardinality(pending) <= 1
    <3>1. CASE pending = {}
      BY <3>1, FS_EmptySet
    <3>2. ASSUME NEW m \in pending PROVE Cardinality(pending) <= 1
      <4>1. pending = {m}
        BY DEF SpoolHeld
      <4>2. Cardinality(pending) = 1
        BY <4>1, FS_Singleton
      <4> QED BY <4>2
    <3> QED BY <3>1, <3>2
  <2>2. ASSUME NEW c \in Checkpoint, \A m \in pending : Answers(c, m) PROVE Replayable(c)
    <3>1. \A m \in pending : Follows(c, m) => ~(m.seq < c.next)
      BY DEF Follows, Checkpoint
    <3> QED BY <2>1, <2>2, <3>1 DEF Answers, Replayable
  <2>3. ckpt \in Checkpoint /\ run.mem \in Checkpoint
    BY DEF TypeOK, Process
  <2>4. Replayable(ckpt)
    BY <2>2, <2>3
  <2>5. ASSUME run.pc = "replay" PROVE Replayable(run.mem)
    <3>1. CASE run.mem = ckpt
      BY <2>4, <3>1
    <3>2. CASE run.mem # ckpt
      <4>1. PICK m \in pending : Follows(run.mem, m)
        BY <2>5, <3>2 DEF Mirrored, Level
      <4>2. pending = {m}
        BY DEF SpoolHeld
      <4> QED BY <2>2, <2>3, <4>1, <4>2 DEF Answers
    <3> QED BY <3>1, <3>2
  <2> QED BY <2>4, <2>5 DEF SpoolRecoverable
<1>2. Init => RecoverInv
  BY RecoverInit
<1> QED BY <1>1, <1>2, RecoverNext, PTL DEF Spec

=============================================================================
