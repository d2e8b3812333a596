-------------------------- MODULE IdempotentLedger --------------------------
(***************************************************************************)
(* What the experiment store promises to those who record data in it: a    *)
(* request with an idempotency key takes effect once and completely, or    *)
(* not at all, however often it is sent again and whenever the one who     *)
(* sends it dies.  A call that is answered "created" or "reused" has taken *)
(* effect; one that is told of an error may have.  ExpStore, with its file *)
(* lock, its SQL transaction and its JSONL mirrors, implements this.       *)
(***************************************************************************)
CONSTANTS Procs, Requests, Keys, Hashes, Artifacts, None

VARIABLES
  ledger,     \* the request each key was used for
  recorded,   \* the metric files (by hash) and artifacts on record
  pending,    \* the request a process has submitted and not seen answered
  answer      \* what it will be told, or was told last

vars == <<ledger, recorded, pending, answer>>

Content(r) == {r.hash} \cup ({r.art} \ {None})

Init ==
  /\ ledger = [k \in Keys |-> None]
  /\ recorded = {}
  /\ pending = [p \in Procs |-> None]
  /\ answer = [p \in Procs |-> None]

Submit(p) ==
  /\ pending[p] = None
  /\ \E r \in Requests : pending' = [pending EXCEPT ![p] = r]
  /\ answer' = [answer EXCEPT ![p] = None]
  /\ UNCHANGED <<ledger, recorded>>

Undecided(p) == pending[p] # None /\ answer[p] = None

Accept(p) ==
  /\ Undecided(p)
  /\ ledger[pending[p].key] = None
  /\ ledger' = [ledger EXCEPT ![pending[p].key] = pending[p].hash]
  /\ recorded' = recorded \cup Content(pending[p])
  /\ \E a \in {"created", "failed"} : answer' = [answer EXCEPT ![p] = a]
  /\ UNCHANGED pending

Reuse(p) ==
  /\ Undecided(p)
  /\ ledger[pending[p].key] = pending[p].hash
  /\ answer' = [answer EXCEPT ![p] = "reused"]
  /\ UNCHANGED <<ledger, recorded, pending>>

Refuse(p) ==
  /\ Undecided(p)
  /\ answer' = [answer EXCEPT ![p] = "failed"]
  /\ UNCHANGED <<ledger, recorded, pending>>

Reply(p) ==
  /\ pending[p] # None
  /\ answer[p] # None
  /\ pending' = [pending EXCEPT ![p] = None]
  /\ UNCHANGED <<ledger, recorded, answer>>

Die(p) ==
  /\ pending[p] # None
  /\ pending' = [pending EXCEPT ![p] = None]
  /\ answer' = [answer EXCEPT ![p] = None]
  /\ UNCHANGED <<ledger, recorded>>

Next ==
  \E p \in Procs :
    Submit(p) \/ Accept(p) \/ Reuse(p) \/ Refuse(p) \/ Reply(p) \/ Die(p)

Spec == Init /\ [][Next]_vars
=============================================================================
