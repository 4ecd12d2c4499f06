------------------------------ MODULE AuditLog ------------------------------
(***************************************************************************)
(* The audit logger of the shared library.  Requests put entries into a    *)
(* bounded channel without waiting; a worker collects them and inserts     *)
(* what it has when a batch is full, at every tick and when it is told to  *)
(* stop.  Close cancels the worker's context, closes the channel and       *)
(* waits.  No process of the repository uses the logger.                   *)
(*                                                                         *)
(* Contents of entries, the choice of requests to audit and the test mode  *)
(* are left out.                                                           *)
(***************************************************************************)
EXTENDS Integers, Sequences, SequencesExt

CONSTANTS
  Entry,
  BufferSize,
  AuditBatch   \* BatchSize of the configuration

ASSUME AuditAssumption == BufferSize \in Nat \ {0} /\ AuditBatch \in Nat \ {0}

VARIABLES
  logged,      \* entries in the order in which requests logged them
  buffer,      \* the channel
  collected,   \* the worker's batch
  flushing,    \* whether the worker inserts its batch, and how much of it is left
  auditTable,  \* audit_logs, in the order of insertion
  discarded,   \* entries dropped on a full or closed channel, or whose INSERT failed
  closing,     \* how far Close has come
  auditor      \* whether the worker's goroutine runs

auditVars == <<logged, buffer, collected, flushing, auditTable, discarded, closing, auditor>>

AuditTypeOK ==
  /\ Range(logged) \subseteq Entry
  /\ Len(buffer) <= BufferSize /\ Len(collected) <= AuditBatch /\ Len(flushing) <= Len(collected)
  /\ discarded \subseteq Range(logged)
  /\ closing \in {"open", "cancelled", "closed", "returned"}
  /\ auditor \in {"running", "leaving", "stopped"}

AuditInit ==
  /\ logged = <<>> /\ buffer = <<>> /\ collected = <<>> /\ flushing = <<>>
  /\ auditTable = <<>>
  /\ discarded = {}
  /\ closing = "open"
  /\ auditor = "running"

\* A closed channel makes the send panic.
Accepts == closing \in {"open", "cancelled"} /\ Len(buffer) < BufferSize

\* After a request was served.
LogEntry(e) ==
  /\ e \notin Range(logged)
  /\ logged' = Append(logged, e)
  /\ IF Accepts
     THEN buffer' = Append(buffer, e) /\ UNCHANGED discarded
     ELSE discarded' = discarded \union {e} /\ UNCHANGED buffer
  /\ UNCHANGED <<collected, flushing, auditTable, closing, auditor>>

\* The worker is in its select.
Selecting == auditor = "running" /\ flushing = <<>>

Collect ==
  /\ Selecting /\ buffer # <<>>
  /\ buffer' = Tail(buffer)
  /\ collected' = Append(collected, Head(buffer))
  /\ flushing' = IF Len(collected') >= AuditBatch THEN collected' ELSE <<>>
  /\ UNCHANGED <<logged, auditTable, discarded, closing, auditor>>

TickFlush ==
  /\ Selecting /\ collected # <<>>
  /\ flushing' = collected
  /\ UNCHANGED <<logged, buffer, collected, auditTable, discarded, closing, auditor>>

\* The context has ended, or the channel is closed and empty.  When both an entry
\* and the end of the context are ready the worker takes either.
Leave ==
  /\ Selecting
  /\ closing # "open"
  /\ auditor' = IF collected = <<>> THEN "stopped" ELSE "leaving"
  /\ flushing' = collected
  /\ UNCHANGED <<logged, buffer, collected, auditTable, discarded, closing>>

\* Mutant: the batch is kept after it was inserted.
InsertEntryKeeping ==
  /\ flushing # <<>>
  /\ auditTable' = Append(auditTable, Head(flushing))
  /\ flushing' = Tail(flushing)
  /\ auditor' = IF flushing' = <<>> /\ auditor = "leaving" THEN "stopped" ELSE auditor
  /\ UNCHANGED <<logged, buffer, collected, discarded, closing>>

\* Entries are inserted one by one; one that fails is passed over.
InsertEntry ==
  /\ flushing # <<>>
  /\ \/ auditTable' = Append(auditTable, Head(flushing)) /\ UNCHANGED discarded
     \/ discarded' = discarded \union {Head(flushing)} /\ UNCHANGED auditTable
  /\ flushing' = Tail(flushing)
  /\ collected' = IF flushing' = <<>> THEN <<>> ELSE collected
  /\ auditor' = IF flushing' = <<>> /\ auditor = "leaving" THEN "stopped" ELSE auditor
  /\ UNCHANGED <<logged, buffer, closing>>

Cancel ==
  /\ closing = "open"
  /\ closing' = "cancelled"
  /\ UNCHANGED <<logged, buffer, collected, flushing, auditTable, discarded, auditor>>

CloseBuffer ==
  /\ closing = "cancelled"
  /\ closing' = "closed"
  /\ UNCHANGED <<logged, buffer, collected, flushing, auditTable, discarded, auditor>>

CloseReturns ==
  /\ closing = "closed" /\ auditor = "stopped"
  /\ closing' = "returned"
  /\ UNCHANGED <<logged, buffer, collected, flushing, auditTable, discarded, auditor>>

AuditNext ==
  \/ \E e \in Entry : LogEntry(e)
  \/ Collect \/ TickFlush \/ Leave \/ InsertEntry
  \/ Cancel \/ CloseBuffer \/ CloseReturns

AuditSpec == AuditInit /\ [][AuditNext]_auditVars

(***************************************************************************)
(* Properties                                                              *)
(***************************************************************************)
\* What of s is found in t comes once and in the order of t.
InOrderOf(s, t) ==
  \A i, j \in DOMAIN s, m, n \in DOMAIN t : i < j /\ s[i] = t[m] /\ s[j] = t[n] => m < n

\* The entries in the table, in the batch and in the channel.
Known == auditTable \o (IF flushing = <<>> THEN collected ELSE flushing) \o buffer

\* Whatever order the select takes its cases in, and whenever the logger is
\* closed, the entries are inserted once and in their order, and an entry that was
\* not discarded is in the table, in the batch, or in the channel, in that order;
\* only what is left in the channel when the worker leaves is lost.
AuditedOnce ==
  /\ Range(Known) = Range(logged) \ discarded
  /\ InOrderOf(Known, logged)
  /\ closing = "returned" => collected = <<>>
=============================================================================
