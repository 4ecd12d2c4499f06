-------------------------- MODULE InventoryWorker ---------------------------
(***************************************************************************)
(* The inventory worker copies what happens to bookings into the           *)
(* seat_zones table: one goroutine polls booking-events and adds each      *)
(* event to the deltas kept in memory, another writes the deltas to the    *)
(* table every few seconds, all zones in one transaction.                  *)
(*                                                                         *)
(* Deltas are kept here as the events they add up, and a table row as the  *)
(* initial row plus the events applied to it, so that an event which is    *)
(* lost or counted twice can be seen.  Counts are natural numbers because  *)
(* an event may be counted more than once.                                 *)
(***************************************************************************)
EXTENDS Naturals, Sequences, FiniteSetsExt

CONSTANTS
  Booking,
  Zone,
  ZoneOf,      \* the zone of each booking
  Qty,         \* the seats it asks for
  Capacity,    \* total_seats of each zone
  Published,   \* the events the API publishes; the sagas publish none
  MaxMishaps   \* bound on restarts, dropped polls and doubtful commits

Event == [kind : {"created", "confirmed", "cancelled"}, booking : Booking]

ASSUME PublishedAssumption == Published \subseteq Event

VARIABLES
  topic,      \* the events of booking-events in the order of the log
  lost,       \* those that never reach it: sending is asynchronous, and a
              \* failure is only logged
  position,   \* how many the running worker has taken
  committed,  \* how many it is recorded to have taken
  deltas,     \* how often each event is counted in the deltas
  flushing,   \* how often in the batch being written
  applied,    \* how often in the table
  mishaps     \* restarts, dropped polls and doubtful commits so far

workerVars == <<topic, lost, position, committed, deltas, flushing, applied, mishaps>>

Nothing == [e \in Event |-> 0]

Sum(f, g) == [e \in Event |-> f[e] + g[e]]

WorkerTypeOK ==
  /\ topic \in Seq(Event)
  /\ lost \subseteq Published
  /\ position \in 0 .. Len(topic)
  /\ committed \in 0 .. position
  /\ deltas \in [Event -> Nat]
  /\ flushing \in [Event -> Nat]
  /\ applied \in [Event -> Nat]
  /\ mishaps \in Nat

WorkerInit ==
  /\ topic = <<>>
  /\ lost = {}
  /\ position = 0
  /\ committed = 0
  /\ deltas = Nothing
  /\ flushing = Nothing
  /\ applied = Nothing
  /\ mishaps = 0
-----------------------------------------------------------------------------
(***************************************************************************)
(* The row of a zone, and the CHECK constraints of seat_zones: available   *)
(* and reserved seats stay at or above zero.  (Every event moves seats     *)
(* between the columns, so their sum stays at the total.)                  *)
(***************************************************************************)
Total(f, kind, z) ==
  MapThenSumSet(LAMBDA b : f[[kind |-> kind, booking |-> b]] * Qty[b],
                {b \in Booking : ZoneOf[b] = z})

WithinChecks(f, z) ==
  /\ Total(f, "created", z) <= Capacity[z] + Total(f, "cancelled", z)
  /\ Total(f, "confirmed", z) + Total(f, "cancelled", z) <= Total(f, "created", z)

InTopic(e) == \E i \in 1 .. Len(topic) : topic[i] = e

\* Events of one booking may come from several API processes, in any order.
Arrive(e) ==
  /\ ~ InTopic(e) /\ e \notin lost
  /\ topic' = Append(topic, e)
  /\ UNCHANGED <<lost, position, committed, deltas, flushing, applied, mishaps>>

Lose(e) ==
  /\ ~ InTopic(e) /\ e \notin lost
  /\ lost' = lost \union {e}
  /\ UNCHANGED <<topic, position, committed, deltas, flushing, applied, mishaps>>

Aggregate ==
  /\ position < Len(topic)
  /\ position' = position + 1
  /\ deltas' = [deltas EXCEPT ![topic[position + 1]] = @ + 1]
  /\ UNCHANGED <<topic, lost, committed, flushing, applied, mishaps>>

\* Mutant: commits the offset of the next record.
CommitOffsetsAhead ==
  /\ committed < position
  /\ committed' = position + 1
  /\ UNCHANGED <<topic, lost, position, deltas, flushing, applied, mishaps>>

\* However many records a poll has returned; the deltas may not be written yet.
CommitOffsets ==
  /\ committed < position
  /\ committed' = position
  /\ UNCHANGED <<topic, lost, position, deltas, flushing, applied, mishaps>>

SwapDeltas ==
  /\ flushing = Nothing
  /\ deltas # Nothing
  /\ flushing' = deltas
  /\ deltas' = Nothing
  /\ UNCHANGED <<topic, lost, position, committed, applied, mishaps>>

CommitFlush ==
  /\ flushing # Nothing
  /\ \A z \in Zone : WithinChecks(Sum(applied, flushing), z)
  /\ applied' = Sum(applied, flushing)
  /\ flushing' = Nothing
  /\ UNCHANGED <<topic, lost, position, committed, deltas, mishaps>>

\* Mutant: what came in while the batch was being written is overwritten.
RestoreDeltasOver ==
  /\ flushing # Nothing
  /\ deltas' = flushing
  /\ flushing' = Nothing
  /\ UNCHANGED <<topic, lost, position, committed, applied, mishaps>>

\* The transaction failed, for a CHECK or for any other reason.
RestoreDeltas ==
  /\ flushing # Nothing
  /\ deltas' = Sum(deltas, flushing)
  /\ flushing' = Nothing
  /\ UNCHANGED <<topic, lost, position, committed, applied, mishaps>>
-----------------------------------------------------------------------------
Mishap == mishaps < MaxMishaps /\ mishaps' = mishaps + 1

\* The transaction is committed but the answer is lost: taken for a failure.
CommitInDoubt ==
  /\ Mishap
  /\ flushing # Nothing
  /\ \A z \in Zone : WithinChecks(Sum(applied, flushing), z)
  /\ applied' = Sum(applied, flushing)
  /\ deltas' = Sum(deltas, flushing)
  /\ flushing' = Nothing
  /\ UNCHANGED <<topic, lost, position, committed>>

\* Poll returns the error of one partition and drops what the others gave.
PollDropped ==
  /\ Mishap
  /\ position < Len(topic)
  /\ position' = position + 1
  /\ UNCHANGED <<topic, lost, committed, deltas, flushing, applied>>

Restart ==
  /\ Mishap
  /\ position' = committed
  /\ deltas' = Nothing
  /\ flushing' = Nothing
  /\ UNCHANGED <<topic, lost, committed, applied>>

Flush == SwapDeltas \/ CommitFlush \/ RestoreDeltas \/ CommitInDoubt

WorkerNext ==
  \/ \E e \in Published : Arrive(e) \/ Lose(e)
  \/ Aggregate
  \/ CommitOffsets
  \/ Flush
  \/ PollDropped
  \/ Restart

WorkerSpec == WorkerInit /\ [][WorkerNext]_workerVars

(***************************************************************************)
(* The events arrive or are lost, both goroutines keep running, and the database does  *)
(* not refuse for ever a transaction that its constraints allow.           *)
(***************************************************************************)
WorkerFairSpec ==
  /\ WorkerSpec
  /\ \A e \in Published : WF_workerVars(Arrive(e) \/ Lose(e))
  /\ WF_workerVars(Aggregate)
  /\ WF_workerVars(SwapDeltas)
  /\ WF_workerVars(RestoreDeltas)
  /\ SF_workerVars(CommitFlush)
-----------------------------------------------------------------------------
(***************************************************************************)
(* Unless the worker restarts, drops a poll or misses the answer to a      *)
(* commit, every event it has taken is counted exactly once, in memory or  *)
(* in the table, however the two goroutines interleave and however often a *)
(* flush fails and its deltas are put back.                                *)
(***************************************************************************)
Copies(e) == deltas[e] + flushing[e] + applied[e]

Taken(e) == \E i \in 1 .. position : topic[i] = e

CountedOnce ==
  mishaps = 0 => \A e \in Event : Copies(e) = IF Taken(e) THEN 1 ELSE 0

(***************************************************************************)
(* "Batch update PostgreSQL every 5 seconds" (.docs/03-task.md:391): every *)
(* event that is not lost is in the table in the end, if the events that   *)
(* arrive make sense together in every zone, which one transaction writes  *)
(* all at once, and there was no such mishap.  A batch that a CHECK        *)
(* refuses because an event is late is put back, and goes through once the *)
(* event is there; one that lacks an event that was lost is refused for    *)
(* ever, with the events of every other zone.                              *)
(***************************************************************************)
MakesSense(events) ==
  \A z \in Zone : WithinChecks([e \in Event |-> IF e \in events THEN 1 ELSE 0], z)

Coherent == \E rest \in SUBSET Published : rest = Published \ lost /\ MakesSense(rest)

EveryEventSynced ==
  \A e \in Published :
    <>[]Coherent => <>(e \in lost \/ applied[e] > 0 \/ mishaps > 0)
=============================================================================
