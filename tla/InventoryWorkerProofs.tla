----------------------- MODULE InventoryWorkerProofs ------------------------
(***************************************************************************)
(* For any bookings, zones and interleaving of the two goroutines: an      *)
(* event the worker has taken is counted exactly once until something goes *)
(* wrong outside it.  CountedOnce is not inductive: the next event must be *)
(* known not to have been taken, which is so because the log holds every   *)
(* event once.                                                             *)
(***************************************************************************)
EXTENDS InventoryWorker, TLAPS

LogHasNoRepeats ==
  \A i, j \in 1 .. Len(topic) : topic[i] = topic[j] => i = j

WorkerInv == WorkerTypeOK /\ LogHasNoRepeats /\ CountedOnce

\* Initially nothing is taken and nothing counted.
LEMMA WorkerInitInv == WorkerInit => WorkerInv
<1> SUFFICES ASSUME WorkerInit PROVE WorkerInv
  OBVIOUS
<1>1. WorkerTypeOK
  BY DEF WorkerInit, WorkerTypeOK, Nothing
<1>2. LogHasNoRepeats
  BY DEF WorkerInit, LogHasNoRepeats
<1>3. CountedOnce
  BY DEF WorkerInit, CountedOnce, Copies, Taken, Nothing
<1> QED
  BY <1>1, <1>2, <1>3 DEF WorkerInv

\* Batches are added event by event.
LEMMA SumType ==
  ASSUME NEW f \in [Event -> Nat], NEW g \in [Event -> Nat]
  PROVE  /\ Sum(f, g) \in [Event -> Nat]
         /\ \A e \in Event : Sum(f, g)[e] = f[e] + g[e]
BY DEF Sum

\* The empty batch counts no event.
LEMMA NothingType == Nothing \in [Event -> Nat] /\ \A e \in Event : Nothing[e] = 0
BY DEF Nothing

\* A step that takes no event and leaves the log alone keeps the invariant if
\* no count changes.
LEMMA SameCounts ==
  ASSUME WorkerInv, WorkerTypeOK',
         topic' = topic, position' = position, mishaps' = mishaps,
         \A e \in Event : Copies(e)' = Copies(e)
  PROVE  WorkerInv'
<1>1. LogHasNoRepeats'
  BY DEF WorkerInv, LogHasNoRepeats
<1>2. \A e \in Event : Taken(e)' = Taken(e)
  BY DEF Taken
<1>3. CountedOnce'
  BY <1>2 DEF WorkerInv, CountedOnce
<1> QED
  BY <1>1, <1>3 DEF WorkerInv

\* One step per action.
LEMMA WorkerNextInv == WorkerInv /\ [WorkerNext]_workerVars => WorkerInv'
<1> SUFFICES ASSUME WorkerInv, [WorkerNext]_workerVars PROVE WorkerInv'
  OBVIOUS
<1>0. WorkerTypeOK /\ LogHasNoRepeats /\ CountedOnce
  BY DEF WorkerInv
<1>1. ASSUME NEW e \in Published, Arrive(e) PROVE WorkerInv'
  <2>0. e \in Event
    BY PublishedAssumption
  <2>1. /\ topic' \in Seq(Event)
        /\ Len(topic') = Len(topic) + 1
        /\ topic'[Len(topic) + 1] = e
        /\ \A i \in 1 .. Len(topic) : topic'[i] = topic[i]
    BY <1>0, <1>1, <2>0 DEF Arrive, WorkerTypeOK
  <2>2. WorkerTypeOK'
    BY <1>0, <1>1, <2>1 DEF Arrive, WorkerTypeOK
  <2>3. LogHasNoRepeats'
    <3>1. \A i \in 1 .. Len(topic) : topic[i] # e
      BY <1>1 DEF Arrive, InTopic
    <3>2. Len(topic) \in Nat
      BY <1>0 DEF WorkerTypeOK
    <3> QED
      BY <1>0, <2>1, <3>1, <3>2 DEF LogHasNoRepeats
  <2>4. \A d \in Event : Taken(d)' = Taken(d)
    <3>1. position' = position /\ \A i \in 1 .. position : i \in 1 .. Len(topic)
      BY <1>0, <1>1 DEF Arrive, WorkerTypeOK
    <3> QED
      BY <2>1, <3>1, Zenon DEF Taken
  <2>5. CountedOnce'
    BY <1>0, <1>1, <2>4 DEF Arrive, CountedOnce, Copies
  <2> QED
    BY <2>2, <2>3, <2>5 DEF WorkerInv
<1>9. ASSUME NEW e \in Published, Lose(e) PROVE WorkerInv'
  <2>1. WorkerTypeOK'
    BY <1>0, <1>9 DEF Lose, WorkerTypeOK
  <2> QED
    BY <1>9, <2>1, SameCounts DEF Lose, Copies
<1>2. CASE Aggregate
  <2> DEFINE d == topic[position + 1]
  <2>1. d \in Event /\ position + 1 \in 1 .. Len(topic)
    BY <1>0, <1>2 DEF Aggregate, WorkerTypeOK
  <2>2. WorkerTypeOK'
    BY <1>0, <1>2, <2>1 DEF Aggregate, WorkerTypeOK
  <2>3. LogHasNoRepeats'
    BY <1>0, <1>2 DEF Aggregate, LogHasNoRepeats
  <2>4. ~ Taken(d)
    BY <1>0, <2>1 DEF Taken, LogHasNoRepeats, WorkerTypeOK
  <2>5. \A e \in Event : Taken(e)' <=> Taken(e) \/ e = d
    <3>1. 1 .. position' = (1 .. position) \cup {position + 1}
      BY <1>0, <1>2 DEF Aggregate, WorkerTypeOK
    <3> QED
      BY <1>2, <3>1 DEF Aggregate, Taken
  <2>6. \A e \in Event : deltas'[e] = IF e = d THEN deltas[e] + 1 ELSE deltas[e]
    BY <1>0, <1>2, <2>1 DEF Aggregate, WorkerTypeOK
  <2>7. CountedOnce'
    <3> SUFFICES ASSUME mishaps' = 0, NEW e \in Event
                 PROVE  Copies(e)' = IF Taken(e)' THEN 1 ELSE 0
      BY DEF CountedOnce
    <3>1. Copies(e) = IF Taken(e) THEN 1 ELSE 0
      BY <1>0, <1>2 DEF Aggregate, CountedOnce
    <3>2. /\ deltas[e] \in Nat /\ flushing[e] \in Nat /\ applied[e] \in Nat
          /\ flushing' = flushing /\ applied' = applied
      BY <1>0, <1>2 DEF Aggregate, WorkerTypeOK
    <3>3. CASE e = d
      <4>1. Copies(e)' = Copies(e) + 1
        BY <2>6, <3>2, <3>3 DEF Copies
      <4> QED
        BY <2>4, <2>5, <3>1, <3>3, <4>1
    <3>4. CASE e # d
      <4>1. Copies(e)' = Copies(e)
        BY <2>6, <3>2, <3>4 DEF Copies
      <4> QED
        BY <2>5, <3>1, <3>4, <4>1
    <3> QED
      BY <3>3, <3>4
  <2> QED
    BY <2>2, <2>3, <2>7 DEF WorkerInv
<1>3. CASE CommitOffsets
  <2>1. WorkerTypeOK'
    BY <1>0, <1>3 DEF CommitOffsets, WorkerTypeOK
  <2> QED
    BY <1>3, <2>1, SameCounts DEF CommitOffsets, Copies
<1>4. CASE SwapDeltas
  <2>1. WorkerTypeOK'
    BY <1>0, <1>4, NothingType DEF SwapDeltas, WorkerTypeOK
  <2>2. \A e \in Event : Copies(e)' = Copies(e)
    BY <1>0, <1>4, NothingType DEF SwapDeltas, Copies, WorkerTypeOK
  <2> QED
    BY <1>4, <2>1, <2>2, SameCounts DEF SwapDeltas
<1>5. CASE CommitFlush
  <2>1. WorkerTypeOK'
    BY <1>0, <1>5, NothingType, SumType DEF CommitFlush, WorkerTypeOK
  <2>2. ASSUME NEW e \in Event PROVE Copies(e)' = Copies(e)
    <3>1. deltas[e] \in Nat /\ flushing[e] \in Nat /\ applied[e] \in Nat
      BY <1>0 DEF WorkerTypeOK
    <3>2. /\ deltas' = deltas /\ flushing'[e] = 0
          /\ applied'[e] = applied[e] + flushing[e]
      BY <1>0, <1>5, NothingType, SumType DEF CommitFlush, WorkerTypeOK
    <3> QED
      BY <3>1, <3>2 DEF Copies
  <2> QED
    BY <1>5, <2>1, <2>2, SameCounts DEF CommitFlush
<1>6. CASE RestoreDeltas
  <2>1. WorkerTypeOK'
    BY <1>0, <1>6, NothingType, SumType DEF RestoreDeltas, WorkerTypeOK
  <2>2. ASSUME NEW e \in Event PROVE Copies(e)' = Copies(e)
    <3>1. deltas[e] \in Nat /\ flushing[e] \in Nat /\ applied[e] \in Nat
      BY <1>0 DEF WorkerTypeOK
    <3>2. /\ deltas'[e] = deltas[e] + flushing[e]
          /\ flushing'[e] = 0 /\ applied' = applied
      BY <1>0, <1>6, NothingType, SumType DEF RestoreDeltas, WorkerTypeOK
    <3> QED
      BY <3>1, <3>2 DEF Copies
  <2> QED
    BY <1>6, <2>1, <2>2, SameCounts DEF RestoreDeltas
<1>7. CASE CommitInDoubt \/ PollDropped \/ Restart
  <2>1. mishaps' # 0 /\ topic' = topic /\ mishaps' \in Nat
    BY <1>0, <1>7 DEF CommitInDoubt, PollDropped, Restart, Mishap, WorkerTypeOK
  <2>2. WorkerTypeOK'
    <3>1. CASE CommitInDoubt
      BY <1>0, <2>1, <3>1, NothingType, SumType DEF CommitInDoubt, WorkerTypeOK
    <3>2. CASE PollDropped
      BY <1>0, <2>1, <3>2 DEF PollDropped, WorkerTypeOK
    <3>3. CASE Restart
      BY <1>0, <2>1, <3>3, NothingType DEF Restart, WorkerTypeOK
    <3> QED
      BY <1>7, <3>1, <3>2, <3>3
  <2> QED
    BY <1>0, <2>1, <2>2 DEF WorkerInv, LogHasNoRepeats, CountedOnce
<1>8. CASE UNCHANGED workerVars
  BY <1>0, <1>8
  DEF workerVars, WorkerInv, WorkerTypeOK, LogHasNoRepeats, CountedOnce, Copies, Taken
<1> QED
  BY <1>1, <1>2, <1>3, <1>4, <1>5, <1>6, <1>7, <1>8, <1>9 DEF WorkerNext, Flush

\* Types of the log, the offsets and the counts; the recorded offset never
\* passes what the worker has taken.
THEOREM WorkerTypeSafe == WorkerSpec => []WorkerTypeOK
<1>1. WorkerInv => WorkerTypeOK
  BY DEF WorkerInv
<1> QED
  BY <1>1, WorkerInitInv, WorkerNextInv, PTL DEF WorkerSpec

\* Every event taken is counted exactly once until the first mishap.
THEOREM EventsCountedOnce == WorkerSpec => []CountedOnce
<1>1. WorkerInv => CountedOnce
  BY DEF WorkerInv
<1> QED
  BY <1>1, WorkerInitInv, WorkerNextInv, PTL DEF WorkerSpec
=============================================================================
