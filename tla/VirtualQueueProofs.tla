------------------------- MODULE VirtualQueueProofs -------------------------
(***************************************************************************)
(* What is proved of the virtual queue, for any number of users, release   *)
(* workers and reservations and any limit: the order of the line is kept,  *)
(* the passes stay within the limit once per worker, and a stored pass can *)
(* be fetched.                                                             *)
(***************************************************************************)
EXTENDS VirtualQueue, FiniteSetTheorems, TLAPS

(***************************************************************************)
(* Numbers                                                                 *)
(***************************************************************************)
\* A set of natural numbers has a least element.
LEMMA Least ==
  ASSUME NEW T \in SUBSET Nat, T # {}
  PROVE  \E a \in T : \A d \in T : a <= d
<1>1. PICK R : R = OpToRel(<, Nat)
  OBVIOUS
<1>2. IsWellFoundedOn(R, Nat)
  BY <1>1, NatLessThanWellFounded
<1>3. R = {ss \in Nat \X Nat : ss[1] < ss[2]}
  BY <1>1 DEF OpToRel
<1>4. PICK a \in T : \A d \in T : ~ (<<d, a>> \in R)
  BY <1>2, WFMin
<1>5. \A d \in T : ~ (d < a)
  BY <1>3, <1>4
<1> QED
  BY <1>4, <1>5

\* A bounded set of natural numbers has a greatest element.
LEMMA Greatest ==
  ASSUME NEW n \in Nat, NEW T \in SUBSET (1..n), T # {}
  PROVE  \E a \in T : \A d \in T : d <= a
<1> DEFINE U == {u \in Nat : \A d \in T : d <= u}
<1>1. n \in U /\ U \in SUBSET Nat
  OBVIOUS
<1>2. PICK u \in U : \A v \in U : u <= v
  BY <1>1, Least
<1>3. CASE u \in T
  BY <1>2, <1>3
<1>4. CASE u \notin T
  <2>1. \A d \in T : d \in Nat /\ d < u
    BY <1>2, <1>4
  <2>2. u - 1 \in Nat
    <3>1. PICK d \in T : d \in Nat /\ d < u
      BY <2>1
    <3>2. u \in Nat
      BY <1>1
    <3> QED
      BY <3>1, <3>2
  <2>3. \A d \in T : d <= u - 1
    BY <1>2, <2>1
  <2>4. u - 1 \in U
    BY <2>2, <2>3
  <2> QED
    BY <1>2, <2>4
<1> QED
  BY <1>3, <1>4

(***************************************************************************)
(* Places that workers may yet fill                                        *)
(***************************************************************************)
Cells(y) == UNION {{r} \X (1..y[r]) : r \in Releaser}

\* A cell is a worker and a number up to the worker's.
LEMMA CellsAre ==
  ASSUME NEW y \in [Releaser -> 0..Limit]
  PROVE  /\ \A r \in Releaser, i \in Nat : <<r, i>> \in Cells(y) <=> i \in 1..y[r]
         /\ \A c \in Cells(y) : c[1] \in Releaser /\ c[2] \in 1..y[c[1]] /\ c = <<c[1], c[2]>>
         /\ IsFiniteSet(Cells(y)) /\ Cardinality(Cells(y)) \in Nat
<1>1. Limit \in Nat /\ IsFiniteSet(Releaser) BY QueueAssumption
<1>2. \A r \in Releaser : y[r] \in Nat /\ y[r] <= Limit BY <1>1
<1>3. \A c \in Cells(y) : c[1] \in Releaser /\ c[2] \in 1..y[c[1]] /\ c = <<c[1], c[2]>> BY DEF Cells
<1>4. \A r \in Releaser, i \in Nat : <<r, i>> \in Cells(y) <=> i \in 1..y[r]
  <2> SUFFICES ASSUME NEW r \in Releaser, NEW i \in Nat PROVE <<r, i>> \in Cells(y) <=> i \in 1..y[r]
    OBVIOUS
  <2>1. i \in 1..y[r] => <<r, i>> \in Cells(y) BY DEF Cells
  <2>2. <<r, i>> \in Cells(y) => i \in 1..y[r] BY <1>3
  <2> QED BY <2>1, <2>2
<1>5. Cells(y) \in SUBSET (Releaser \X (1..Limit))
  <2>1. \A c \in Cells(y) : c[2] \in 1..Limit BY <1>1, <1>2, <1>3
  <2> QED BY <1>3, <2>1
<1>6. IsFiniteSet(1..Limit) BY <1>1, FS_Interval
<1>7. IsFiniteSet(Releaser \X (1..Limit)) BY <1>1, <1>6, FS_Product
<1>8. IsFiniteSet(Cells(y)) BY <1>5, <1>7, FS_Subset
<1> QED BY <1>3, <1>4, <1>8, FS_CardinalityType

\* Fewer places are fewer cells.
LEMMA FewerCells ==
  ASSUME NEW y \in [Releaser -> 0..Limit], NEW z \in [Releaser -> 0..Limit],
         \A r \in Releaser : z[r] <= y[r]
  PROVE  Cardinality(Cells(z)) <= Cardinality(Cells(y))
<1>1. Limit \in Nat BY QueueAssumption
<1>2. \A r \in Releaser : y[r] \in Nat /\ z[r] \in Nat BY <1>1
<1>3. ASSUME NEW c \in Cells(z) PROVE c \in Cells(y)
  <2>1. c[1] \in Releaser /\ c[2] \in 1..z[c[1]] /\ c = <<c[1], c[2]>> BY CellsAre
  <2>2. c[2] \in 1..y[c[1]] /\ c[2] \in Nat BY <1>2, <2>1
  <2> QED BY <2>1, <2>2, CellsAre
<1>4. Cells(z) \in SUBSET Cells(y) BY <1>3
<1>5. IsFiniteSet(Cells(y)) BY CellsAre
<1> QED BY <1>4, <1>5, FS_Subset

\* A worker that fills a place has one less to fill.
LEMMA OneCellLess ==
  ASSUME NEW y \in [Releaser -> 0..Limit], NEW z \in [Releaser -> 0..Limit], NEW r \in Releaser,
         z[r] = y[r] - 1, \A t \in Releaser \ {r} : z[t] = y[t]
  PROVE  Cardinality(Cells(z)) + 1 <= Cardinality(Cells(y))
<1>1. Limit \in Nat BY QueueAssumption
<1>2. \A t \in Releaser : y[t] \in Nat /\ z[t] \in Nat /\ z[t] <= y[t] BY <1>1
<1>3. y[r] \in 1..y[r] /\ y[r] \in Nat BY <1>2
<1>4. <<r, y[r]>> \in Cells(y) BY <1>3, CellsAre
<1>5. ASSUME NEW c \in Cells(z) PROVE c \in Cells(y) \ {<<r, y[r]>>}
  <2>1. c[1] \in Releaser /\ c[2] \in 1..z[c[1]] /\ c = <<c[1], c[2]>> BY CellsAre
  <2>2. c[2] \in 1..y[c[1]] /\ c[2] \in Nat BY <1>2, <2>1
  <2>3. c \in Cells(y) BY <2>1, <2>2, CellsAre
  <2>4. c # <<r, y[r]>>
    <3>1. c[1] = r => c[2] # y[r] BY <1>2, <2>1
    <3> QED BY <3>1
  <2> QED BY <2>3, <2>4
<1>6. Cells(z) \in SUBSET (Cells(y) \ {<<r, y[r]>>}) BY <1>5
<1>7. IsFiniteSet(Cells(y)) /\ Cardinality(Cells(y)) \in Nat /\ Cardinality(Cells(z)) \in Nat BY CellsAre
<1>8. IsFiniteSet(Cells(y) \ {<<r, y[r]>>}) /\ Cardinality(Cells(y) \ {<<r, y[r]>>}) = Cardinality(Cells(y)) - 1
  BY <1>4, <1>7, FS_RemoveElement
<1>9. Cardinality(Cells(z)) <= Cardinality(Cells(y) \ {<<r, y[r]>>}) BY <1>6, <1>8, FS_Subset
<1> QED BY <1>7, <1>8, <1>9

\* The others have no more to fill than the limit once for each of them.
LEMMA RoomForOne ==
  ASSUME NEW z \in [Releaser -> 0..Limit], NEW r \in Releaser
  PROVE  Cardinality(Cells(z)) + Limit <= Cardinality(Releaser) * Limit + z[r]
<1>1. Limit \in Nat /\ IsFiniteSet(Releaser) /\ Cardinality(Releaser) \in Nat
  BY QueueAssumption, FS_CardinalityType
<1>2. \A t \in Releaser : z[t] \in Nat /\ z[t] <= Limit BY <1>1
<1>3. PICK Own : Own = {r} \X (1..z[r]) OBVIOUS
<1>4. PICK Rest : Rest = (Releaser \ {r}) \X (1..Limit) OBVIOUS
<1>5. IsFiniteSet(Own) /\ Cardinality(Own) = z[r]
  <2>1. IsFiniteSet({r}) /\ Cardinality({r}) = 1 BY FS_Singleton
  <2>2. IsFiniteSet(1..z[r]) /\ Cardinality(1..z[r]) = z[r] BY <1>2, FS_Interval
  <2>3. /\ IsFiniteSet({r} \X (1..z[r]))
        /\ Cardinality({r} \X (1..z[r])) = Cardinality({r}) * Cardinality(1..z[r])
    BY <2>1, <2>2, FS_Product, Zenon
  <2>4. 1 * z[r] = z[r] BY <1>2
  <2> QED BY <1>3, <2>1, <2>2, <2>3, <2>4, Zenon
<1>6. IsFiniteSet(Rest) /\ Cardinality(Rest) = (Cardinality(Releaser) - 1) * Limit
  <2>1. IsFiniteSet(Releaser \ {r}) /\ Cardinality(Releaser \ {r}) = Cardinality(Releaser) - 1
    BY <1>1, FS_RemoveElement
  <2>2. IsFiniteSet(1..Limit) /\ Cardinality(1..Limit) = Limit BY <1>1, FS_Interval
  <2>3. /\ IsFiniteSet((Releaser \ {r}) \X (1..Limit))
        /\ Cardinality((Releaser \ {r}) \X (1..Limit)) = Cardinality(Releaser \ {r}) * Cardinality(1..Limit)
    BY <2>1, <2>2, FS_Product
  <2> QED BY <1>4, <2>1, <2>2, <2>3
<1>7. Cells(z) \in SUBSET (Own \union Rest)
  <2> SUFFICES ASSUME NEW c \in Cells(z) PROVE c \in Own \union Rest
    OBVIOUS
  <2>1. c[1] \in Releaser /\ c[2] \in 1..z[c[1]] /\ c = <<c[1], c[2]>> BY CellsAre
  <2>2. CASE c[1] = r BY <1>3, <2>1, <2>2
  <2>3. CASE c[1] # r
    <3>1. c[2] \in 1..Limit BY <1>1, <1>2, <2>1
    <3> QED BY <1>4, <2>1, <2>3, <3>1
  <2> QED BY <2>2, <2>3
<1>8. Cardinality(Own \union Rest) <= Cardinality(Own) + Cardinality(Rest) /\ IsFiniteSet(Own \union Rest)
  <2>1. /\ IsFiniteSet(Own \union Rest)
        /\ Cardinality(Own \union Rest) = Cardinality(Own) + Cardinality(Rest) - Cardinality(Own \cap Rest)
    BY <1>5, <1>6, FS_Union
  <2>2. IsFiniteSet(Own \cap Rest) BY <1>5, FS_Intersection
  <2>3. Cardinality(Own \cap Rest) \in Nat /\ Cardinality(Own) \in Nat /\ Cardinality(Rest) \in Nat
    BY <1>5, <1>6, <2>2, FS_CardinalityType
  <2> QED BY <2>1, <2>3
<1>9. Cardinality(Cells(z)) <= Cardinality(Own \union Rest) BY <1>7, <1>8, FS_Subset
<1>10. /\ Cardinality(Cells(z)) \in Nat /\ Cardinality(Own \union Rest) \in Nat
       /\ Cardinality(Rest) \in Nat
  BY <1>6, <1>8, CellsAre, FS_CardinalityType
<1>11. (Cardinality(Releaser) - 1) * Limit = Cardinality(Releaser) * Limit - Limit BY <1>1
<1>12. Cardinality(Releaser) * Limit \in Int BY <1>1
<1> QED BY <1>1, <1>2, <1>5, <1>6, <1>8, <1>9, <1>10, <1>11, <1>12

(***************************************************************************)
(* The queue                                                               *)
(***************************************************************************)
\* What Redis, the clients and the reservations hold.
StoreInv ==
  /\ line \in [User -> 0..arrivals] /\ \A u, v \in Waiting : line[u] = line[v] => u = v
  /\ arrivals \in Nat
  /\ joins \in [User -> Nat] /\ \A u \in User : joins[u] <= MaxJoins[u]
  /\ pass \in [User -> {"service", "worker", NoPass}]
  /\ has \in [User -> SUBSET ({Client} \union Poll \union Releaser)]
  /\ \A u \in User : pass[u] = NoPass => has[u] = {}
  /\ poll \in [Poll -> Asking \union {Idle}]
  /\ request \in [Request -> User \union {Nobody}]
  /\ stops \in 0..MaxStops

\* Who has not joined has nothing.
StrangersInv == \A u \in User : joins[u] = 0 => line[u] = NoScore /\ pass[u] = NoPass

\* Who asks again is given a pass, or has joined more than once.
Near(u) == u \notin Waiting \/ AtHead(u) \/ joins[u] > 1

\* A request that goes on was begun at the head of the line or out of it; since then its
\* user has stayed there, or left, or joined once more.
PollsInv == \A p \in Poll : poll[p] # Idle => joins[poll[p].user] > 0 /\ Near(poll[p].user)

\* What a worker read is no more than there was room for.
Fits(worker) ==
  /\ worker \in Releasing
  /\ IsFiniteSet(worker.batch) /\ Cardinality(worker.batch) <= worker.room
  /\ worker.at = "read" \/ worker.batch # {}

\* With the scores l, of which the last is a, and the joins j: whoever
\* stands in front of one that is to be taken is to be taken too; whoever was taken is
\* no longer in the line, or has joined again.
Known(worker, l, a, j) ==
  /\ \A b \in worker.batch : b[2] \in 1..a /\ j[b[1]] > 0
  /\ worker.at = "take" =>
       \A b \in worker.batch, u \in User : l[u] # NoScore /\ l[u] < b[2] => \E c \in worker.batch : c[1] = u
  /\ worker.at \in {"store", "publish"} => \A b \in worker.batch : l[b[1]] # NoScore => j[b[1]] > 1

WorkersInv ==
  /\ releaser \in [Releaser -> Releasing \union {Idle}]
  /\ \A r \in Releaser :
       releaser[r] # Idle => Fits(releaser[r]) /\ Known(releaser[r], line, arrivals, joins)

QueueInv == StoreInv /\ StrangersInv /\ PollsInv /\ WorkersInv /\ PassWithinReach /\ PassesBounded

\* What a worker has yet to store is within the limit.
LEMMA YetWithin ==
  ASSUME NEW worker, worker = Idle \/ Fits(worker)
  PROVE  Yet(worker) \in 0..Limit
<1>1. Limit \in Nat BY QueueAssumption
<1>2. CASE worker = Idle BY <1>1, <1>2 DEF Yet
<1>3. CASE worker # Idle
  <2>1. worker \in Releasing /\ IsFiniteSet(worker.batch) /\ Cardinality(worker.batch) <= worker.room
        /\ (worker.at = "read" \/ worker.batch # {})
    BY <1>3 DEF Fits
  <2>2. worker.room \in 0..Limit BY <2>1 DEF Releasing
  <2>3. Cardinality(worker.batch) \in Nat /\ (worker.batch # {} => Cardinality(worker.batch) # 0)
    BY <2>1, FS_CardinalityType, FS_EmptySet
  <2>4. CASE worker.at = "read" BY <1>3, <2>2, <2>4 DEF Yet
  <2>5. CASE worker.at # "read"
    <3>1. PICK n \in 1..Limit : n = Cardinality(worker.batch) BY <1>1, <2>1, <2>2, <2>3, <2>5
    <3>2. Yet(worker) = n \/ Yet(worker) = n - 1 BY <1>3, <2>5, <3>1 DEF Yet
    <3> QED BY <1>1, <3>1, <3>2
  <2> QED BY <2>4, <2>5
<1> QED BY <1>2, <1>3

\* The cells of what workers have yet to store.
LEMMA YetCells ==
  ASSUME NEW workers, \A r \in Releaser : workers[r] = Idle \/ Fits(workers[r])
  PROVE  \E y \in [Releaser -> 0..Limit] :
           /\ UNION {{r} \X (1..Yet(workers[r])) : r \in Releaser} = Cells(y)
           /\ \A r \in Releaser : y[r] = Yet(workers[r])
<1>1. PICK y : y = [r \in Releaser |-> Yet(workers[r])] OBVIOUS
<1>2. \A r \in Releaser : Yet(workers[r]) \in 0..Limit BY YetWithin
<1>3. \A r \in Releaser : y[r] = Yet(workers[r]) BY <1>1
<1>4. y \in [Releaser -> 0..Limit] BY <1>1, <1>2
<1>5. UNION {{r} \X (1..Yet(workers[r])) : r \in Releaser} = Cells(y) BY <1>3 DEF Cells
<1> QED BY <1>3, <1>4, <1>5

\* The users with a stored pass, those who wait and those with a pass are finitely many.
LEMMA StoredFinite ==
  /\ IsFiniteSet(Stored) /\ Cardinality(Stored) \in Nat
  /\ IsFiniteSet(Waiting) /\ Cardinality(Waiting) \in Nat
  /\ IsFiniteSet(Active) /\ Cardinality(Active) \in Nat
<1>1. Stored \in SUBSET User /\ Waiting \in SUBSET User /\ Active \in SUBSET User BY DEF Stored, Waiting, Active
<1>2. IsFiniteSet(User) BY QueueAssumption
<1> QED BY <1>1, <1>2, FS_Subset, FS_CardinalityType

\* The passes stay within the bound when none is stored and no worker has more to store.
LEMMA NoMorePasses ==
  ASSUME WorkersInv, WorkersInv', PassesBounded, Stored' \subseteq Stored,
         \A r \in Releaser : Yet(releaser'[r]) <= Yet(releaser[r])
  PROVE  PassesBounded'
<1>1. PICK y \in [Releaser -> 0..Limit] : ToStore = Cells(y) /\ \A r \in Releaser : y[r] = Yet(releaser[r])
  BY YetCells DEF WorkersInv, ToStore
<1>2. PICK z \in [Releaser -> 0..Limit] : ToStore' = Cells(z) /\ \A r \in Releaser : z[r] = Yet(releaser'[r])
  BY YetCells DEF WorkersInv, ToStore
<1>3. Cardinality(Cells(z)) <= Cardinality(Cells(y)) BY <1>1, <1>2, FewerCells
<1>4. Cardinality(Stored') <= Cardinality(Stored) /\ Cardinality(Stored') \in Nat
  <2>1. Stored' \in SUBSET Stored OBVIOUS
  <2>2. IsFiniteSet(Stored) BY StoredFinite
  <2> QED BY <2>1, <2>2, FS_Subset, FS_CardinalityType
<1>5. Cardinality(Stored) \in Nat /\ Cardinality(Cells(z)) \in Nat /\ Cardinality(Cells(y)) \in Nat
  BY StoredFinite, CellsAre
<1>6. Cardinality(Releaser) * Limit \in Int BY QueueAssumption, FS_CardinalityType
<1>7. Cardinality(Stored) + Cardinality(Cells(y)) <= Cardinality(Releaser) * Limit BY <1>1 DEF PassesBounded
<1>8. Cardinality(Stored') + Cardinality(Cells(z)) <= Cardinality(Releaser) * Limit
  BY <1>3, <1>4, <1>5, <1>6, <1>7
<1> QED BY <1>2, <1>8 DEF PassesBounded

\* A worker that stores a pass has one less to store.
LEMMA OnePassMore ==
  ASSUME WorkersInv, WorkersInv', PassesBounded, NEW r \in Releaser, NEW u, Stored' \subseteq Stored \union {u},
         Yet(releaser'[r]) = Yet(releaser[r]) - 1,
         \A s \in Releaser \ {r} : releaser'[s] = releaser[s]
  PROVE  PassesBounded'
<1>1. PICK y \in [Releaser -> 0..Limit] : ToStore = Cells(y) /\ \A s \in Releaser : y[s] = Yet(releaser[s])
  BY YetCells DEF WorkersInv, ToStore
<1>2. PICK z \in [Releaser -> 0..Limit] : ToStore' = Cells(z) /\ \A s \in Releaser : z[s] = Yet(releaser'[s])
  BY YetCells DEF WorkersInv, ToStore
<1>3. z[r] = y[r] - 1 /\ \A s \in Releaser \ {r} : z[s] = y[s] BY <1>1, <1>2
<1>4. Cardinality(Cells(z)) + 1 <= Cardinality(Cells(y)) BY <1>3, OneCellLess
<1>5. Cardinality(Stored') <= Cardinality(Stored) + 1 /\ Cardinality(Stored') \in Nat
  <2>1. Stored' \in SUBSET (Stored \union {u}) OBVIOUS
  <2>2. IsFiniteSet(Stored) /\ Cardinality(Stored) \in Nat BY StoredFinite
  <2>3. /\ IsFiniteSet(Stored \union {u})
        /\ Cardinality(Stored \union {u}) = IF u \in Stored THEN Cardinality(Stored) ELSE Cardinality(Stored) + 1
    BY <2>2, FS_AddElement
  <2>4. Cardinality(Stored \union {u}) <= Cardinality(Stored) + 1 /\ Cardinality(Stored \union {u}) \in Nat
    BY <2>2, <2>3
  <2>5. Cardinality(Stored') <= Cardinality(Stored \union {u}) /\ IsFiniteSet(Stored') BY <2>1, <2>3, FS_Subset
  <2>6. Cardinality(Stored') \in Nat BY <2>5, FS_CardinalityType
  <2> QED BY <2>2, <2>4, <2>5, <2>6
<1>6. Cardinality(Stored) \in Nat /\ Cardinality(Cells(z)) \in Nat /\ Cardinality(Cells(y)) \in Nat
  BY StoredFinite, CellsAre
<1>7. Cardinality(Releaser) * Limit \in Int BY QueueAssumption, FS_CardinalityType
<1>8. Cardinality(Stored) + Cardinality(Cells(y)) <= Cardinality(Releaser) * Limit BY <1>1 DEF PassesBounded
<1>9. Cardinality(Stored') + Cardinality(Cells(z)) <= Cardinality(Releaser) * Limit
  BY <1>4, <1>5, <1>6, <1>7, <1>8
<1> QED BY <1>2, <1>9 DEF PassesBounded

\* A worker that counts the passes finds no more room than the limit leaves.
LEMMA RoomCounted ==
  ASSUME WorkersInv', NEW r \in Releaser, Stored' \subseteq Active, Yet(releaser'[r]) = Limit - Cardinality(Active)
  PROVE  PassesBounded'
<1>1. PICK z \in [Releaser -> 0..Limit] : ToStore' = Cells(z) /\ \A s \in Releaser : z[s] = Yet(releaser'[s])
  BY YetCells DEF WorkersInv, ToStore
<1>2. Cardinality(Cells(z)) + Limit <= Cardinality(Releaser) * Limit + z[r] BY RoomForOne
<1>3. Cardinality(Stored') <= Cardinality(Active) /\ Cardinality(Stored') \in Nat /\ Cardinality(Active) \in Nat
  <2>1. Stored' \in SUBSET Active /\ IsFiniteSet(Active) BY StoredFinite
  <2> QED BY <2>1, FS_Subset, FS_CardinalityType
<1>4. z[r] = Limit - Cardinality(Active) BY <1>1
<1>5. Cardinality(Cells(z)) \in Nat /\ Limit \in Nat /\ Cardinality(Releaser) * Limit \in Int
  BY CellsAre, QueueAssumption, FS_CardinalityType
<1>6. Cardinality(Stored') + Cardinality(Cells(z)) <= Cardinality(Releaser) * Limit BY <1>2, <1>3, <1>4, <1>5
<1> QED BY <1>1, <1>6 DEF PassesBounded

\* What is known to a worker stays true when users leave the line, and when they join
\* at its end once more.
LEMMA KnownStays ==
  ASSUME NEW l \in [User -> Nat], NEW l2 \in [User -> Nat], NEW a \in Nat, NEW a2 \in Nat,
         NEW j \in [User -> Nat], NEW j2 \in [User -> Nat],
         a <= a2, \A u \in User : j[u] <= j2[u],
         \A u \in User : l2[u] = NoScore \/ l2[u] = l[u] \/ (l2[u] > a /\ (j[u] > 0 => j2[u] > 1)),
         NEW worker \in Releasing, Known(worker, l, a, j)
  PROVE  Known(worker, l2, a2, j2)
<1>1. worker.batch \in SUBSET (User \X Nat) BY DEF Releasing
<1>2. \A b \in worker.batch : b[1] \in User /\ b[2] \in Nat BY <1>1
<1>3. \A b \in worker.batch : b[2] \in 1..a2 /\ j2[b[1]] > 0 BY <1>2 DEF Known
<1>4. ASSUME worker.at = "take", NEW b \in worker.batch, NEW u \in User, l2[u] # NoScore, l2[u] < b[2]
      PROVE  \E c \in worker.batch : c[1] = u
  <2>1. b[2] \in 1..a BY DEF Known
  <2>2. l2[u] = l[u] BY <1>4, <2>1
  <2> QED BY <1>4, <2>2 DEF Known
<1>5. ASSUME worker.at \in {"store", "publish"}, NEW b \in worker.batch, l2[b[1]] # NoScore PROVE j2[b[1]] > 1
  <2>1. PICK u \in User : u = b[1] BY <1>2
  <2>2. j[u] > 0 BY <2>1 DEF Known
  <2>3. CASE l2[u] = l[u]
    <3>1. j[u] > 1 BY <1>5, <2>1, <2>3 DEF Known
    <3> QED BY <2>1, <3>1
  <2>4. CASE l2[u] # l[u] BY <1>5, <2>1, <2>2, <2>4
  <2> QED BY <2>3, <2>4
<1> QED BY <1>3, <1>4, <1>5 DEF Known

\* One worker moves, and what the others know is not disturbed.
LEMMA WorkerMoves ==
  ASSUME WorkersInv, NEW r \in Releaser, NEW new, releaser' = [releaser EXCEPT ![r] = new],
         new = Idle \/ (Fits(new) /\ Known(new, line', arrivals', joins')),
         \A worker \in Releasing : Known(worker, line, arrivals, joins)
                                    => Known(worker, line', arrivals', joins')
  PROVE  /\ WorkersInv' /\ releaser'[r] = new
         /\ \A s \in Releaser \ {r} : releaser'[s] = releaser[s]
<1>1. new \in Releasing \union {Idle} BY DEF Fits
<1>2. releaser'[r] = new /\ \A s \in Releaser \ {r} : releaser'[s] = releaser[s] BY DEF WorkersInv
<1>3. releaser' \in [Releaser -> Releasing \union {Idle}] BY <1>1 DEF WorkersInv
<1>4. ASSUME NEW s \in Releaser, releaser'[s] # Idle
      PROVE  Fits(releaser'[s]) /\ Known(releaser'[s], line', arrivals', joins')
  <2>1. CASE s = r BY <1>2, <1>4, <2>1
  <2>2. CASE s # r
    <3>1. PICK worker : worker = releaser[s] OBVIOUS
    <3>2. releaser'[s] = worker /\ worker # Idle BY <1>2, <1>4, <2>2, <3>1
    <3>3. Fits(worker) /\ Known(worker, line, arrivals, joins) BY <3>1, <3>2 DEF WorkersInv
    <3>4. worker \in Releasing BY <3>3 DEF Fits
    <3>5. Known(worker, line', arrivals', joins') BY <3>3, <3>4
    <3> QED BY <3>2, <3>3, <3>5
  <2> QED BY <2>1, <2>2
<1> QED BY <1>2, <1>3, <1>4 DEF WorkersInv

\* The workers stay where they are.
LEMMA WorkersStay ==
  ASSUME WorkersInv, releaser' = releaser,
         \A worker \in Releasing : Known(worker, line, arrivals, joins)
                                    => Known(worker, line', arrivals', joins')
  PROVE  WorkersInv'
<1>1. ASSUME NEW s \in Releaser, releaser'[s] # Idle
      PROVE  Fits(releaser'[s]) /\ Known(releaser'[s], line', arrivals', joins')
  <2>1. PICK worker : worker = releaser[s] OBVIOUS
  <2>2. Fits(worker) /\ Known(worker, line, arrivals, joins) BY <1>1, <2>1 DEF WorkersInv
  <2>3. worker \in Releasing BY <2>2 DEF Fits
  <2>4. Known(worker, line', arrivals', joins') BY <2>2, <2>3
  <2> QED BY <2>1, <2>2, <2>4
<1> QED BY <1>1 DEF WorkersInv

\* The scores of those who wait are their order.
LEMMA HeadFits ==
  ASSUME StoreInv, NEW n \in Nat
  PROVE  /\ HeadOfLine(n) \in SUBSET (User \X Nat)
         /\ \A b \in HeadOfLine(n) : b[1] \in Waiting /\ b[2] = line[b[1]] /\ b[2] \in 1..arrivals
         /\ \A b \in HeadOfLine(n), u \in User : line[u] # NoScore /\ line[u] < b[2]
                                                   => \E c \in HeadOfLine(n) : c[1] = u
         /\ IsFiniteSet(HeadOfLine(n)) /\ Cardinality(HeadOfLine(n)) <= n
<1>1. line \in [User -> 0..arrivals] /\ arrivals \in Nat /\ \A u, v \in Waiting : line[u] = line[v] => u = v
  BY DEF StoreInv
<1>2. PICK First : First = {v \in Waiting : Cardinality(Ahead(v)) < n} OBVIOUS
<1>3. HeadOfLine(n) = {<<u, line[u]>> : u \in First} BY <1>2 DEF HeadOfLine
<1>4. \A u \in Waiting : u \in User /\ line[u] \in 1..arrivals BY <1>1 DEF Waiting, NoScore
<1>5. First \in SUBSET Waiting /\ IsFiniteSet(First)
  <2>1. First \in SUBSET Waiting BY <1>2
  <2> QED BY <2>1, StoredFinite, FS_Subset
<1>6. \A b \in HeadOfLine(n) : b[1] \in First /\ b[2] = line[b[1]] BY <1>3
<1>7. ASSUME NEW b \in HeadOfLine(n), NEW u \in User, line[u] # NoScore, line[u] < b[2]
      PROVE  \E c \in HeadOfLine(n) : c[1] = u
  <2>1. PICK v \in First : b[1] = v /\ b[2] = line[v] BY <1>6
  <2>2. u \in Waiting /\ v \in Waiting BY <1>5, <1>7 DEF Waiting
  <2>3. line[u] \in Nat /\ line[v] \in Nat /\ line[u] < line[v] BY <1>4, <1>7, <2>1, <2>2
  <2>4. \A w \in Waiting : line[w] \in Nat BY <1>4
  <2>5. Ahead(u) \in SUBSET Ahead(v) BY <2>2, <2>3, <2>4 DEF Ahead
  <2>6. IsFiniteSet(Ahead(v)) /\ IsFiniteSet(Ahead(u))
    <3>1. Ahead(v) \in SUBSET Waiting /\ Ahead(u) \in SUBSET Waiting BY DEF Ahead
    <3> QED BY <3>1, StoredFinite, FS_Subset
  <2>7. Cardinality(Ahead(u)) <= Cardinality(Ahead(v)) BY <2>5, <2>6, FS_Subset
  <2>8. Cardinality(Ahead(u)) \in Nat /\ Cardinality(Ahead(v)) \in Nat BY <2>6, FS_CardinalityType
  <2>9. Cardinality(Ahead(v)) < n BY <1>2, <2>1
  <2>10. u \in First BY <1>2, <2>2, <2>7, <2>8, <2>9
  <2>11. <<u, line[u]>> \in HeadOfLine(n) BY <1>3, <2>10
  <2> QED BY <2>11
<1>8. Cardinality(First) <= n /\ Cardinality(First) \in Nat
  <2>1. Cardinality(First) \in Nat BY <1>5, FS_CardinalityType
  <2>2. CASE First = {} BY <2>2, FS_EmptySet
  <2>3. CASE First # {}
    <3>1. PICK T : T = {line[v] : v \in First} OBVIOUS
    <3>2. T \in SUBSET (1..arrivals) /\ T # {} BY <1>4, <1>5, <2>3, <3>1
    <3>3. PICK a \in T : \A d \in T : d <= a BY <1>1, <3>2, Greatest
    <3>4. PICK w \in First : a = line[w] BY <3>1, <3>3
    <3>5. ASSUME NEW v \in First \ {w} PROVE v \in Ahead(w)
      <4>1. line[v] <= line[w] BY <3>1, <3>3, <3>4
      <4>2. v \in Waiting /\ w \in Waiting BY <1>5
      <4>3. line[v] # line[w] /\ line[v] \in Nat /\ line[w] \in Nat BY <1>1, <1>4, <3>5, <4>2
      <4> QED BY <4>1, <4>2, <4>3 DEF Ahead
    <3>6. First \ {w} \in SUBSET Ahead(w) BY <3>5
    <3>7. IsFiniteSet(Ahead(w))
      <4>1. Ahead(w) \in SUBSET Waiting BY DEF Ahead
      <4> QED BY <4>1, StoredFinite, FS_Subset
    <3>8. Cardinality(First \ {w}) <= Cardinality(Ahead(w)) /\ Cardinality(Ahead(w)) \in Nat
      BY <3>6, <3>7, FS_Subset, FS_CardinalityType
    <3>9. Cardinality(First \ {w}) = Cardinality(First) - 1 BY <1>5, FS_RemoveElement
    <3>10. Cardinality(Ahead(w)) < n BY <1>2
    <3> QED BY <2>1, <3>8, <3>9, <3>10
  <2> QED BY <2>1, <2>2, <2>3
<1>9. IsFiniteSet(HeadOfLine(n)) /\ Cardinality(HeadOfLine(n)) <= Cardinality(First)
  <2>1. PICK H : H = HeadOfLine(n) OBVIOUS
  <2>2. PICK f : f = [u \in First |-> <<u, line[u]>>] OBVIOUS
  <2>3. f \in [First -> H] BY <1>3, <2>1, <2>2
  <2>4. \A b \in H : \E u \in First : f[u] = b BY <1>3, <2>1, <2>2
  <2>5. f \in Surjection(First, H) BY <2>3, <2>4 DEF Surjection
  <2>6. IsFiniteSet(H) /\ Cardinality(H) <= Cardinality(First) BY <1>5, <2>5, FS_Surjection
  <2> QED BY <2>1, <2>6
<1>10. HeadOfLine(n) \in SUBSET (User \X Nat) BY <1>3, <1>4, <1>5
<1>11. Cardinality(HeadOfLine(n)) <= n BY <1>8, <1>9, FS_CardinalityType
<1>12. \A b \in HeadOfLine(n) : b[1] \in Waiting /\ b[2] = line[b[1]] /\ b[2] \in 1..arrivals
  BY <1>4, <1>5, <1>6
<1> QED BY <1>7, <1>9, <1>10, <1>11, <1>12

\* A worker has as much to store as itself.
LEMMA SameYet ==
  ASSUME WorkersInv, NEW r \in Releaser
  PROVE  Yet(releaser[r]) <= Yet(releaser[r]) /\ Yet(releaser[r]) \in Nat
<1>1. PICK worker : worker = releaser[r] OBVIOUS
<1>2. worker = Idle \/ Fits(worker) BY <1>1 DEF WorkersInv
<1>3. Yet(worker) \in 0..Limit BY <1>2, YetWithin
<1>4. Limit \in Nat BY QueueAssumption
<1> QED BY <1>1, <1>3, <1>4

\* A step that only changes what clients and reservations hold, or stores other passes
\* than the workers'.
LEMMA QuietStep ==
  ASSUME QueueInv, StoreInv', StrangersInv', PollsInv', PassWithinReach',
         UNCHANGED <<line, arrivals, joins, releaser>>, Stored' \subseteq Stored
  PROVE  QueueInv'
<1>1. WorkersInv' BY WorkersStay DEF QueueInv
<1>2. \A r \in Releaser : Yet(releaser'[r]) <= Yet(releaser[r]) BY SameYet DEF QueueInv
<1>3. PassesBounded' BY <1>1, <1>2, NoMorePasses DEF QueueInv
<1> QED BY <1>1, <1>3 DEF QueueInv

\* When users leave the line, those who stay are no further from its head.
LEMMA NearStays ==
  ASSUME \A u \in User : line'[u] = NoScore \/ line'[u] = line[u], joins' = joins, NEW v \in User, Near(v)
  PROVE  Near(v)'
<1>1. Waiting' \in SUBSET Waiting BY DEF Waiting
<1>2. CASE v \notin Waiting' BY <1>2 DEF Near
<1>3. CASE v \in Waiting'
  <2>1. line'[v] = line[v] /\ v \in Waiting BY <1>1, <1>3 DEF Waiting
  <2>2. \A w \in Waiting' : line'[w] = line[w] /\ w \in Waiting BY <1>1 DEF Waiting
  <2>3. AtHead(v) => AtHead(v)' BY <1>3, <2>1, <2>2 DEF AtHead, Ahead
  <2> QED BY <2>1, <2>3 DEF Near
<1> QED BY <1>2, <1>3

\* A step in which users leave the line, by themselves or taken from it.
LEMMA SomeLeave ==
  ASSUME QueueInv, line' \in [User -> 0..arrivals], \A u \in User : line'[u] = NoScore \/ line'[u] = line[u],
         UNCHANGED <<arrivals, joins, pass, has, poll, request>>, stops' \in 0..MaxStops
  PROVE  /\ StoreInv' /\ StrangersInv' /\ PollsInv' /\ PassWithinReach' /\ Stored' \subseteq Stored
         /\ \A worker \in Releasing : Known(worker, line, arrivals, joins)
                                       => Known(worker, line', arrivals', joins')
         /\ releaser' = releaser => QueueInv'
<1>1. line \in [User -> 0..arrivals] /\ arrivals \in Nat /\ joins \in [User -> Nat]
  BY DEF QueueInv, StoreInv
<1>2. Waiting' \in SUBSET Waiting BY DEF Waiting
<1>3. \A v, w \in Waiting' : line'[v] = line'[w] => v = w
  <2> SUFFICES ASSUME NEW v \in Waiting', NEW w \in Waiting', line'[v] = line'[w] PROVE v = w
    OBVIOUS
  <2>1. line[v] = line[w] /\ v \in Waiting /\ w \in Waiting BY <1>2 DEF Waiting
  <2> QED BY <2>1 DEF QueueInv, StoreInv
<1>4. StoreInv' BY <1>3 DEF QueueInv, StoreInv
<1>5. StrangersInv' BY DEF QueueInv, StrangersInv
<1>6. PollsInv'
  <2> SUFFICES ASSUME NEW p \in Poll, poll[p] # Idle
               PROVE  joins[poll[p].user] > 0 /\ Near(poll[p].user)'
    BY DEF PollsInv, Near, AtHead, Ahead, Waiting
  <2>1. PICK v \in User : v = poll[p].user BY DEF QueueInv, StoreInv, Asking
  <2>2. joins[v] > 0 /\ Near(v) BY <2>1 DEF QueueInv, PollsInv
  <2>3. Near(v)' BY <2>2, NearStays
  <2> QED BY <2>1, <2>2, <2>3 DEF Near, AtHead, Ahead, Waiting
<1>7. PassWithinReach'
  <2>1. ASSUME NEW v \in User, pass[v] # NoPass, Client \notin has[v] PROVE Near(v)'
    <3>1. Near(v) BY <2>1 DEF QueueInv, PassWithinReach, Near
    <3> QED BY <3>1, NearStays
  <2> QED BY <2>1 DEF PassWithinReach, Near
<1>8. Stored' \subseteq Stored BY DEF Stored
<1>9. ASSUME NEW worker \in Releasing, Known(worker, line, arrivals, joins)
      PROVE  Known(worker, line', arrivals', joins')
  <2>1. line \in [User -> Nat] /\ line' \in [User -> Nat] BY <1>1
  <2>2. arrivals <= arrivals /\ \A v \in User : joins[v] <= joins[v] BY <1>1
  <2>3. Known(worker, line', arrivals, joins) BY <1>1, <1>9, <2>1, <2>2, KnownStays
  <2> QED BY <2>3
<1>10. ASSUME releaser' = releaser PROVE QueueInv'
  <2>1. WorkersInv' BY <1>9, <1>10, WorkersStay DEF QueueInv
  <2>2. \A r \in Releaser : Yet(releaser'[r]) <= Yet(releaser[r]) BY <1>10, SameYet DEF QueueInv
  <2>3. PassesBounded' BY <1>8, <2>1, <2>2, NoMorePasses DEF QueueInv
  <2> QED BY <1>4, <1>5, <1>6, <1>7, <2>1, <2>3 DEF QueueInv
<1> QED BY <1>4, <1>5, <1>6, <1>7, <1>8, <1>9, <1>10

(***************************************************************************)
(* The steps                                                               *)
(***************************************************************************)
\* Bounds, and the workers' passes among all.
LEMMA Bounds ==
  ASSUME StoreInv
  PROVE  Limit \in Nat /\ MaxStops \in Nat /\ stops \in Nat /\ Stored \in SUBSET Active
<1>1. Limit \in Nat /\ MaxStops \in Nat BY QueueAssumption
<1>2. Stored \in SUBSET Active BY DEF Stored, Active, NoPass
<1> QED BY <1>1, <1>2 DEF StoreInv

LEMMA JoinKeeps ==
  ASSUME QueueInv, NEW u \in User, Join(u)
  PROVE  QueueInv'
<1>1. /\ line \in [User -> 0..arrivals] /\ \A v, w \in Waiting : line[v] = line[w] => v = w
      /\ arrivals \in Nat /\ joins \in [User -> Nat] /\ joins[u] < MaxJoins[u]
      /\ \A v \in User : joins[v] <= MaxJoins[v]
  BY DEF Join, QueueInv, StoreInv
<1>2. /\ arrivals' = arrivals + 1 /\ line' = [line EXCEPT ![u] = arrivals + 1]
      /\ joins' = [joins EXCEPT ![u] = joins[u] + 1]
      /\ UNCHANGED <<pass, has, poll, releaser, request, stops>>
  BY DEF Join
<1>3. MaxJoins[u] \in Nat BY QueueAssumption
<1>4. line' \in [User -> 0..arrivals'] /\ arrivals' \in Nat /\ joins' \in [User -> Nat] BY <1>1, <1>2
<1>5. \A v \in User : joins'[v] <= MaxJoins[v] BY <1>1, <1>2, <1>3
<1>6. ASSUME NEW v \in Waiting', NEW w \in Waiting', line'[v] = line'[w] PROVE v = w
  <2>1. v \in User /\ w \in User /\ line'[v] # NoScore /\ line'[w] # NoScore BY <1>6 DEF Waiting
  <2>2. \A x1 \in User : line[x1] \in Nat /\ line[x1] <= arrivals BY <1>1
  <2>3. CASE v = u \/ w = u BY <1>1, <1>2, <1>6, <2>1, <2>2, <2>3
  <2>4. CASE v # u /\ w # u
    <3>1. line[v] = line[w] /\ v \in Waiting /\ w \in Waiting BY <1>1, <1>2, <1>6, <2>1, <2>4 DEF Waiting
    <3> QED BY <1>1, <3>1
  <2> QED BY <2>3, <2>4
<1>7. StoreInv' BY <1>2, <1>4, <1>5, <1>6 DEF QueueInv, StoreInv
<1>8. StrangersInv' BY <1>1, <1>2 DEF QueueInv, StrangersInv
<1>9. ASSUME NEW v \in User, joins[v] > 0, Near(v) PROVE Near(v)' /\ joins'[v] > 0
  <2>1. joins'[v] >= joins[v] /\ joins'[v] \in Nat /\ joins[v] \in Nat BY <1>1, <1>2
  <2>2. CASE v = u BY <1>1, <1>2, <1>9, <2>2 DEF Near
  <2>3. CASE v # u /\ joins[v] > 1 BY <2>1, <2>3 DEF Near
  <2>4. CASE v # u /\ v \notin Waiting
    <3>1. v \notin Waiting' BY <1>1, <1>2, <2>4 DEF Waiting
    <3> QED BY <1>9, <2>1, <3>1 DEF Near
  <2>5. CASE v # u /\ AtHead(v)
    <3>1. v \in Waiting /\ Ahead(v) = {} BY <2>5 DEF AtHead
    <3>2. line'[v] = line[v] /\ line[v] \in 1..arrivals /\ v \in Waiting'
      BY <1>1, <1>2, <2>5, <3>1 DEF Waiting, NoScore
    <3>3. ASSUME NEW w \in Waiting', line'[w] < line'[v] PROVE FALSE
      <4>1. w # u BY <1>1, <1>2, <3>2, <3>3
      <4>2. w \in User /\ line'[w] = line[w] BY <1>1, <1>2, <4>1 DEF Waiting
      <4>3. w \in Waiting BY <4>2 DEF Waiting
      <4> QED BY <3>1, <3>2, <3>3, <4>2, <4>3 DEF Ahead
    <3>4. AtHead(v)' BY <3>2, <3>3 DEF AtHead, Ahead
    <3> QED BY <1>9, <2>1, <3>4 DEF Near
  <2> QED BY <1>9, <2>2, <2>3, <2>4, <2>5 DEF Near
<1>10. PollsInv'
  <2> SUFFICES ASSUME NEW p \in Poll, poll[p] # Idle
               PROVE  joins'[poll[p].user] > 0 /\ Near(poll[p].user)'
    BY <1>2 DEF PollsInv, Near, AtHead, Ahead, Waiting
  <2>1. PICK v \in User : v = poll[p].user BY DEF QueueInv, StoreInv, Asking
  <2>2. joins[v] > 0 /\ Near(v) BY <2>1 DEF QueueInv, PollsInv
  <2>3. Near(v)' /\ joins'[v] > 0 BY <1>9, <2>2
  <2> QED BY <1>2, <2>1, <2>3 DEF Near, AtHead, Ahead, Waiting
<1>11. PassWithinReach'
  <2>1. ASSUME NEW v \in User, pass[v] # NoPass, Client \notin has[v] PROVE Near(v)'
    <3>1. Near(v) BY <2>1 DEF QueueInv, PassWithinReach, Near
    <3>2. joins[v] \in Nat /\ joins[v] # 0 BY <1>1, <2>1 DEF QueueInv, StrangersInv
    <3> QED BY <1>9, <3>1, <3>2
  <2> QED BY <1>2, <2>1 DEF PassWithinReach, Near
<1>12. ASSUME NEW worker \in Releasing, Known(worker, line, arrivals, joins)
       PROVE  Known(worker, line', arrivals', joins')
  <2>1. line \in [User -> Nat] /\ line' \in [User -> Nat] /\ arrivals <= arrivals' BY <1>1, <1>2, <1>4
  <2>2. \A v \in User : joins[v] <= joins'[v] BY <1>1, <1>2
  <2>3. \A v \in User : line'[v] = NoScore \/ line'[v] = line[v] \/ (line'[v] > arrivals /\ (joins[v] > 0 => joins'[v] > 1))
    BY <1>1, <1>2
  <2> QED BY <1>1, <1>4, <1>12, <2>1, <2>2, <2>3, KnownStays
<1>13. WorkersInv' BY <1>2, <1>12, WorkersStay DEF QueueInv
<1>14. Stored' \subseteq Stored BY <1>2 DEF Stored
<1>15. \A r \in Releaser : Yet(releaser'[r]) <= Yet(releaser[r]) BY <1>2, SameYet DEF QueueInv
<1>16. PassesBounded' BY <1>13, <1>14, <1>15, NoMorePasses DEF QueueInv
<1> QED BY <1>7, <1>8, <1>10, <1>11, <1>13, <1>16 DEF QueueInv

LEMMA LeaveKeeps ==
  ASSUME QueueInv, NEW u \in User, Leave(u)
  PROVE  QueueInv'
<1>1. /\ line' = [line EXCEPT ![u] = NoScore]
      /\ UNCHANGED <<arrivals, joins, pass, has, poll, releaser, request, stops>>
  BY DEF Leave
<1>2. line \in [User -> 0..arrivals] /\ arrivals \in Nat /\ stops \in 0..MaxStops BY DEF QueueInv, StoreInv
<1>3. \A v \in User : line'[v] = NoScore \/ line'[v] = line[v] BY <1>1, <1>2
<1>4. line' \in [User -> 0..arrivals] BY <1>1, <1>2 DEF NoScore
<1> QED BY <1>1, <1>2, <1>3, <1>4, SomeLeave

\* A user who would be given a pass on asking may lose sight of the stored one, or be
\* given another by the service; a pass may be deleted.
LEMMA OnePassMoves ==
  ASSUME QueueInv, NEW u \in User,
         UNCHANGED <<line, arrivals, joins, releaser>>,
         StoreInv', PollsInv',
         \A v \in User \ {u} : pass'[v] = pass[v] /\ has'[v] = has[v],
         pass'[u] = pass[u] \/ pass'[u] \in {"service", NoPass},
         pass'[u] # NoPass => joins[u] > 0,
         \/ pass'[u] = pass[u] /\ (Client \in has[u] => Client \in has'[u])
         \/ pass'[u] = NoPass
         \/ Near(u)
  PROVE  QueueInv'
<1>1. StrangersInv'
  <2>1. ASSUME NEW v \in User, joins[v] = 0 PROVE line[v] = NoScore /\ pass'[v] = NoPass
    BY <2>1 DEF QueueInv, StrangersInv
  <2> QED BY <2>1 DEF StrangersInv
<1>2. ASSUME NEW v \in User, pass'[v] # NoPass, Client \notin has'[v] PROVE Near(v)
  BY <1>2 DEF QueueInv, PassWithinReach, Near
<1>3. PassWithinReach' BY <1>2 DEF PassWithinReach, Near, AtHead, Ahead, Waiting
<1>4. Stored' \subseteq Stored
  <2> SUFFICES ASSUME NEW v \in User, pass'[v] = "worker" PROVE pass[v] = "worker"
    BY DEF Stored
  <2> QED BY DEF NoPass
<1> QED BY <1>1, <1>3, <1>4, QuietStep

LEMMA AskPositionKeeps ==
  ASSUME QueueInv, NEW p \in Poll, NEW u \in User, AskPosition(p, u)
  PROVE  QueueInv'
<1>1. /\ joins[u] > 0 /\ Near(u)
      /\ \E at \in {"head", "gone"} : poll' = [poll EXCEPT ![p] = [at |-> at, user |-> u]]
      /\ UNCHANGED <<line, arrivals, joins, pass, has, releaser, request, stops>>
  BY DEF AskPosition, Near
<1>2. PICK new \in Asking : poll' = [poll EXCEPT ![p] = new] /\ new.user = u
  <2>1. PICK at \in {"head", "gone"} : poll' = [poll EXCEPT ![p] = [at |-> at, user |-> u]] BY <1>1
  <2>2. [at |-> at, user |-> u] \in Asking /\ [at |-> at, user |-> u].user = u BY <2>1 DEF Asking
  <2> QED BY <2>1, <2>2
<1>3. StoreInv' BY <1>1, <1>2 DEF QueueInv, StoreInv, Waiting
<1>4. ASSUME NEW o \in Poll, poll'[o] # Idle PROVE joins[poll'[o].user] > 0 /\ Near(poll'[o].user)
  <2>1. CASE o = p BY <1>1, <1>2, <2>1 DEF QueueInv, StoreInv
  <2>2. CASE o # p BY <1>2, <1>4, <2>2 DEF QueueInv, StoreInv, PollsInv
  <2> QED BY <2>1, <2>2
<1>5. PollsInv' BY <1>1, <1>4 DEF PollsInv, Near, AtHead, Ahead, Waiting
<1>6. StrangersInv' /\ PassWithinReach'
  BY <1>1 DEF QueueInv, StrangersInv, PassWithinReach, AtHead, Ahead, Waiting
<1>7. Stored' \subseteq Stored BY <1>1 DEF Stored
<1> QED BY <1>1, <1>3, <1>5, <1>6, <1>7, QuietStep

\* A request goes on for the same user, or ends.
LEMMA PollsGoOn ==
  ASSUME QueueInv, NEW p \in Poll, poll[p] # Idle, UNCHANGED <<line, arrivals, joins>>,
         poll' = [poll EXCEPT ![p].at = "answer"] \/ poll' = [poll EXCEPT ![p] = Idle]
  PROVE  poll' \in [Poll -> Asking \union {Idle}] /\ PollsInv'
<1>1. poll \in [Poll -> Asking \union {Idle}] BY DEF QueueInv, StoreInv
<1>2. PICK old \in Asking : old = poll[p] BY <1>1
<1>3. PICK new : /\ new = Idle \/ (new \in Asking /\ new.user = old.user /\ new.at = "answer")
                 /\ poll' = [poll EXCEPT ![p] = new]
  <2>1. CASE poll' = [poll EXCEPT ![p] = Idle] BY <2>1
  <2>2. CASE poll' = [poll EXCEPT ![p].at = "answer"]
    <3>1. poll' = [poll EXCEPT ![p] = [old EXCEPT !.at = "answer"]] BY <1>1, <1>2, <2>2
    <3>2. [old EXCEPT !.at = "answer"] \in Asking /\ [old EXCEPT !.at = "answer"].user = old.user
          /\ [old EXCEPT !.at = "answer"].at = "answer"
      BY <1>2 DEF Asking
    <3> QED BY <3>1, <3>2
  <2> QED BY <2>1, <2>2
<1>4. poll' \in [Poll -> Asking \union {Idle}] BY <1>1, <1>3
<1>5. ASSUME NEW o \in Poll, poll'[o] # Idle PROVE joins[poll'[o].user] > 0 /\ Near(poll'[o].user)
  <2>1. poll[o] # Idle /\ poll'[o].user = poll[o].user BY <1>1, <1>2, <1>3, <1>5
  <2> QED BY <2>1 DEF QueueInv, PollsInv
<1>6. PollsInv' BY <1>5 DEF PollsInv, Near, AtHead, Ahead, Waiting
<1> QED BY <1>4, <1>6

LEMMA PollKeeps ==
  ASSUME QueueInv, NEW p \in Poll, FetchPass(p) \/ StoreAtHead(p) \/ Answered(p)
  PROVE  QueueInv'
<1>1. /\ poll[p].at \in {"head", "gone", "answer"}
      /\ UNCHANGED <<line, arrivals, joins, releaser, request, stops>>
      /\ poll' = [poll EXCEPT ![p].at = "answer"] \/ poll' = [poll EXCEPT ![p] = Idle]
  BY DEF FetchPass, StoreAtHead, Answered
<1>2. poll[p] # Idle
  <2>1. Idle.at = "idle" BY DEF Idle
  <2> QED BY <1>1, <2>1
<1>3. PICK u \in User : u = poll[p].user BY <1>2 DEF QueueInv, StoreInv, Asking
<1>4. joins[u] > 0 /\ Near(u) BY <1>2, <1>3 DEF QueueInv, PollsInv
<1>5. poll' \in [Poll -> Asking \union {Idle}] /\ PollsInv' BY <1>1, <1>2, PollsGoOn
<1>6. /\ pass \in [User -> {"service", "worker", NoPass}]
      /\ has \in [User -> SUBSET ({Client} \union Poll \union Releaser)]
      /\ \A v \in User : pass[v] = NoPass => has[v] = {}
  BY DEF QueueInv, StoreInv
<1>7. /\ pass' \in [User -> {"service", "worker", NoPass}]
      /\ has' \in [User -> SUBSET ({Client} \union Poll \union Releaser)]
      /\ pass'[u] = NoPass => has'[u] = {}
      /\ \A v \in User \ {u} : pass'[v] = pass[v] /\ has'[v] = has[v]
      /\ pass'[u] = pass[u] \/ pass'[u] = "service"
  <2>1. CASE FetchPass(p)
    <3>1. pass' = pass /\ (has' = has \/ (pass[u] # NoPass /\ has' = [has EXCEPT ![u] = has[u] \union {p}]))
      BY <1>3, <2>1 DEF FetchPass
    <3> QED BY <1>6, <3>1
  <2>2. CASE StoreAtHead(p)
    <3>1. \/ pass' = pass /\ has' = has
          \/ pass' = [pass EXCEPT ![u] = "service"] /\ \E who \in {{}, {p}} : has' = [has EXCEPT ![u] = who]
      BY <1>3, <2>2 DEF StoreAtHead, Store
    <3> QED BY <1>6, <3>1 DEF NoPass
  <2>3. CASE Answered(p)
    <3>1. pass' = pass /\ Deliver(u, p) BY <1>3, <2>3 DEF Answered
    <3>2. \E new \in SUBSET (has[u] \union {Client}) :
            has' = [has EXCEPT ![u] = new] /\ (has[u] = {} => new = {})
      BY <1>6, <3>1 DEF Deliver
    <3> QED BY <1>6, <3>1, <3>2
  <2> QED BY <2>1, <2>2, <2>3
<1>8. StoreInv' BY <1>1, <1>5, <1>6, <1>7 DEF QueueInv, StoreInv, Waiting
<1> QED BY <1>1, <1>4, <1>5, <1>7, <1>8, OnePassMoves

LEMMA PassDeleted ==
  ASSUME QueueInv, NEW u \in User, Store(u, NoPass, {}) \/ UNCHANGED <<pass, has>>,
         request' \in [Request -> User \union {Nobody}],
         UNCHANGED <<line, arrivals, joins, poll, releaser, stops>>
  PROVE  QueueInv'
<1>1. /\ pass \in [User -> {"service", "worker", NoPass}]
      /\ has \in [User -> SUBSET ({Client} \union Poll \union Releaser)]
      /\ \A v \in User : pass[v] = NoPass => has[v] = {}
  BY DEF QueueInv, StoreInv
<1>2. /\ pass' \in [User -> {"service", "worker", NoPass}]
      /\ has' \in [User -> SUBSET ({Client} \union Poll \union Releaser)]
      /\ \A v \in User : pass'[v] = NoPass => has'[v] = {}
      /\ \A v \in User \ {u} : pass'[v] = pass[v] /\ has'[v] = has[v]
      /\ pass'[u] = NoPass \/ (pass'[u] = pass[u] /\ has'[u] = has[u])
  BY <1>1 DEF Store
<1>3. StoreInv' BY <1>2 DEF QueueInv, StoreInv, Waiting
<1>4. PollsInv' BY DEF QueueInv, PollsInv, Near, AtHead, Ahead, Waiting
<1>5. pass'[u] # NoPass => joins[u] > 0
  <2>1. joins[u] \in Nat BY DEF QueueInv, StoreInv
  <2> QED BY <1>2, <2>1 DEF QueueInv, StrangersInv
<1> QED BY <1>2, <1>3, <1>4, <1>5, OnePassMoves

LEMMA ReservationsKeep ==
  ASSUME QueueInv, NEW q \in Request, DeletePass(q) \/ \E u \in User : Reserve(q, u)
  PROVE  QueueInv'
<1>1. request \in [Request -> User \union {Nobody}] BY DEF QueueInv, StoreInv
<1>2. request' \in [Request -> User \union {Nobody}] BY <1>1 DEF DeletePass, Reserve
<1>3. UNCHANGED <<line, arrivals, joins, poll, releaser, stops>> BY DEF DeletePass, Reserve
<1>4. CASE DeletePass(q)
  <2>1. PICK u : u = request[q] OBVIOUS
  <2>2. u \in User BY <1>1, <1>4, <2>1 DEF DeletePass
  <2>3. Store(u, NoPass, {}) \/ UNCHANGED <<pass, has>> BY <1>4, <2>1 DEF DeletePass
  <2> QED BY <1>2, <1>3, <2>2, <2>3, PassDeleted
<1>5. ASSUME NEW u \in User, Reserve(q, u) PROVE QueueInv'
  <2>1. UNCHANGED <<pass, has>> BY <1>5 DEF Reserve
  <2> QED BY <1>2, <1>3, <2>1, PassDeleted
<1> QED BY <1>4, <1>5

LEMMA PassExpiresKeeps ==
  ASSUME QueueInv, NEW u \in User, PassExpires(u)
  PROVE  QueueInv'
<1>1. Store(u, NoPass, {}) /\ UNCHANGED <<line, arrivals, joins, poll, releaser, request, stops>>
  BY DEF PassExpires
<1>2. request' \in [Request -> User \union {Nobody}] BY <1>1 DEF QueueInv, StoreInv
<1> QED BY <1>1, <1>2, PassDeleted

\* What holds of a worker that is doing something.
LEMMA AtWork ==
  ASSUME QueueInv, NEW r \in Releaser, releaser[r] # Idle
  PROVE  /\ Fits(releaser[r]) /\ Known(releaser[r], line, arrivals, joins)
         /\ releaser[r].room \in 0..Limit /\ releaser[r].batch \in SUBSET (User \X Nat)
         /\ releaser[r].at \in {"read", "take", "store", "publish"}
         /\ Cardinality(releaser[r].batch) \in Nat /\ IsFiniteSet(releaser[r].batch)
<1>1. Fits(releaser[r]) /\ Known(releaser[r], line, arrivals, joins) BY DEF QueueInv, WorkersInv
<1>2. PICK worker : worker = releaser[r] OBVIOUS
<1>3. worker \in Releasing /\ IsFiniteSet(worker.batch) BY <1>1, <1>2 DEF Fits
<1>4. Cardinality(worker.batch) \in Nat BY <1>3, FS_CardinalityType
<1>5. /\ worker.room \in 0..Limit /\ worker.batch \in SUBSET (User \X Nat)
      /\ worker.at \in {"read", "take", "store", "publish"}
  BY <1>3 DEF Releasing
<1> QED BY <1>1, <1>2, <1>3, <1>4, <1>5

\* A worker moves, nobody is taken, and no more of the workers' passes are stored.
LEMMA WorkerStep ==
  ASSUME QueueInv, NEW r \in Releaser, NEW new, releaser' = [releaser EXCEPT ![r] = new],
         new = Idle \/ (Fits(new) /\ Known(new, line, arrivals, joins)),
         Yet(new) <= Yet(releaser[r]),
         UNCHANGED <<line, arrivals, joins, pass>>,
         StoreInv', StrangersInv', PollsInv', PassWithinReach'
  PROVE  QueueInv'
<1>1. /\ WorkersInv' /\ releaser'[r] = new
      /\ \A s \in Releaser \ {r} : releaser'[s] = releaser[s]
  <2>1. \A worker \in Releasing : Known(worker, line, arrivals, joins)
                                    => Known(worker, line', arrivals', joins')
    OBVIOUS
  <2>2. new = Idle \/ (Fits(new) /\ Known(new, line', arrivals', joins')) OBVIOUS
  <2> QED BY <2>1, <2>2, WorkerMoves DEF QueueInv
<1>2. ASSUME NEW s \in Releaser PROVE Yet(releaser'[s]) <= Yet(releaser[s])
  <2>1. CASE s = r BY <1>1, <2>1
  <2>2. CASE s # r
    <3>1. releaser'[s] = releaser[s] BY <1>1, <2>2
    <3> QED BY <3>1, SameYet DEF QueueInv
  <2> QED BY <2>1, <2>2
<1>3. Stored' \subseteq Stored BY DEF Stored
<1>4. PassesBounded' BY <1>1, <1>2, <1>3, NoMorePasses DEF QueueInv
<1> QED BY <1>1, <1>4 DEF QueueInv

\* The invariants of what is stored, when only one user's pass and those who have it change.
LEMMA StoreMoves ==
  ASSUME QueueInv, NEW u \in User,
         UNCHANGED <<line, arrivals, joins, poll, request>>, stops' \in 0..MaxStops,
         pass' \in [User -> {"service", "worker", NoPass}],
         has' \in [User -> SUBSET ({Client} \union Poll \union Releaser)],
         \A v \in User : pass'[v] = NoPass => has'[v] = {},
         \A v \in User \ {u} : pass'[v] = pass[v] /\ (Client \in has[v] => Client \in has'[v]),
         \/ joins[u] > 0 /\ Near(u)
         \/ pass'[u] = pass[u] /\ (Client \in has[u] => Client \in has'[u])
  PROVE  StoreInv' /\ StrangersInv' /\ PollsInv' /\ PassWithinReach'
<1>1. StoreInv' BY DEF QueueInv, StoreInv, Waiting
<1>2. ASSUME NEW v \in User, joins[v] = 0 PROVE line[v] = NoScore /\ pass'[v] = NoPass
  BY <1>2 DEF QueueInv, StrangersInv
<1>3. StrangersInv' BY <1>2 DEF StrangersInv
<1>4. PollsInv' BY DEF QueueInv, PollsInv, Near, AtHead, Ahead, Waiting
<1>5. ASSUME NEW v \in User, pass'[v] # NoPass, Client \notin has'[v] PROVE Near(v)
  BY <1>5 DEF QueueInv, PassWithinReach, Near
<1>6. PassWithinReach' BY <1>5 DEF PassWithinReach, Near, AtHead, Ahead, Waiting
<1> QED BY <1>1, <1>3, <1>4, <1>6

LEMMA CountKeeps ==
  ASSUME QueueInv, NEW r \in Releaser, Count(r)
  PROVE  QueueInv'
<1>1. PICK n : n = Cardinality(Active) OBVIOUS
<1>2. n \in Nat /\ n < Limit /\ Limit \in Nat BY <1>1, StoredFinite, QueueAssumption DEF Count
<1>3. PICK new : new = [at |-> "read", room |-> Limit - n, batch |-> {}] OBVIOUS
<1>4. /\ releaser' = [releaser EXCEPT ![r] = new]
      /\ UNCHANGED <<line, arrivals, joins, pass, has, poll, request, stops>>
  BY <1>1, <1>3 DEF Count
<1>5. new.at = "read" /\ new.room = Limit - n /\ new.batch = {} BY <1>3
<1>6. new \in Releasing
  <2>1. Limit - n \in 0..Limit BY <1>2
  <2> QED BY <1>3, <2>1 DEF Releasing
<1>7. Fits(new)
  <2>1. IsFiniteSet({}) /\ Cardinality({}) = 0 BY FS_EmptySet
  <2>2. Cardinality(new.batch) <= new.room BY <1>2, <1>5, <2>1
  <2> QED BY <1>5, <1>6, <2>1, <2>2 DEF Fits
<1>8. Known(new, line', arrivals', joins') BY <1>4, <1>5 DEF Known
<1>9. /\ WorkersInv' /\ releaser'[r] = new
      /\ \A s \in Releaser \ {r} : releaser'[s] = releaser[s]
  <2>1. \A worker \in Releasing : Known(worker, line, arrivals, joins)
                                    => Known(worker, line', arrivals', joins')
    BY <1>4
  <2> QED BY <1>4, <1>7, <1>8, <2>1, WorkerMoves DEF QueueInv
<1>10. Yet(new) = Limit - n
  <2>1. new # Idle BY <1>3 DEF Idle
  <2> QED BY <1>5, <2>1 DEF Yet
<1>11. Stored' \subseteq Active
  <2>1. Stored' = Stored BY <1>4 DEF Stored
  <2> QED BY <2>1, Bounds DEF QueueInv
<1>12. Yet(releaser'[r]) = Limit - Cardinality(Active) BY <1>1, <1>9, <1>10
<1>13. PassesBounded' BY <1>9, <1>11, <1>12, RoomCounted
<1>14. StoreInv' BY <1>4 DEF QueueInv, StoreInv, Waiting
<1>15. StrangersInv' /\ PollsInv' /\ PassWithinReach'
  BY <1>4 DEF QueueInv, StrangersInv, PollsInv, Near, PassWithinReach, AtHead, Ahead, Waiting
<1> QED BY <1>9, <1>13, <1>14, <1>15 DEF QueueInv

\* The invariants that a worker's own steps leave alone.
LEMMA StoreStays ==
  ASSUME QueueInv, UNCHANGED <<line, arrivals, joins, pass, has, poll, request>>, stops' \in 0..MaxStops
  PROVE  StoreInv' /\ StrangersInv' /\ PollsInv' /\ PassWithinReach'
<1>1. StoreInv' BY DEF QueueInv, StoreInv, Waiting
<1>2. StrangersInv' /\ PollsInv' BY DEF QueueInv, StrangersInv, PollsInv, Near, AtHead, Ahead, Waiting
<1>3. PassWithinReach' BY DEF QueueInv, PassWithinReach, AtHead, Ahead, Waiting
<1> QED BY <1>1, <1>2, <1>3

\* An idle worker has nothing to store, a working one no less.
LEMMA YetIdle ==
  ASSUME QueueInv, NEW r \in Releaser
  PROVE  Yet(Idle) <= Yet(releaser[r])
<1>1. Yet(Idle) = 0 BY DEF Yet
<1>2. Yet(releaser[r]) \in Nat BY SameYet DEF QueueInv
<1> QED BY <1>1, <1>2

LEMMA ReadHeadKeeps ==
  ASSUME QueueInv, NEW r \in Releaser, releaser[r] # Idle, ReadHead(r)
  PROVE  QueueInv'
<1>1. PICK old : old = releaser[r] OBVIOUS
<1>2. PICK head : head = HeadOfLine(old.room) OBVIOUS
<1>3. PICK new : new = IF head = {} THEN Idle ELSE [old EXCEPT !.at = "take", !.batch = head] OBVIOUS
<1>4. /\ old.at = "read" /\ releaser' = [releaser EXCEPT ![r] = new]
      /\ UNCHANGED <<line, arrivals, joins, pass, has, poll, request, stops>>
  BY <1>1, <1>2, <1>3 DEF ReadHead, QueueInv, WorkersInv
<1>5. StoreInv' /\ StrangersInv' /\ PollsInv' /\ PassWithinReach' BY <1>4, StoreStays DEF QueueInv, StoreInv
<1>6. CASE head = {}
  <2>1. new = Idle BY <1>3, <1>6
  <2>2. Yet(new) <= Yet(releaser[r]) BY <2>1, YetIdle
  <2> QED BY <1>4, <1>5, <2>1, <2>2, WorkerStep
<1>7. CASE head # {}
  <2>1. /\ old \in Releasing /\ Known(old, line, arrivals, joins) /\ old # Idle
        /\ old.room \in 0..Limit
    BY <1>1, AtWork DEF Fits
  <2>2. old.room \in Nat BY <2>1, QueueAssumption
  <2>3. /\ head \in SUBSET (User \X Nat)
        /\ \A b \in head : b[1] \in Waiting /\ b[2] = line[b[1]] /\ b[2] \in 1..arrivals
        /\ \A b \in head, u \in User : line[u] # NoScore /\ line[u] < b[2] => \E c \in head : c[1] = u
        /\ IsFiniteSet(head) /\ Cardinality(head) <= old.room
    BY <1>2, <2>2, HeadFits DEF QueueInv
  <2>4. new = [old EXCEPT !.at = "take", !.batch = head] BY <1>3, <1>7
  <2>5. new.at = "take" /\ new.batch = head /\ new.room = old.room
    BY <2>1, <2>4 DEF Releasing
  <2>6. new \in Releasing BY <2>1, <2>3, <2>4 DEF Releasing
  <2>7. Fits(new) BY <1>7, <2>3, <2>5, <2>6 DEF Fits
  <2>8. Known(new, line, arrivals, joins)
    <3>1. ASSUME NEW b \in head PROVE joins[b[1]] > 0
      <4>1. b[1] \in User /\ line[b[1]] # NoScore BY <2>3 DEF Waiting
      <4>2. joins[b[1]] \in Nat /\ joins[b[1]] # 0 BY <4>1 DEF QueueInv, StoreInv, StrangersInv
      <4> QED BY <4>2
    <3> QED BY <2>3, <2>5, <3>1 DEF Known
  <2>9. Yet(new) <= Yet(releaser[r])
    <3>1. Yet(old) = old.room BY <1>4, <2>1 DEF Yet
    <3>2. new # Idle BY <2>5 DEF Idle
    <3>3. Yet(new) = Cardinality(head) - 0 BY <2>5, <3>2 DEF Yet
    <3>4. Cardinality(head) \in Nat BY <2>3, FS_CardinalityType
    <3> QED BY <1>1, <2>3, <3>1, <3>3, <3>4
  <2> QED BY <1>4, <1>5, <2>7, <2>8, <2>9, WorkerStep
<1> QED BY <1>6, <1>7

\* Whoever is in a worker's batch leaves the line, whether or not the worker hears of it.
LEMMA TakenLeave ==
  ASSUME QueueInv, NEW r \in Releaser, TakenFromLine(r), stops' \in 0..MaxStops,
         UNCHANGED <<arrivals, joins, pass, has, poll, request>>
  PROVE  /\ StoreInv' /\ StrangersInv' /\ PollsInv' /\ PassWithinReach' /\ Stored' \subseteq Stored
         /\ \A worker \in Releasing : Known(worker, line, arrivals, joins)
                                       => Known(worker, line', arrivals', joins')
<1>1. line' = [u \in User |-> IF u \in BatchOf(r) THEN NoScore ELSE line[u]] BY DEF TakenFromLine
<1>2. line \in [User -> 0..arrivals] /\ arrivals \in Nat BY DEF QueueInv, StoreInv
<1>3. line' \in [User -> 0..arrivals] BY <1>1, <1>2 DEF NoScore
<1>4. \A u \in User : line'[u] = NoScore \/ line'[u] = line[u] BY <1>1
<1> QED BY <1>3, <1>4, SomeLeave

\* A worker moves while users leave the line, and has no more to store than before.
LEMMA TakingStep ==
  ASSUME QueueInv, NEW r \in Releaser, NEW new, releaser' = [releaser EXCEPT ![r] = new],
         new = Idle \/ (Fits(new) /\ Known(new, line', arrivals', joins')),
         Yet(new) <= Yet(releaser[r]),
         StoreInv', StrangersInv', PollsInv', PassWithinReach', Stored' \subseteq Stored,
         \A worker \in Releasing : Known(worker, line, arrivals, joins)
                                    => Known(worker, line', arrivals', joins')
  PROVE  QueueInv'
<1>1. /\ WorkersInv' /\ releaser'[r] = new
      /\ \A s \in Releaser \ {r} : releaser'[s] = releaser[s]
  BY WorkerMoves DEF QueueInv
<1>2. ASSUME NEW s \in Releaser PROVE Yet(releaser'[s]) <= Yet(releaser[s])
  <2>1. CASE s = r BY <1>1, <2>1
  <2>2. CASE s # r
    <3>1. releaser'[s] = releaser[s] BY <1>1, <2>2
    <3> QED BY <3>1, SameYet DEF QueueInv
  <2> QED BY <2>1, <2>2
<1>3. PassesBounded' BY <1>1, <1>2, NoMorePasses DEF QueueInv
<1> QED BY <1>1, <1>3 DEF QueueInv

LEMMA TakeBatchKeeps ==
  ASSUME QueueInv, NEW r \in Releaser, releaser[r] # Idle, TakeBatch(r)
  PROVE  QueueInv'
<1>1. PICK old : old = releaser[r] OBVIOUS
<1>2. PICK new : new = [old EXCEPT !.at = "store"] OBVIOUS
<1>3. /\ TakenFromLine(r) /\ old.at = "take" /\ releaser' = [releaser EXCEPT ![r] = new]
      /\ UNCHANGED <<arrivals, joins, pass, has, poll, request, stops>>
  BY <1>1, <1>2 DEF TakeBatch, TakenFromLine, QueueInv, WorkersInv
<1>4. /\ old \in Releasing /\ Fits(old) /\ Known(old, line, arrivals, joins) /\ old # Idle
      /\ old.batch \in SUBSET (User \X Nat)
  BY <1>1, AtWork DEF Fits
<1>5. stops' \in 0..MaxStops BY <1>3 DEF QueueInv, StoreInv
<1>6. /\ StoreInv' /\ StrangersInv' /\ PollsInv' /\ PassWithinReach' /\ Stored' \subseteq Stored
      /\ \A worker \in Releasing : Known(worker, line, arrivals, joins)
                                    => Known(worker, line', arrivals', joins')
  BY <1>3, <1>5, TakenLeave
<1>7. new.at = "store" /\ new.batch = old.batch /\ new.room = old.room BY <1>2, <1>4 DEF Releasing
<1>8. new \in Releasing BY <1>2, <1>4 DEF Releasing
<1>9. Fits(new)
  <2>1. old.batch # {} BY <1>3, <1>4 DEF Fits
  <2> QED BY <1>4, <1>7, <1>8, <2>1 DEF Fits
<1>10. Known(new, line', arrivals', joins')
  <2>1. \A b \in old.batch : b[1] \in User /\ b[1] \in BatchOf(r) BY <1>1, <1>4 DEF BatchOf
  <2>2. \A b \in old.batch : line'[b[1]] = NoScore BY <1>3, <2>1 DEF TakenFromLine
  <2>3. Known(old, line', arrivals', joins') BY <1>4, <1>6
  <2> QED BY <1>7, <2>2, <2>3 DEF Known
<1>11. Yet(new) <= Yet(releaser[r])
  <2>1. new # Idle BY <1>7 DEF Idle
  <2>2. Yet(new) = Yet(old) BY <1>3, <1>4, <1>7, <2>1 DEF Yet
  <2> QED BY <1>1, <2>2, SameYet DEF QueueInv
<1> QED BY <1>3, <1>6, <1>9, <1>10, <1>11, TakingStep

\* One whom a worker took and stores a pass for.
LEMMA TakenNear ==
  ASSUME QueueInv, NEW r \in Releaser, releaser[r] # Idle, releaser[r].at \in {"store", "publish"},
         NEW b \in releaser[r].batch
  PROVE  b[1] \in User /\ joins[b[1]] > 0 /\ Near(b[1])
<1>1. Known(releaser[r], line, arrivals, joins) /\ releaser[r].batch \in SUBSET (User \X Nat) BY AtWork
<1>2. b[1] \in User BY <1>1
<1>3. joins[b[1]] > 0 /\ (line[b[1]] # NoScore => joins[b[1]] > 1) BY <1>1 DEF Known
<1> QED BY <1>2, <1>3 DEF Near, Waiting

\* A worker that stores a pass, and goes on to publish it or to the next of its batch.
LEMMA StoringStep ==
  ASSUME QueueInv, NEW r \in Releaser, releaser[r] # Idle, releaser[r].at = "store",
         NEW b \in releaser[r].batch, NEW who \in SUBSET {r}, Store(b[1], "worker", who),
         NEW new, releaser' = [releaser EXCEPT ![r] = new],
         new = Idle \/ (Fits(new) /\ Known(new, line, arrivals, joins)),
         Yet(new) = Yet(releaser[r]) - 1,
         UNCHANGED <<line, arrivals, joins, poll, request>>, stops' \in 0..MaxStops
  PROVE  QueueInv'
<1>1. PICK u \in User : u = b[1] /\ joins[u] > 0 /\ Near(u) BY TakenNear
<1>2. pass' = [pass EXCEPT ![u] = "worker"] /\ has' = [has EXCEPT ![u] = who] BY <1>1 DEF Store
<1>3. /\ pass \in [User -> {"service", "worker", NoPass}]
      /\ has \in [User -> SUBSET ({Client} \union Poll \union Releaser)]
      /\ \A v \in User : pass[v] = NoPass => has[v] = {}
  BY DEF QueueInv, StoreInv
<1>4. /\ pass' \in [User -> {"service", "worker", NoPass}]
      /\ has' \in [User -> SUBSET ({Client} \union Poll \union Releaser)]
      /\ \A v \in User : pass'[v] = NoPass => has'[v] = {}
      /\ \A v \in User \ {u} : pass'[v] = pass[v] /\ has'[v] = has[v]
  BY <1>2, <1>3 DEF NoPass
<1>5. StoreInv' /\ StrangersInv' /\ PollsInv' /\ PassWithinReach' BY <1>1, <1>4, StoreMoves
<1>6. /\ WorkersInv' /\ releaser'[r] = new
      /\ \A s \in Releaser \ {r} : releaser'[s] = releaser[s]
  <2>1. \A worker \in Releasing : Known(worker, line, arrivals, joins)
                                    => Known(worker, line', arrivals', joins')
    OBVIOUS
  <2>2. new = Idle \/ (Fits(new) /\ Known(new, line', arrivals', joins')) OBVIOUS
  <2> QED BY <2>1, <2>2, WorkerMoves DEF QueueInv
<1>7. Stored' \subseteq Stored \union {u} BY <1>4 DEF Stored
<1>8. Yet(releaser'[r]) = Yet(releaser[r]) - 1 BY <1>6
<1>9. PassesBounded' BY <1>6, <1>7, <1>8, OnePassMore DEF QueueInv
<1> QED BY <1>5, <1>6, <1>9 DEF QueueInv

LEMMA StorePassKeeps ==
  ASSUME QueueInv, NEW r \in Releaser, releaser[r] # Idle, StorePass(r)
  PROVE  QueueInv'
<1>1. PICK old : old = releaser[r] OBVIOUS
<1>2. PICK new : new = [old EXCEPT !.at = "publish"] OBVIOUS
<1>3. PICK b \in releaser[r].batch : Store(b[1], "worker", {r}) BY DEF StorePass
<1>4. /\ old.at = "store" /\ releaser' = [releaser EXCEPT ![r] = new]
      /\ UNCHANGED <<line, arrivals, joins, poll, request, stops>>
  BY <1>1, <1>2 DEF StorePass, QueueInv, WorkersInv
<1>5. /\ old \in Releasing /\ Fits(old) /\ Known(old, line, arrivals, joins) /\ old # Idle
      /\ Cardinality(old.batch) \in Nat
  BY <1>1, AtWork DEF Fits
<1>6. new \in Releasing /\ new.at = "publish" /\ new.batch = old.batch /\ new.room = old.room
  BY <1>2, <1>5 DEF Releasing
<1>7. Fits(new) BY <1>1, <1>3, <1>5, <1>6 DEF Fits
<1>8. Known(new, line, arrivals, joins) BY <1>4, <1>5, <1>6 DEF Known
<1>9. Yet(new) = Yet(releaser[r]) - 1
  <2>1. new # Idle BY <1>6 DEF Idle
  <2>2. Yet(new) = Cardinality(old.batch) - 1 BY <1>6, <2>1 DEF Yet
  <2>3. Yet(old) = Cardinality(old.batch) - 0 BY <1>4, <1>5 DEF Yet
  <2> QED BY <1>1, <1>5, <2>2, <2>3
<1>10. stops' \in 0..MaxStops BY <1>4 DEF QueueInv, StoreInv
<1>11. {r} \in SUBSET {r} /\ releaser[r].at = "store" BY <1>1, <1>4
<1> QED BY <1>3, <1>4, <1>7, <1>8, <1>9, <1>10, <1>11, StoringStep

\* After one of its batch a worker has one less to work through.
LEMMA NextFits ==
  ASSUME QueueInv, NEW r \in Releaser, releaser[r] # Idle, releaser[r].at \in {"store", "publish"},
         NEW b \in releaser[r].batch, NextOfBatch(r, b)
  PROVE  \E new : /\ releaser' = [releaser EXCEPT ![r] = new]
                  /\ new = Idle \/ (Fits(new) /\ Known(new, line, arrivals, joins))
                  /\ Yet(new) = Yet(releaser[r]) - (IF releaser[r].at = "store" THEN 1 ELSE 0)
<1>1. PICK old : old = releaser[r] OBVIOUS
<1>2. PICK rest : rest = old.batch \ {b} OBVIOUS
<1>3. PICK new : new = IF rest = {} THEN Idle ELSE [old EXCEPT !.at = "store", !.batch = rest] OBVIOUS
<1>4. releaser' = [releaser EXCEPT ![r] = new] BY <1>1, <1>2, <1>3 DEF NextOfBatch, QueueInv, WorkersInv
<1>5. /\ old \in Releasing /\ Fits(old) /\ Known(old, line, arrivals, joins) /\ old # Idle
      /\ old.room \in 0..Limit /\ old.batch \in SUBSET (User \X Nat) /\ IsFiniteSet(old.batch)
      /\ Cardinality(old.batch) \in Nat /\ old.at \in {"store", "publish"}
  BY <1>1, AtWork DEF Fits
<1>6. IsFiniteSet(rest) /\ Cardinality(rest) = Cardinality(old.batch) - 1
  BY <1>1, <1>2, <1>5, FS_RemoveElement
<1>7. Yet(old) = Cardinality(rest) + (IF old.at = "store" THEN 1 ELSE 0)
  <2>1. CASE old.at = "store"
    <3>1. Yet(old) = Cardinality(old.batch) - 0 BY <1>5, <2>1 DEF Yet
    <3> QED BY <1>5, <1>6, <2>1, <3>1
  <2>2. CASE old.at = "publish"
    <3>1. Yet(old) = Cardinality(old.batch) - 1 BY <1>5, <2>2 DEF Yet
    <3> QED BY <1>5, <1>6, <2>2, <3>1
  <2> QED BY <1>5, <2>1, <2>2
<1>8. CASE rest = {}
  <2>1. new = Idle BY <1>3, <1>8
  <2>2. Yet(new) = 0 BY <2>1 DEF Yet
  <2>3. Cardinality(rest) = 0 BY <1>8, FS_EmptySet
  <2>4. Yet(new) = Yet(releaser[r]) - (IF releaser[r].at = "store" THEN 1 ELSE 0) BY <1>1, <1>7, <2>2, <2>3
  <2> QED BY <1>4, <2>1, <2>4
<1>9. CASE rest # {}
  <2>1. new = [old EXCEPT !.at = "store", !.batch = rest] BY <1>3, <1>9
  <2>2. new.at = "store" /\ new.batch = rest /\ new.room = old.room BY <1>5, <2>1 DEF Releasing
  <2>3. new \in Releasing
    <3>1. rest \in SUBSET (User \X Nat) BY <1>2, <1>5
    <3>2. new = [at |-> "store", room |-> old.room, batch |-> rest] BY <1>5, <2>1 DEF Releasing
    <3> QED BY <1>5, <3>1, <3>2 DEF Releasing
  <2>4. Fits(new)
    <3>1. Cardinality(old.batch) <= old.room /\ old.room \in Nat BY <1>5, QueueAssumption DEF Fits
    <3>2. Cardinality(new.batch) <= new.room BY <1>5, <1>6, <2>2, <3>1
    <3> QED BY <1>6, <1>9, <2>2, <2>3, <3>2 DEF Fits
  <2>5. Known(new, line, arrivals, joins)
    <3>1. \A c \in rest : c \in old.batch BY <1>2
    <3>2. \A c \in old.batch : line[c[1]] # NoScore => joins[c[1]] > 1 BY <1>5 DEF Known
    <3>3. \A c \in old.batch : c[2] \in 1..arrivals /\ joins[c[1]] > 0 BY <1>5 DEF Known
    <3> QED BY <2>2, <3>1, <3>2, <3>3 DEF Known
  <2>6. Yet(new) = Yet(releaser[r]) - (IF releaser[r].at = "store" THEN 1 ELSE 0)
    <3>1. new # Idle BY <2>2 DEF Idle
    <3>2. Yet(new) = Cardinality(rest) - 0 BY <2>2, <3>1 DEF Yet
    <3>3. Cardinality(rest) \in Nat BY <1>6, FS_CardinalityType
    <3> QED BY <1>1, <1>7, <3>2, <3>3
  <2> QED BY <1>4, <2>4, <2>5, <2>6
<1> QED BY <1>8, <1>9

LEMMA PublishPassKeeps ==
  ASSUME QueueInv, NEW r \in Releaser, releaser[r] # Idle, PublishPass(r)
  PROVE  QueueInv'
<1>1. PICK b \in releaser[r].batch : Deliver(b[1], r) /\ NextOfBatch(r, b) BY DEF PublishPass
<1>2. /\ releaser[r].at = "publish"
      /\ UNCHANGED <<line, arrivals, joins, pass, poll, request, stops>>
  BY DEF PublishPass
<1>3. PICK new : /\ releaser' = [releaser EXCEPT ![r] = new]
                 /\ new = Idle \/ (Fits(new) /\ Known(new, line, arrivals, joins))
                 /\ Yet(new) = Yet(releaser[r]) - (IF releaser[r].at = "store" THEN 1 ELSE 0)
  BY <1>1, <1>2, NextFits
<1>4. Yet(new) <= Yet(releaser[r])
  <2>1. Yet(new) = Yet(releaser[r]) - 0 BY <1>2, <1>3
  <2> QED BY <2>1, SameYet DEF QueueInv
<1>5. PICK u \in User : u = b[1] /\ joins[u] > 0 /\ Near(u) BY <1>1, <1>2, TakenNear
<1>6. /\ has \in [User -> SUBSET ({Client} \union Poll \union Releaser)]
      /\ pass \in [User -> {"service", "worker", NoPass}]
      /\ \A v \in User : pass[v] = NoPass => has[v] = {}
  BY DEF QueueInv, StoreInv
<1>7. \E some \in SUBSET (has[u] \union {Client}) :
        has' = [has EXCEPT ![u] = some] /\ (has[u] = {} => some = {})
  BY <1>1, <1>5, <1>6 DEF Deliver
<1>8. /\ has' \in [User -> SUBSET ({Client} \union Poll \union Releaser)]
      /\ \A v \in User : pass[v] = NoPass => has'[v] = {}
      /\ \A v \in User \ {u} : has'[v] = has[v]
  BY <1>6, <1>7
<1>9. stops' \in 0..MaxStops BY <1>2 DEF QueueInv, StoreInv
<1>10. StoreInv' /\ StrangersInv' /\ PollsInv' /\ PassWithinReach'
  BY <1>2, <1>5, <1>6, <1>8, <1>9, StoreMoves
<1> QED BY <1>2, <1>3, <1>4, <1>10, WorkerStep

LEMMA FailuresKeep ==
  ASSUME QueueInv, NEW r \in Releaser, releaser[r] # Idle, TakingFails(r) \/ StoringFails(r) \/ WorkerStops(r)
  PROVE  QueueInv'
<1>1. /\ stops < MaxStops /\ stops' = stops + 1
      /\ UNCHANGED <<arrivals, joins, poll, request>>
  BY DEF TakingFails, StoringFails, WorkerStops, Fails
<1>2. stops' \in 0..MaxStops
  <2>1. stops \in Nat /\ MaxStops \in Nat BY Bounds DEF QueueInv
  <2> QED BY <1>1, <2>1
<1>3. Yet(Idle) <= Yet(releaser[r]) BY YetIdle
<1>4. CASE TakingFails(r)
  <2>1. releaser' = [releaser EXCEPT ![r] = Idle] /\ UNCHANGED <<pass, has>> /\ (UNCHANGED line \/ TakenFromLine(r))
    BY <1>4 DEF TakingFails
  <2>2. CASE UNCHANGED line
    <3>1. StoreInv' /\ StrangersInv' /\ PollsInv' /\ PassWithinReach' BY <1>1, <1>2, <2>1, <2>2, StoreStays
    <3> QED BY <1>1, <1>3, <2>1, <2>2, <3>1, WorkerStep
  <2>3. CASE TakenFromLine(r)
    <3>1. /\ StoreInv' /\ StrangersInv' /\ PollsInv' /\ PassWithinReach' /\ Stored' \subseteq Stored
          /\ \A worker \in Releasing : Known(worker, line, arrivals, joins)
                                        => Known(worker, line', arrivals', joins')
      BY <1>1, <1>2, <2>1, <2>3, TakenLeave
    <3> QED BY <1>3, <2>1, <3>1, TakingStep
  <2> QED BY <2>1, <2>2, <2>3
<1>5. CASE StoringFails(r)
  <2>1. PICK b \in releaser[r].batch :
          NextOfBatch(r, b) /\ (UNCHANGED <<pass, has>> \/ Store(b[1], "worker", {}))
    BY <1>5 DEF StoringFails
  <2>2. releaser[r].at = "store" /\ UNCHANGED line BY <1>5 DEF StoringFails
  <2>3. PICK new : /\ releaser' = [releaser EXCEPT ![r] = new]
                   /\ new = Idle \/ (Fits(new) /\ Known(new, line, arrivals, joins))
                   /\ Yet(new) = Yet(releaser[r]) - (IF releaser[r].at = "store" THEN 1 ELSE 0)
    BY <2>1, <2>2, NextFits
  <2>4. Yet(new) = Yet(releaser[r]) - 1 BY <2>2, <2>3
  <2>5. CASE UNCHANGED <<pass, has>>
    <3>1. StoreInv' /\ StrangersInv' /\ PollsInv' /\ PassWithinReach' BY <1>1, <1>2, <2>2, <2>5, StoreStays
    <3>2. Yet(releaser[r]) \in Nat BY SameYet DEF QueueInv
    <3>3. Yet(new) <= Yet(releaser[r]) BY <2>4, <3>2
    <3> QED BY <1>1, <2>2, <2>3, <2>5, <3>1, <3>3, WorkerStep
  <2>6. CASE Store(b[1], "worker", {})
    <3>1. {} \in SUBSET {r} OBVIOUS
    <3> QED BY <1>1, <1>2, <2>1, <2>2, <2>3, <2>4, <2>6, <3>1, StoringStep
  <2> QED BY <2>1, <2>5, <2>6
<1>6. CASE WorkerStops(r)
  <2>1. /\ releaser' = [releaser EXCEPT ![r] = Idle] /\ UNCHANGED <<line, pass>>
        /\ has' = [u \in User |-> has[u] \ {r}]
    BY <1>6 DEF WorkerStops
  <2>2. StoreInv'
    <3>1. has' \in [User -> SUBSET ({Client} \union Poll \union Releaser)] BY <2>1 DEF QueueInv, StoreInv
    <3>2. \A u \in User : pass[u] = NoPass => has'[u] = {} BY <2>1 DEF QueueInv, StoreInv
    <3> QED BY <1>1, <1>2, <2>1, <3>1, <3>2 DEF QueueInv, StoreInv, Waiting
  <2>3. StrangersInv' /\ PollsInv'
    BY <1>1, <2>1 DEF QueueInv, StrangersInv, PollsInv, Near, AtHead, Ahead, Waiting
  <2>4. PassWithinReach'
    <3>1. \A u \in User : Client \in has[u] => Client \in has'[u] BY <2>1, QueueAssumption
    <3> QED BY <1>1, <2>1, <3>1 DEF QueueInv, PassWithinReach, AtHead, Ahead, Waiting
  <2> QED BY <1>1, <1>3, <2>1, <2>2, <2>3, <2>4, WorkerStep
<1> QED BY <1>4, <1>5, <1>6

(***************************************************************************)
(* The queue's theorems                                                    *)
(***************************************************************************)
LEMMA QueueBegins ==
  ASSUME QueueInit
  PROVE  QueueInv
<1>1. MaxStops \in Nat /\ Limit \in Nat /\ \A u \in User : MaxJoins[u] \in Nat
  BY QueueAssumption
<1>2. Waiting = {} BY DEF QueueInit, Waiting
<1>3. StoreInv BY <1>1, <1>2 DEF QueueInit, StoreInv, NoScore, NoPass
<1>4. StrangersInv /\ PollsInv BY DEF QueueInit, StrangersInv, PollsInv
<1>5. WorkersInv BY DEF QueueInit, WorkersInv
<1>6. PassWithinReach BY DEF QueueInit, PassWithinReach
<1>7. PassesBounded
  <2>1. Stored = {} BY DEF QueueInit, Stored, NoPass
  <2>2. ToStore = {}
    <3>1. \A r \in Releaser : Yet(releaser[r]) = 0 BY DEF QueueInit, Yet
    <3>2. \A i \in 1..0 : FALSE OBVIOUS
    <3> QED BY <3>1, <3>2 DEF ToStore
  <2>3. Cardinality(Stored) = 0 /\ Cardinality(ToStore) = 0 BY <2>1, <2>2, FS_EmptySet
  <2>4. Cardinality(Releaser) \in Nat BY QueueAssumption, FS_CardinalityType
  <2>5. 0 + 0 <= Cardinality(Releaser) * Limit BY <1>1, <2>4
  <2> QED BY <2>3, <2>5 DEF PassesBounded
<1> QED BY <1>3, <1>4, <1>5, <1>6, <1>7 DEF QueueInv

\* An idle worker is at none of the places where the others are.
LEMMA NotIdle ==
  ASSUME NEW r \in Releaser,
         \/ ReadHead(r) \/ TakeBatch(r) \/ StorePass(r) \/ PublishPass(r)
         \/ TakingFails(r) \/ StoringFails(r) \/ WorkerStops(r)
  PROVE  releaser[r] # Idle
<1>1. Idle.at = "idle" BY DEF Idle
<1>2. releaser[r] # Idle \/ releaser[r].at \in {"read", "take", "store", "publish"}
  BY DEF ReadHead, TakeBatch, TakenFromLine, StorePass, PublishPass, TakingFails, StoringFails, WorkerStops
<1> QED BY <1>1, <1>2

LEMMA QueueKeeps ==
  ASSUME QueueInv, [QueueNext]_queueVars
  PROVE  QueueInv'
<1>1. ASSUME NEW u \in User, Join(u) \/ Leave(u) \/ PassExpires(u) PROVE QueueInv'
  BY <1>1, JoinKeeps, LeaveKeeps, PassExpiresKeeps
<1>2. ASSUME NEW p \in Poll,
             FetchPass(p) \/ StoreAtHead(p) \/ Answered(p) \/ \E u \in User : AskPosition(p, u)
      PROVE  QueueInv'
  BY <1>2, PollKeeps, AskPositionKeeps
<1>3. ASSUME NEW r \in Releaser,
             Count(r) \/ Releases(r) \/ TakingFails(r) \/ StoringFails(r) \/ WorkerStops(r)
      PROVE  QueueInv'
  <2>1. CASE Count(r) BY <2>1, CountKeeps
  <2>2. CASE Releases(r)
    <3>1. releaser[r] # Idle BY <2>2, NotIdle DEF Releases
    <3> QED BY <2>2, <3>1, ReadHeadKeeps, TakeBatchKeeps, StorePassKeeps, PublishPassKeeps DEF Releases
  <2>3. CASE TakingFails(r) \/ StoringFails(r) \/ WorkerStops(r)
    <3>1. releaser[r] # Idle BY <2>3, NotIdle
    <3> QED BY <2>3, <3>1, FailuresKeep
  <2> QED BY <1>3, <2>1, <2>2, <2>3
<1>4. ASSUME NEW q \in Request, DeletePass(q) \/ \E u \in User : Reserve(q, u)
      PROVE  QueueInv'
  BY <1>4, ReservationsKeep
<1>5. CASE UNCHANGED queueVars
  <2>1. UNCHANGED <<line, arrivals, joins, pass, has, poll, releaser, request, stops>>
    BY <1>5 DEF queueVars
  <2>2. stops' \in 0..MaxStops BY <2>1 DEF QueueInv, StoreInv
  <2>3. StoreInv' /\ StrangersInv' /\ PollsInv' /\ PassWithinReach' BY <2>1, <2>2, StoreStays
  <2>4. Stored' \subseteq Stored BY <2>1 DEF Stored
  <2> QED BY <2>1, <2>3, <2>4, QuietStep
<1> QED BY <1>1, <1>2, <1>3, <1>4, <1>5 DEF QueueNext

\* What makes the three invariants below inductive: who never joined has nothing, who asks was
\* at the head of the line or out of it when its request began, a worker knows everybody in
\* front of those it takes, and whom it took is gone or has joined again.
THEOREM QueueHolds == QueueSpec => []QueueInv
<1> QED BY QueueBegins, QueueKeeps, PTL DEF QueueSpec

\* The queue's variables keep their types, no two in the line have one score, and no batch
\* is larger than the room that was read for it.
THEOREM QueueTyped == QueueSpec => []QueueTypeOK
<1>1. QueueInv => QueueTypeOK
  <2> SUFFICES ASSUME QueueInv PROVE QueueTypeOK
    OBVIOUS
  <2>1. \A r \in Releaser : releaser[r] # Idle => Cardinality(releaser[r].batch) <= releaser[r].room
    BY DEF QueueInv, WorkersInv, Fits
  <2>2. releaser \in [Releaser -> Releasing \union {Idle}] BY DEF QueueInv, WorkersInv
  <2> QED BY <2>1, <2>2 DEF QueueInv, StoreInv, QueueTypeOK
<1> QED BY <1>1, QueueHolds, PTL

\* However the steps of several position requests and workers interleave, and whichever
\* replies, answers and messages are lost: who asks again is given a stored pass it does not
\* have or, at the head, a new one, unless it joined again while being released.
THEOREM PassReached == QueueSpec => []PassWithinReach
<1>1. QueueInv => PassWithinReach BY DEF QueueInv
<1> QED BY <1>1, QueueHolds, PTL

\* With any number of release workers, what they have stored and have yet to store is
\* within the limit once per worker.
THEOREM PassesStayBounded == QueueSpec => []PassesBounded
<1>1. QueueInv => PassesBounded BY DEF QueueInv
<1> QED BY <1>1, QueueHolds, PTL

\* A worker leaves the place where it takes its batch by taking it, by being told that this
\* failed, or by stopping.
LEMMA OnlyTaking ==
  ASSUME QueueInv, [QueueNext]_queueVars, NEW r \in Releaser,
         releaser[r].at = "take", releaser'[r] # releaser[r]
  PROVE  TakenFromLine(r) \/ UNCHANGED line
<1>1. releaser \in [Releaser -> Releasing \union {Idle}] BY DEF QueueInv, WorkersInv
<1>2. Idle.at = "idle" BY DEF Idle
<1>3. releaser' # releaser OBVIOUS
<1>4. PICK s \in Releaser : Count(s) \/ Releases(s) \/ TakingFails(s) \/ StoringFails(s) \/ WorkerStops(s)
  BY <1>3 DEF QueueNext, queueVars, Join, Leave, PassExpires, AskPosition, FetchPass, StoreAtHead, Answered,
              DeletePass, Reserve
<1>5. s = r
  <2>1. ASSUME s # r PROVE releaser'[r] = releaser[r]
    BY <1>1, <1>4, <2>1 DEF Count, Releases, ReadHead, TakeBatch, StorePass, PublishPass, NextOfBatch,
                            TakingFails, StoringFails, WorkerStops
  <2> QED BY <2>1
<1>6. ~Count(r) BY <1>2 DEF Count
<1>7. ~ReadHead(r) /\ ~StorePass(r) /\ ~PublishPass(r) /\ ~StoringFails(r)
  BY DEF ReadHead, StorePass, PublishPass, StoringFails
<1>8. TakeBatch(r) => TakenFromLine(r) BY DEF TakeBatch
<1>9. TakingFails(r) => TakenFromLine(r) \/ UNCHANGED line BY DEF TakingFails
<1>10. WorkerStops(r) => UNCHANGED line BY DEF WorkerStops
<1> QED BY <1>4, <1>5, <1>6, <1>7, <1>8, <1>9, <1>10 DEF Releases

\* Whoever joins, leaves or is taken between a worker's reading the head and its taking it,
\* and whether or not the worker hears that it did: nobody who stood in front of one that is
\* taken is left behind.
THEOREM FirstComeServed == QueueSpec => FirstComeFirstServed
<1>1. ASSUME QueueInv, [QueueNext]_queueVars, NEW r \in Releaser,
             releaser[r].at = "take", releaser'[r] # releaser[r],
             NEW b \in releaser[r].batch, line[b[1]] = b[2], b[1] \notin Waiting'
      PROVE  Ahead(b[1]) \intersect Waiting' = {}
  <2>1. releaser[r] # Idle
    <3>1. Idle.at = "idle" BY DEF Idle
    <3> QED BY <1>1, <3>1
  <2>2. /\ Known(releaser[r], line, arrivals, joins) /\ b[1] \in User /\ b[2] \in 1..arrivals
    <3>1. Known(releaser[r], line, arrivals, joins) /\ releaser[r].batch \in SUBSET (User \X Nat)
      BY <1>1, <2>1, AtWork
    <3> QED BY <3>1 DEF Known
  <2>3. TakenFromLine(r)
    <3>1. b[1] \in Waiting BY <1>1, <2>2 DEF Waiting, NoScore
    <3>2. line' # line BY <1>1, <3>1 DEF Waiting
    <3> QED BY <1>1, <3>2, OnlyTaking
  <2>4. ASSUME NEW v \in Ahead(b[1]) PROVE v \notin Waiting'
    <3>1. v \in User /\ line[v] # NoScore /\ line[v] < b[2] BY <1>1, <2>4 DEF Ahead, Waiting
    <3>2. PICK c \in releaser[r].batch : c[1] = v BY <1>1, <2>2, <3>1 DEF Known
    <3>3. v \in BatchOf(r) BY <3>2 DEF BatchOf
    <3>4. line'[v] = NoScore BY <2>3, <3>1, <3>3 DEF TakenFromLine
    <3> QED BY <3>4 DEF Waiting
  <2> QED BY <2>4
<1>2. QueueInv /\ [QueueNext]_queueVars =>
        \A r \in Releaser : releaser[r].at = "take" /\ releaser'[r] # releaser[r] =>
          \A b \in releaser[r].batch :
            line[b[1]] = b[2] /\ b[1] \notin Waiting' => Ahead(b[1]) \intersect Waiting' = {}
  BY <1>1
<1> QED BY <1>2, QueueHolds, PTL DEF QueueSpec, FirstComeFirstServed
=============================================================================
