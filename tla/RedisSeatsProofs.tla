-------------------------- MODULE RedisSeatsProofs --------------------------
(***************************************************************************)
(* Theorems about the Redis inventory, for any bookings, users, quantities *)
(* and limits.  RedisInv, the inductive invariant, adds to the properties  *)
(* what links a reservation key to the history: a key exists only while    *)
(* its seats are taken.  The lemmas that come first say how the number of  *)
(* seats of a finite set of bookings changes when a booking joins or       *)
(* leaves it.                                                              *)
(***************************************************************************)
EXTENDS RedisSeats, FiniteSetTheorems, TLAPS

\* The seats of one booking: as many as it asks for.
LEMMA SeatsOfOne ==
  ASSUME NEW b, Qty[b] \in Nat
  PROVE  /\ IsFiniteSet({b} \X (1 .. Qty[b]))
         /\ Cardinality({b} \X (1 .. Qty[b])) = Qty[b]
<1>1. IsFiniteSet({b}) /\ Cardinality({b}) = 1
  BY FS_Singleton
<1>2. IsFiniteSet(1 .. Qty[b]) /\ Cardinality(1 .. Qty[b]) = Qty[b]
  BY FS_Interval
<1>3. /\ IsFiniteSet({b} \X (1 .. Qty[b]))
      /\ Cardinality({b} \X (1 .. Qty[b])) = Cardinality({b}) * Cardinality(1 .. Qty[b])
  BY <1>1, <1>2, FS_Product
<1>4. 1 * Qty[b] = Qty[b]
  OBVIOUS
<1> QED
  BY <1>1, <1>2, <1>3, <1>4

\* Finitely many bookings ask for finitely many seats.
LEMMA SeatsFinite ==
  ASSUME NEW B, IsFiniteSet(B), \A b \in B : Qty[b] \in Nat
  PROVE  IsFiniteSet(SeatsOf(B)) /\ Seats(B) \in Nat
<1> DEFINE seatsOf == [b \in B |-> {b} \X (1 .. Qty[b])]
           image == {{b} \X (1 .. Qty[b]) : b \in B}
<1>1. seatsOf \in Surjection(B, image)
  BY DEF Surjection
<1>2. IsFiniteSet(image)
  BY <1>1, FS_Surjection
<1>3. \A T \in image : IsFiniteSet(T)
  BY SeatsOfOne
<1>4. IsFiniteSet(SeatsOf(B))
  BY <1>2, <1>3, FS_UNION DEF SeatsOf
<1> QED
  BY <1>4, FS_CardinalityType DEF Seats

\* No bookings ask for no seats.
LEMMA SeatsEmpty == Seats({}) = 0
<1>1. SeatsOf({}) = {}
  BY DEF SeatsOf
<1> QED
  BY <1>1, FS_EmptySet DEF Seats

\* More bookings ask for no fewer seats.
LEMMA SeatsMonotone ==
  ASSUME NEW B, IsFiniteSet(B), \A b \in B : Qty[b] \in Nat, NEW A \in SUBSET B
  PROVE  Seats(A) <= Seats(B)
<1>1. SeatsOf(A) \subseteq SeatsOf(B)
  BY DEF SeatsOf
<1> QED
  BY <1>1, SeatsFinite, FS_Subset DEF Seats

\* A booking that joins brings the seats it asks for.
LEMMA SeatsAdd ==
  ASSUME NEW B, IsFiniteSet(B), \A b \in B : Qty[b] \in Nat,
         NEW b, b \notin B, Qty[b] \in Nat
  PROVE  Seats(B \cup {b}) = Seats(B) + Qty[b]
<1> DEFINE new == {b} \X (1 .. Qty[b])
<1>1. SeatsOf(B \cup {b}) = SeatsOf(B) \cup new
  BY DEF SeatsOf
<1>2. SeatsOf(B) \cap new = {}
  BY DEF SeatsOf
<1>3. IsFiniteSet(new) /\ Cardinality(new) = Qty[b]
  BY SeatsOfOne
<1>4. IsFiniteSet(SeatsOf(B)) /\ Cardinality(SeatsOf(B)) \in Nat
  BY SeatsFinite DEF Seats
<1>5. Cardinality(SeatsOf(B) \cup new) =
        Cardinality(SeatsOf(B)) + Cardinality(new) - Cardinality(SeatsOf(B) \cap new)
  BY <1>3, <1>4, FS_Union
<1>6. Cardinality(SeatsOf(B) \cup new) = Cardinality(SeatsOf(B)) + Qty[b]
  <2>1. Cardinality({}) = 0
    BY FS_EmptySet
  <2>2. Cardinality(SeatsOf(B) \cap new) = 0
    BY <1>2, <2>1, Zenon
  <2> QED
    BY <1>3, <1>4, <1>5, <2>2
<1> QED
  BY <1>1, <1>6 DEF Seats

\* A booking that leaves takes them away.
LEMMA SeatsRemove ==
  ASSUME NEW B, IsFiniteSet(B), \A b \in B : Qty[b] \in Nat, NEW b \in B
  PROVE  Seats(B \ {b}) = Seats(B) - Qty[b]
<1>1. IsFiniteSet(B \ {b})
  BY FS_RemoveElement
<1>2. (B \ {b}) \cup {b} = B
  OBVIOUS
<1>3. Seats(B) = Seats(B \ {b}) + Qty[b]
  BY <1>1, <1>2, SeatsAdd
<1>4. Seats(B \ {b}) \in Nat
  BY <1>1, SeatsFinite
<1> QED
  BY <1>3, <1>4
-----------------------------------------------------------------------------
USE BookingAssumption, OwnerAssumption, QtyAssumption, CapacityAssumption,
    MaxPerUserAssumption

KeysHaveSeats == \A b \in Booking : reservation[b] # "none" => ledger[b] = "taken"

RedisInv == RedisTypeOK /\ KeysHaveSeats /\ SeatConservation

\* Any set of bookings is finite and asks for a natural number of seats.
LEMMA BookingSets ==
  ASSUME NEW B \in SUBSET Booking
  PROVE  /\ IsFiniteSet(B)
         /\ \A b \in B : Qty[b] \in Nat
         /\ Seats(B) \in Nat
<1>1. IsFiniteSet(B)
  BY FS_Subset
<1>2. \A b \in B : Qty[b] \in Nat
  OBVIOUS
<1> QED
  BY <1>1, <1>2, SeatsFinite
-----------------------------------------------------------------------------
\* Initially nothing is taken and no key exists.
LEMMA RedisInitInv == RedisInit => RedisInv
<1> SUFFICES ASSUME RedisInit
             PROVE  RedisInv
  OBVIOUS
<1>1. RedisTypeOK
  BY DEF RedisInit, RedisTypeOK
<1>2. KeysHaveSeats
  BY DEF RedisInit, KeysHaveSeats
<1>3. Taken = {}
  BY DEF RedisInit, Taken
<1>4. Seats(Taken) = 0
  BY <1>3, SeatsEmpty, Zenon
<1>5. SeatConservation
  BY <1>4 DEF SeatConservation, RedisInit
<1> QED
  BY <1>1, <1>2, <1>5 DEF RedisInv

\* Deduct leaves the stock a natural number, because it was compared first.
LEMMA DeductType ==
  ASSUME RedisTypeOK, NEW b \in Booking, Deduct(b)
  PROVE  /\ available' \in Nat
         /\ userReserved' \in [User -> Nat]
         /\ reservation' \in [Booking -> {"none", "reserved", "confirmed"}]
<1>1. available >= Qty[b]
  BY DEF Deduct, ReserveAnswer, RedisTypeOK
<1>2. available' \in Nat
  BY <1>1 DEF Deduct, RedisTypeOK
<1>3. userReserved' \in [User -> Nat]
  BY DEF Deduct, RedisTypeOK
<1>4. reservation' \in [Booking -> {"none", "reserved", "confirmed"}]
  BY DEF Deduct, RedisTypeOK
<1> QED
  BY <1>2, <1>3, <1>4

\* One step per action; seats move between the stock and Taken.
LEMMA RedisNextInv == RedisInv /\ [RedisNext]_redisVars => RedisInv'
<1> SUFFICES ASSUME RedisInv, [RedisNext]_redisVars
             PROVE  RedisInv'
  OBVIOUS
<1> USE DEF RedisInv
<1> DEFINE seatsOfTaken == Seats(Taken)
<1>0. seatsOfTaken \in Nat
  BY BookingSets DEF Taken
<1>1. CASE UNCHANGED redisVars
  BY <1>1 DEF redisVars, RedisTypeOK, KeysHaveSeats, SeatConservation, Taken
<1>2. ASSUME NEW b \in Booking, ReserveScript(b)
      PROVE  RedisInv'
  <2>1. RedisTypeOK'
    BY <1>2, DeductType DEF RedisTypeOK, ReserveScript
  <2>2. KeysHaveSeats'
    BY <1>2 DEF RedisTypeOK, ReserveScript, Deduct, KeysHaveSeats
  <2>3. Taken' = Taken \cup {b} /\ b \notin Taken
    BY <1>2 DEF RedisTypeOK, ReserveScript, Taken
  <2>4. Seats(Taken \cup {b}) = Seats(Taken) + Qty[b]
    BY <2>3, BookingSets, SeatsAdd DEF Taken
  <2>5. Seats(Taken') = Seats(Taken) + Qty[b]
    BY <2>3, <2>4, Zenon
  <2>6. SeatConservation'
    BY <1>2, <2>5, <1>0 DEF RedisTypeOK, SeatConservation, ReserveScript, Deduct
  <2> QED
    BY <2>1, <2>2, <2>6
<1>3. ASSUME NEW b \in Booking, ReserveRepeated(b)
      PROVE  RedisInv'
  <2>1. RedisTypeOK'
    BY <1>3, DeductType DEF RedisTypeOK, ReserveRepeated
  <2>2. KeysHaveSeats'
    BY <1>3 DEF RedisTypeOK, ReserveRepeated, Deduct, KeysHaveSeats
  <2>3. Taken' = Taken
    BY <1>3 DEF ReserveRepeated, Taken
  <2>4. SeatConservation'
    BY <1>3, <2>3, <1>0 DEF RedisTypeOK, SeatConservation, ReserveRepeated, Deduct
  <2> QED
    BY <2>1, <2>2, <2>4
<1>4. ASSUME NEW b \in Booking, ConfirmScript(b)
      PROVE  RedisInv'
  <2>1. reservation[b] = "reserved"
    BY <1>4 DEF ConfirmScript, ConfirmAnswer, RedisTypeOK
  <2>2. RedisTypeOK' /\ KeysHaveSeats'
    BY <1>4, <2>1 DEF RedisTypeOK, ConfirmScript, KeysHaveSeats
  <2>3. SeatConservation'
    BY <1>4 DEF SeatConservation, ConfirmScript, Taken
  <2> QED
    BY <2>2, <2>3
<1>5. ASSUME NEW b \in Booking, ReleaseScript(b)
      PROVE  RedisInv'
  <2>1. reservation[b] = "reserved"
    BY <1>5 DEF ReleaseScript, ReleaseAnswer, RedisTypeOK
  <2>2. RedisTypeOK'
    BY <1>5 DEF RedisTypeOK, ReleaseScript
  <2>3. KeysHaveSeats'
    BY <1>5 DEF RedisTypeOK, ReleaseScript, KeysHaveSeats
  <2>4. Taken' = Taken \ {b} /\ b \in Taken
    BY <1>5, <2>1 DEF RedisTypeOK, ReleaseScript, Taken, KeysHaveSeats
  <2>5. Seats(Taken \ {b}) = Seats(Taken) - Qty[b]
    BY <2>4, BookingSets, SeatsRemove DEF Taken
  <2>6. Seats(Taken') = Seats(Taken) - Qty[b]
    BY <2>4, <2>5, Zenon
  <2>7. SeatConservation'
    BY <1>5, <2>6, <1>0 DEF RedisTypeOK, SeatConservation, ReleaseScript
  <2> QED
    BY <2>2, <2>3, <2>7
<1>6. ASSUME NEW b \in Booking, ReservationExpires(b)
      PROVE  RedisInv'
  BY <1>6 DEF RedisTypeOK, ReservationExpires, KeysHaveSeats, SeatConservation, Taken
<1>7. ASSUME NEW u \in User, UserCounterExpires(u)
      PROVE  RedisInv'
  BY <1>7 DEF RedisTypeOK, UserCounterExpires, KeysHaveSeats, SeatConservation, Taken
<1> QED
  BY <1>1, <1>2, <1>3, <1>4, <1>5, <1>6, <1>7 DEF RedisNext, RedisExpiry

\* The counter, the keys and the history keep their types.
THEOREM RedisTypeSafe == RedisSpec => []RedisTypeOK
<1>1. RedisInv => RedisTypeOK
  BY DEF RedisInv
<1> QED
  BY <1>1, RedisInitInv, RedisNextInv, PTL DEF RedisSpec

\* Every seat that is missing from the stock is accounted for.
THEOREM SeatsConserved == RedisSpec => []SeatConservation
<1>1. RedisInv => SeatConservation
  BY DEF RedisInv
<1> QED
  BY <1>1, RedisInitInv, RedisNextInv, PTL DEF RedisSpec
-----------------------------------------------------------------------------
\* What a user holds is a finite set of bookings.
LEMMA HeldBySets ==
  ASSUME NEW u
  PROVE  /\ HeldBy(u) \in SUBSET Booking
         /\ Seats(HeldBy(u)) \in Nat
<1>1. HeldBy(u) \in SUBSET Booking
  BY DEF HeldBy
<1> QED
  BY <1>1, BookingSets

\* Fewer or the same bookings under the same or a larger counter stay bounded.
LEMMA StaysBounded ==
  ASSUME RedisTypeOK, RedisTypeOK', NEW u \in User, Bounded(u),
         HeldBy(u)' \subseteq HeldBy(u),
         userReserved[u] <= userReserved'[u]
  PROVE  Bounded(u)'
<1>1. HeldBy(u)' \in SUBSET HeldBy(u)
  OBVIOUS
<1>2. Seats(HeldBy(u)') <= Seats(HeldBy(u))
  BY <1>1, HeldBySets, BookingSets, SeatsMonotone
<1>3. HeldBy(u)' \in SUBSET Booking /\ Seats(HeldBy(u)') \in Nat
  BY <1>1, HeldBySets, BookingSets
<1>4. userReserved[u] \in Nat /\ userReserved'[u] \in Nat /\ Seats(HeldBy(u)) \in Nat
  BY HeldBySets DEF RedisTypeOK
<1> QED
  BY <1>2, <1>3, <1>4 DEF Bounded

\* Initially nobody holds anything.
LEMMA HoldLimitInit == RedisInit => HoldLimit
<1> SUFFICES ASSUME RedisInit, NEW u \in User
             PROVE  Bounded(u)
  BY DEF HoldLimit
<1>1. HeldBy(u) = {}
  BY DEF RedisInit, HeldBy
<1>2. Seats(HeldBy(u)) = 0
  BY <1>1, SeatsEmpty, Zenon
<1> QED
  BY <1>2 DEF Bounded, RedisInit

\* Only a reserve script adds to what a user holds, and it counts first; only
\* a release and the counter's expiry lower the counter.
LEMMA HoldLimitStep ==
  RedisInv /\ RedisInv' /\ HoldLimit /\ [RedisNext]_redisVars => HoldLimit'
<1> SUFFICES ASSUME RedisInv, RedisInv', HoldLimit, [RedisNext]_redisVars,
                    NEW u \in User
             PROVE  Bounded(u)'
  BY DEF HoldLimit
<1>0. /\ RedisTypeOK
      /\ RedisTypeOK'
      /\ KeysHaveSeats
      /\ Bounded(u)
      /\ Seats(HeldBy(u)) \in Nat
      /\ userReserved[u] \in Nat
  BY HeldBySets DEF RedisInv, HoldLimit, RedisTypeOK
<1>1. CASE UNCHANGED redisVars
  BY <1>0, <1>1, StaysBounded DEF redisVars, HeldBy
<1>2. ASSUME NEW b \in Booking, ReserveScript(b)
      PROVE  Bounded(u)'
  <2>1. CASE Owner[b] # u
    <3>1. HeldBy(u)' \subseteq HeldBy(u) /\ userReserved[u] <= userReserved'[u]
      BY <1>0, <1>2, <2>1 DEF ReserveScript, Deduct, HeldBy, RedisTypeOK
    <3> QED
      BY <1>0, <3>1, StaysBounded
  <2>2. CASE Owner[b] = u
    <3>1. HeldBy(u)' = HeldBy(u) \cup {b} /\ b \notin HeldBy(u)
      BY <1>0, <1>2, <2>2 DEF ReserveScript, Deduct, HeldBy, KeysHaveSeats, RedisTypeOK
    <3>2. Seats(HeldBy(u) \cup {b}) = Seats(HeldBy(u)) + Qty[b]
      BY <3>1, HeldBySets, BookingSets, SeatsAdd
    <3>3. Seats(HeldBy(u)') = Seats(HeldBy(u)) + Qty[b]
      BY <3>1, <3>2, Zenon
    <3>4. userReserved'[u] = userReserved[u] + Qty[b]
      BY <1>0, <1>2, <2>2 DEF ReserveScript, Deduct, RedisTypeOK
    <3>5. WithinUserLimit(b)
      BY <1>2 DEF ReserveScript, Deduct, ReserveAnswer
    <3> QED
      BY <1>0, <2>2, <3>3, <3>4, <3>5 DEF Bounded, WithinUserLimit
  <2> QED
    BY <2>1, <2>2
<1>3. ASSUME NEW b \in Booking, ReserveRepeated(b)
      PROVE  Bounded(u)'
  <2>1. HeldBy(u)' \subseteq HeldBy(u) /\ userReserved[u] <= userReserved'[u]
    BY <1>0, <1>3 DEF ReserveRepeated, Deduct, HeldBy, RedisTypeOK
  <2> QED
    BY <1>0, <2>1, StaysBounded
<1>4. ASSUME NEW b \in Booking, ConfirmScript(b)
      PROVE  Bounded(u)'
  <2>1. HeldBy(u)' \subseteq HeldBy(u) /\ userReserved[u] <= userReserved'[u]
    BY <1>0, <1>4 DEF ConfirmScript, HeldBy, RedisTypeOK
  <2> QED
    BY <1>0, <2>1, StaysBounded
<1>5. ASSUME NEW b \in Booking, ReleaseScript(b)
      PROVE  Bounded(u)'
  <2>1. CASE Owner[b] # u
    <3>1. HeldBy(u)' \subseteq HeldBy(u) /\ userReserved[u] <= userReserved'[u]
      BY <1>0, <1>5, <2>1 DEF ReleaseScript, HeldBy, RedisTypeOK
    <3> QED
      BY <1>0, <3>1, StaysBounded
  <2>2. CASE Owner[b] = u
    <3>1. HeldBy(u)' = HeldBy(u) \ {b} /\ b \in HeldBy(u)
      BY <1>0, <1>5, <2>2 DEF ReleaseScript, ReleaseAnswer, HeldBy, RedisTypeOK
    <3>2. Seats(HeldBy(u) \ {b}) = Seats(HeldBy(u)) - Qty[b]
      BY <3>1, HeldBySets, BookingSets, SeatsRemove
    <3>3. Seats(HeldBy(u)') = Seats(HeldBy(u)) - Qty[b]
      BY <3>1, <3>2, Zenon
    <3>4. Seats(HeldBy(u)') \in Nat
      BY <3>1, HeldBySets, BookingSets
    <3>5. userReserved'[u] = userReserved[u] - Qty[b]
      BY <1>0, <1>5, <2>2, <3>3, <3>4 DEF ReleaseScript, RedisTypeOK, Bounded
    <3> QED
      BY <1>0, <3>3, <3>4, <3>5 DEF Bounded
  <2> QED
    BY <2>1, <2>2
<1>6. ASSUME NEW b \in Booking, ReservationExpires(b)
      PROVE  Bounded(u)'
  <2>1. HeldBy(u)' \subseteq HeldBy(u) /\ userReserved[u] <= userReserved'[u]
    BY <1>0, <1>6 DEF ReservationExpires, HeldBy, RedisTypeOK
  <2> QED
    BY <1>0, <2>1, StaysBounded
<1>7. ASSUME NEW w \in User, UserCounterExpires(w)
      PROVE  Bounded(u)'
  <2>1. CASE w # u
    <3>1. HeldBy(u)' \subseteq HeldBy(u) /\ userReserved[u] <= userReserved'[u]
      BY <1>0, <1>7, <2>1 DEF UserCounterExpires, HeldBy, RedisTypeOK
    <3> QED
      BY <1>0, <3>1, StaysBounded
  <2>2. CASE w = u
    <3>1. HeldBy(u)' = {}
      BY <1>7, <2>2 DEF UserCounterExpires, HeldBy
    <3>2. Seats(HeldBy(u)') = 0
      BY <3>1, SeatsEmpty, Zenon
    <3>3. userReserved'[u] = 0
      BY <1>0, <1>7, <2>2 DEF UserCounterExpires, RedisTypeOK
    <3> QED
      BY <3>2, <3>3 DEF Bounded
  <2> QED
    BY <2>1, <2>2
<1> QED
  BY <1>1, <1>2, <1>3, <1>4, <1>5, <1>6, <1>7 DEF RedisNext, RedisExpiry

\* What a user holds unpaid never exceeds the counter, nor the limit.
THEOREM HoldsLimited == RedisSpec => []HoldLimit
<1>1. RedisSpec => []RedisInv
  BY RedisInitInv, RedisNextInv, PTL DEF RedisSpec
<1>2. RedisSpec => [](RedisInv => HoldLimit)
  <2>1. RedisInit => HoldLimit
    BY HoldLimitInit
  <2> QED
    BY <1>1, <2>1, HoldLimitStep, PTL DEF RedisSpec
<1> QED
  BY <1>1, <1>2, PTL
-----------------------------------------------------------------------------
\* The seats the abstract sale counts are those the history says are taken.
LEMMA OutstandingIsTaken ==
  ASSUME RedisTypeOK, KeysHaveSeats
  PROVE  Sale!Outstanding = Taken
BY DEF Sale!Outstanding, Taken, SaleOf, RedisTypeOK, KeysHaveSeats

\* A step that leaves every booking's stage alone is a stutter of the sale.
LEMMA SaleStutters ==
  ASSUME \A b \in Booking : SaleOf(b)' = SaleOf(b)
  PROVE  UNCHANGED [b \in Booking |-> SaleOf(b)]
OBVIOUS

\* A step that moves one booking changes the sale at that booking only.
LEMMA SaleMoves ==
  ASSUME NEW b \in Booking, NEW to,
         SaleOf(b)' = to,
         \A d \in Booking \ {b} : SaleOf(d)' = SaleOf(d)
  PROVE  [d \in Booking |-> SaleOf(d)]' = [[d \in Booking |-> SaleOf(d)] EXCEPT ![b] = to]
OBVIOUS

\* The initial inventory is the initial sale.
LEMMA SaleInitMap == RedisInit => Sale!SaleInit
BY DEF RedisInit, Sale!SaleInit, SaleOf

\* Every step is one of the sale or leaves it alone.
LEMMA SaleStepMap ==
  RedisInv /\ RedisInv' /\ [RedisNext]_redisVars
    => [Sale!SaleNext]_([b \in Booking |-> SaleOf(b)])
<1> SUFFICES ASSUME RedisInv, RedisInv', [RedisNext]_redisVars
             PROVE  [Sale!SaleNext]_([b \in Booking |-> SaleOf(b)])
  OBVIOUS
<1>0. RedisTypeOK /\ RedisTypeOK' /\ KeysHaveSeats /\ SeatConservation
  BY DEF RedisInv
<1>1. CASE UNCHANGED redisVars
  BY <1>1, SaleStutters DEF redisVars, SaleOf
<1>2. ASSUME NEW b \in Booking, ReserveScript(b)
      PROVE  Sale!Hold(b)
  <2>1. SaleOf(b) = "open"
    BY <1>2 DEF ReserveScript, SaleOf
  <2>2. b \notin Taken
    BY <1>2 DEF ReserveScript, Taken
  <2>3. Seats(Taken \cup {b}) = Seats(Taken) + Qty[b]
    BY <2>2, BookingSets, SeatsAdd DEF Taken
  <2>4. Seats(Taken) \in Nat
    BY BookingSets DEF Taken
  <2>5. available >= Qty[b]
    BY <1>0, <1>2 DEF ReserveScript, Deduct, ReserveAnswer, RedisTypeOK
  <2>6. Seats(Taken \cup {b}) <= Capacity
    BY <1>0, <2>3, <2>4, <2>5 DEF SeatConservation, RedisTypeOK
  <2>7. Seats(Sale!Outstanding \cup {b}) <= Capacity
    BY <1>0, <2>6, OutstandingIsTaken
  <2>8. SaleOf(b)' = "held" /\ \A d \in Booking \ {b} : SaleOf(d)' = SaleOf(d)
    BY <1>0, <1>2 DEF ReserveScript, Deduct, SaleOf, RedisTypeOK
  <2>9. [d \in Booking |-> SaleOf(d)]' =
          [[d \in Booking |-> SaleOf(d)] EXCEPT ![b] = "held"]
    BY <2>8, SaleMoves
  <2> QED
    BY <2>1, <2>7, <2>9 DEF Sale!Hold
<1>3. ASSUME NEW b \in Booking, ReserveRepeated(b)
      PROVE  UNCHANGED [d \in Booking |-> SaleOf(d)]
  <2>1. \A d \in Booking : SaleOf(d)' = SaleOf(d)
    BY <1>0, <1>3 DEF ReserveRepeated, Deduct, SaleOf, RedisTypeOK
  <2> QED
    BY <2>1, SaleStutters
<1>4. ASSUME NEW b \in Booking, ConfirmScript(b)
      PROVE  Sale!Sell(b)
  <2>1. reservation[b] = "reserved"
    BY <1>0, <1>4 DEF ConfirmScript, ConfirmAnswer, RedisTypeOK
  <2>2. SaleOf(b) = "held"
    BY <1>0, <2>1 DEF SaleOf, KeysHaveSeats
  <2>3. SaleOf(b)' = "sold" /\ \A d \in Booking \ {b} : SaleOf(d)' = SaleOf(d)
    BY <1>0, <1>4, <2>1 DEF ConfirmScript, SaleOf, RedisTypeOK, KeysHaveSeats
  <2>4. [d \in Booking |-> SaleOf(d)]' =
          [[d \in Booking |-> SaleOf(d)] EXCEPT ![b] = "sold"]
    BY <2>3, SaleMoves
  <2> QED
    BY <2>2, <2>4 DEF Sale!Sell
<1>5. ASSUME NEW b \in Booking, ReleaseScript(b)
      PROVE  Sale!GiveBack(b)
  <2>1. reservation[b] = "reserved"
    BY <1>0, <1>5 DEF ReleaseScript, ReleaseAnswer, RedisTypeOK
  <2>2. SaleOf(b) = "held"
    BY <1>0, <2>1 DEF SaleOf, KeysHaveSeats
  <2>3. SaleOf(b)' = "closed" /\ \A d \in Booking \ {b} : SaleOf(d)' = SaleOf(d)
    BY <1>0, <1>5 DEF ReleaseScript, SaleOf, RedisTypeOK
  <2>4. [d \in Booking |-> SaleOf(d)]' =
          [[d \in Booking |-> SaleOf(d)] EXCEPT ![b] = "closed"]
    BY <2>3, SaleMoves
  <2> QED
    BY <2>2, <2>4 DEF Sale!GiveBack
<1>6. ASSUME NEW b \in Booking, ReservationExpires(b)
      PROVE  UNCHANGED [d \in Booking |-> SaleOf(d)]
  <2>1. \A d \in Booking : SaleOf(d)' = SaleOf(d)
    BY <1>0, <1>6 DEF ReservationExpires, SaleOf, RedisTypeOK
  <2> QED
    BY <2>1, SaleStutters
<1>7. ASSUME NEW u \in User, UserCounterExpires(u)
      PROVE  UNCHANGED [d \in Booking |-> SaleOf(d)]
  <2>1. \A d \in Booking : SaleOf(d)' = SaleOf(d)
    BY <1>7 DEF UserCounterExpires, SaleOf
  <2> QED
    BY <2>1, SaleStutters
<1> QED
  BY <1>1, <1>2, <1>3, <1>4, <1>5, <1>6, <1>7
  DEF RedisNext, RedisExpiry, Sale!SaleNext

\* The three scripts, with key expiry and repeated commands, implement SeatSale.
THEOREM ScriptsImplementSale == RedisSpec => ImplementsSale
<1>1. RedisSpec => []RedisInv
  BY RedisInitInv, RedisNextInv, PTL DEF RedisSpec
<1> QED
  BY <1>1, SaleInitMap, SaleStepMap, PTL DEF RedisSpec, ImplementsSale, Sale!SaleSpec

\* Whatever was accounted for as taken fits in the zone.
LEMMA TakenFits ==
  ASSUME RedisInv
  PROVE  Sale!NeverOversold
<1>1. RedisTypeOK /\ KeysHaveSeats /\ SeatConservation
  BY DEF RedisInv
<1>2. Seats(Taken) \in Nat
  BY BookingSets DEF Taken
<1>3. Seats(Taken) <= Capacity
  BY <1>1, <1>2, CapacityAssumption DEF SeatConservation, RedisTypeOK
<1> QED
  BY <1>1, <1>3, OutstandingIsTaken DEF Sale!NeverOversold

\* However scripts, repeats of them and expiries follow each other, the seats
\* held and sold never exceed the zone: what the sale promises, Redis keeps.
THEOREM NeverOversoldInRedis == RedisSpec => []Sale!NeverOversold
<1>1. RedisSpec => []RedisInv
  BY RedisInitInv, RedisNextInv, PTL DEF RedisSpec
<1>2. RedisInv => Sale!NeverOversold
  BY TakenFits
<1> QED
  BY <1>1, <1>2, PTL
=============================================================================
