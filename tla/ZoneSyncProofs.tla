--------------------------- MODULE ZoneSyncProofs ---------------------------
(***************************************************************************)
(* Theorems about the writers of the zone counter, for any bookings,       *)
(* quantities, capacity and number of writers.  ZoneInv, the inductive     *)
(* invariant, adds to the types that a reservation key has taken seats     *)
(* (else a release could add seats nobody took) and that the row of the    *)
(* zone never offers more than what it leaves over.                        *)
(***************************************************************************)
EXTENDS ZoneSync, RedisSeatsProofs

USE BookingAssumption, OwnerAssumption, QtyAssumption, CapacityAssumption,
    MaxPerUserAssumption, FlightAssumption

TableFits == rowAvailable + Seats(RowTaken) <= Capacity

ZoneInv == ZoneTypeOK /\ KeysHaveSeats /\ TableFits

\* The seats on record and those taken are natural numbers.
LEMMA SeatNumbers ==
  /\ Seats(Taken) \in Nat /\ Seats(Taken') \in Nat
  /\ Seats(RowTaken) \in Nat /\ Seats(RowTaken') \in Nat
BY BookingSets DEF Taken, RowTaken

\* Initially nothing is taken, and nobody waits.
LEMMA ZoneInitInv == ZoneInit => ZoneInv
<1> SUFFICES ASSUME ZoneInit
             PROVE  ZoneInv
  OBVIOUS
<1>1. ZoneTypeOK
  BY DEF ZoneInit, ZoneTypeOK, RedisTypeOK, Stages, Busy
<1>2. KeysHaveSeats
  BY DEF ZoneInit, KeysHaveSeats
<1>3. RowTaken = {}
  BY DEF ZoneInit, RowTaken
<1>4. Seats(RowTaken) = 0
  BY <1>3, SeatsEmpty, Zenon
<1>5. TableFits
  BY <1>4 DEF ZoneInit, TableFits
<1> QED
  BY <1>1, <1>2, <1>5 DEF ZoneInv
-----------------------------------------------------------------------------
\* What the scripts and the lapse of keys do to the inventory.
LEMMA SellingKeepsInventory ==
  ASSUME RedisTypeOK, KeysHaveSeats, Selling
  PROVE  RedisTypeOK' /\ KeysHaveSeats' /\ (Fits => Fits')
<1> DEFINE seatsOfTaken == Seats(Taken)
<1>0. seatsOfTaken \in Nat
  BY SeatNumbers
<1>1. ASSUME NEW b \in Booking, Reserve(b)
      PROVE  RedisTypeOK' /\ KeysHaveSeats' /\ (Fits => Fits')
  <2>1. ReserveScript(b)
    BY <1>1 DEF Reserve
  <2>2. RedisTypeOK'
    BY <2>1, DeductType DEF RedisTypeOK, ReserveScript
  <2>3. KeysHaveSeats'
    BY <2>1 DEF RedisTypeOK, ReserveScript, Deduct, KeysHaveSeats
  <2>4. Taken' = Taken \cup {b} /\ b \notin Taken
    BY <2>1 DEF RedisTypeOK, ReserveScript, Taken
  <2>5. Seats(Taken \cup {b}) = Seats(Taken) + Qty[b]
    BY <2>4, BookingSets, SeatsAdd DEF Taken
  <2>6. Seats(Taken') = Seats(Taken) + Qty[b]
    BY <2>4, <2>5, Zenon
  <2>7. Fits => Fits'
    BY <2>1, <2>6, <1>0 DEF RedisTypeOK, Fits, ReserveScript, Deduct
  <2> QED
    BY <2>2, <2>3, <2>7
<1>2. ASSUME NEW b \in Booking, Confirm(b)
      PROVE  RedisTypeOK' /\ KeysHaveSeats' /\ (Fits => Fits')
  <2>1. ConfirmScript(b) /\ reservation[b] = "reserved"
    BY <1>2 DEF Confirm, ConfirmScript, ConfirmAnswer, RedisTypeOK
  <2>2. RedisTypeOK' /\ KeysHaveSeats'
    BY <2>1 DEF RedisTypeOK, ConfirmScript, KeysHaveSeats
  <2>3. Fits => Fits'
    BY <2>1 DEF Fits, ConfirmScript, Taken
  <2> QED
    BY <2>2, <2>3
<1>3. ASSUME NEW b \in Booking, Release(b)
      PROVE  RedisTypeOK' /\ KeysHaveSeats' /\ (Fits => Fits')
  <2>1. ReleaseScript(b) /\ reservation[b] = "reserved"
    BY <1>3 DEF Release, ReleaseScript, ReleaseAnswer, RedisTypeOK
  <2>2. RedisTypeOK'
    BY <2>1 DEF RedisTypeOK, ReleaseScript
  <2>3. KeysHaveSeats'
    BY <2>1 DEF RedisTypeOK, ReleaseScript, KeysHaveSeats
  <2>4. Taken' = Taken \ {b} /\ b \in Taken
    BY <2>1 DEF RedisTypeOK, ReleaseScript, Taken, KeysHaveSeats
  <2>5. Seats(Taken \ {b}) = Seats(Taken) - Qty[b]
    BY <2>4, BookingSets, SeatsRemove DEF Taken
  <2>6. Seats(Taken') = Seats(Taken) - Qty[b]
    BY <2>4, <2>5, Zenon
  <2>7. Fits => Fits'
    BY <2>1, <2>6, <1>0 DEF RedisTypeOK, Fits, ReleaseScript
  <2> QED
    BY <2>2, <2>3, <2>7
<1>4. CASE Lapse
  BY <1>4 DEF Lapse, RedisExpiry, ReservationExpires, UserCounterExpires,
              RedisTypeOK, KeysHaveSeats, Fits, Taken
<1>5. ASSUME NEW b \in Booking, Refuse(b) \/ Miss(b) \/ JoinFlight(b)
      PROVE  RedisTypeOK' /\ KeysHaveSeats' /\ (Fits => Fits')
  BY <1>5 DEF Refuse, Miss, JoinFlight, redisVars, RedisTypeOK, KeysHaveSeats, Fits, Taken
<1> QED
  BY <1>1, <1>2, <1>3, <1>4, <1>5 DEF Selling

\* A step that leaves the inventory alone, whoever takes it.
LEMMA InventoryStays ==
  ASSUME UNCHANGED redisVars
  PROVE  /\ RedisTypeOK => RedisTypeOK'
         /\ KeysHaveSeats => KeysHaveSeats'
         /\ Fits => Fits'
BY DEF redisVars, RedisTypeOK, KeysHaveSeats, Fits, Taken

\* Setting or deleting the counter leaves the reservations alone; deleting it
\* takes all seats off sale.
LEMMA CounterMoves ==
  ASSUME ZoneTypeOK, KeysHaveSeats, NEW w \in Writer \cup {Flight}
  PROVE  /\ PutsCounter(w) => RedisTypeOK' /\ KeysHaveSeats'
         /\ DropsCounter => RedisTypeOK' /\ KeysHaveSeats' /\ (Fits => Fits')
<1>1. seen[w] \in Nat
  BY DEF ZoneTypeOK
<1>2. PutsCounter(w) => RedisTypeOK' /\ KeysHaveSeats'
  BY <1>1 DEF PutsCounter, ZoneTypeOK, RedisTypeOK, KeysHaveSeats
<1>3. DropsCounter => RedisTypeOK' /\ KeysHaveSeats'
  BY DEF DropsCounter, ZoneTypeOK, RedisTypeOK, KeysHaveSeats
<1>4. DropsCounter /\ Fits => Fits'
  <2>1. DropsCounter => Taken' = Taken
    BY DEF DropsCounter, Taken
  <2> QED
    BY <2>1, SeatNumbers DEF DropsCounter, Fits, ZoneTypeOK, RedisTypeOK
<1> QED
  BY <1>2, <1>3, <1>4

\* Only a writer about to SET, or the flight, puts another number on sale.
LEMMA InventoryStep ==
  ASSUME ZoneInv, [ZoneNext]_zoneVars
  PROVE  RedisTypeOK' /\ KeysHaveSeats' /\ (Fits => Fits' \/ Synchronises)
<1>0. ZoneTypeOK /\ RedisTypeOK /\ KeysHaveSeats
  BY DEF ZoneInv, ZoneTypeOK
<1>1. CASE Selling
  BY <1>0, <1>1, SellingKeepsInventory
<1>2. ASSUME NEW w \in Writer, SetCounter(w)
      PROVE  RedisTypeOK' /\ KeysHaveSeats' /\ Synchronises
  <2>1. stage[w] = "set" /\ stage'[w] # "set"
    BY <1>0, <1>2 DEF SetCounter, Goes, ZoneTypeOK
  <2> QED
    BY <1>0, <1>2, <2>1, CounterMoves DEF SetCounter, Synchronises
<1>3. CASE FlightSet
  <2>1. stage[Flight] = "set" /\ stage'[Flight] # "set"
    BY <1>0, <1>3 DEF FlightSet, Goes, ZoneTypeOK
  <2> QED
    BY <1>0, <1>3, <2>1, CounterMoves DEF FlightSet, Synchronises
<1>4. ASSUME NEW w \in Writer, RemoveCounter(w)
      PROVE  RedisTypeOK' /\ KeysHaveSeats' /\ (Fits => Fits')
  BY <1>0, <1>4, CounterMoves DEF RemoveCounter
<1>5. ASSUME NEW w \in Writer,
             \/ Resync(w) \/ ShowRead(w) \/ ShowWrite(w) \/ PublishRead(w)
             \/ ZoneRead(w) \/ ZoneWrite(w) \/ ShowCheck(w) \/ Fail(w)
      PROVE  UNCHANGED redisVars
  BY <1>5 DEF Resync, ShowRead, ShowWrite, PublishRead, ZoneRead, ZoneWrite, ShowCheck, Fail
<1>6. CASE Flush \/ FlightRead \/ FlightFails
  BY <1>0, <1>6, InventoryStays DEF Flush, FlightRead, FlightFails
<1>7. CASE UNCHANGED zoneVars
  BY <1>0, <1>7, InventoryStays DEF zoneVars
<1> QED
  BY <1>0, <1>1, <1>2, <1>3, <1>4, <1>5, <1>6, <1>7, InventoryStays DEF ZoneNext, Writing
-----------------------------------------------------------------------------
\* Only the flush and the edit of a zone write the row.  The flush moves seats
\* between its columns; the CHECK stops an edit that would offer too much.
LEMMA TableStep ==
  ASSUME ZoneInv, [ZoneNext]_zoneVars
  PROVE  rowAvailable' \in Nat /\ TableFits'
<1>0. ZoneTypeOK /\ TableFits /\ rowAvailable \in Nat
  BY DEF ZoneInv, ZoneTypeOK
<1>1. CASE Flush
  <2> DEFINE before == Seats(RowTaken)
             after == Seats(RowTaken')
  <2>1. before \in Nat /\ after \in Nat
    BY SeatNumbers
  <2>2. rowAvailable' = rowAvailable + before - after /\ rowAvailable' >= 0
    BY <1>1 DEF Flush
  <2>3. rowAvailable + before <= Capacity
    BY <1>0 DEF TableFits
  <2>4. rowAvailable' \in Nat /\ rowAvailable' + after <= Capacity
    <3> HIDE DEF before, after
    <3> QED
      BY <1>0, <2>1, <2>2, <2>3
  <2> QED
    BY <2>4 DEF TableFits
<1>2. ASSUME NEW w \in Writer, ZoneWrite(w)
      PROVE  rowAvailable' \in Nat /\ TableFits'
  <2>1. RowTaken' = RowTaken
    BY <1>2 DEF ZoneWrite, RowTaken
  <2>2. seen[w] \in Nat
    BY <1>0 DEF ZoneTypeOK
  <2> QED
    BY <1>2, <2>1, <2>2 DEF ZoneWrite, TableFits
<1>3. CASE UNCHANGED <<rowAvailable, synced>>
  BY <1>0, <1>3 DEF TableFits, RowTaken
<1>4. ASSUME NEW w \in Writer, Writing(w), ~ ZoneWrite(w)
      PROVE  UNCHANGED <<rowAvailable, synced>>
  BY <1>4 DEF Writing, Resync, ShowRead, ShowWrite, PublishRead, ZoneRead, ShowCheck,
              SetCounter, RemoveCounter, Fail, tableVars
<1>5. Selling => UNCHANGED <<rowAvailable, synced>>
  BY DEF Selling, Reserve, Refuse, Miss, JoinFlight, Confirm, Release, Lapse, tableVars
<1>6. FlightRead \/ FlightSet \/ FlightFails \/ UNCHANGED zoneVars
        => UNCHANGED <<rowAvailable, synced>>
  BY DEF FlightRead, FlightSet, FlightFails, zoneVars, tableVars
<1> QED
  BY <1>1, <1>2, <1>3, <1>4, <1>5, <1>6 DEF ZoneNext
-----------------------------------------------------------------------------
ControlTypeOK ==
  /\ present \in BOOLEAN
  /\ ~ present => available = 0
  /\ call \in [Booking -> {"start", "missed", "flying", "retry", "done"}]
  /\ synced \in [Booking -> {"unused", "taken", "returned"}]
  /\ onSale \in BOOLEAN
  /\ active \in BOOLEAN
  /\ stage \in [Writer \cup {Flight} -> Stages]
  /\ seen \in [Writer \cup {Flight} -> Nat]

\* A reserve script needs a counter, and a release creates one: without a key
\* no number is on sale.  The rest is typing, one group of actions at a time.
LEMMA ControlStep ==
  ASSUME ZoneTypeOK, [ZoneNext]_zoneVars
  PROVE  ControlTypeOK'
<1>0. ControlTypeOK /\ RedisTypeOK /\ rowAvailable \in Nat
  BY DEF ZoneTypeOK, ControlTypeOK
<1> USE DEF ControlTypeOK
<1>1. ASSUME NEW b \in Booking, Reserve(b) \/ Refuse(b) \/ Miss(b)
      PROVE  ControlTypeOK'
  BY <1>0, <1>1 DEF Reserve, Refuse, Miss, CallGoes, redisVars, tableVars, writerVars
<1>2. ASSUME NEW b \in Booking, Confirm(b) \/ Release(b)
      PROVE  ControlTypeOK'
  BY <1>0, <1>2 DEF Confirm, Release, ConfirmScript, tableVars, writerVars
<1>3. CASE Lapse
  BY <1>0, <1>3 DEF Lapse, RedisExpiry, ReservationExpires, UserCounterExpires,
                    tableVars, writerVars
<1>4. CASE Flush
  BY <1>0, <1>4 DEF Flush, redisVars, writerVars
<1>5. ASSUME NEW w \in Writer,
             Resync(w) \/ ShowRead(w) \/ ShowWrite(w) \/ PublishRead(w)
      PROVE  ControlTypeOK'
  BY <1>0, <1>5 DEF Resync, ShowRead, ShowWrite, PublishRead, ReadsRow, Goes, Stages,
                    Busy, redisVars, tableVars
<1>6. ASSUME NEW w \in Writer, ZoneRead(w) \/ ZoneWrite(w) \/ ShowCheck(w)
      PROVE  ControlTypeOK'
  BY <1>0, <1>6 DEF ZoneRead, ZoneWrite, ShowCheck, Goes, Stages, Busy, redisVars, tableVars
<1>7. ASSUME NEW w \in Writer, SetCounter(w) \/ RemoveCounter(w) \/ Fail(w)
      PROVE  ControlTypeOK'
  <2>1. stage' \in [Writer \cup {Flight} -> Stages]
    BY <1>0, <1>7 DEF SetCounter, RemoveCounter, Fail, Goes, Stages, Busy
  <2>2. seen' \in [Writer \cup {Flight} -> Nat]
    BY <1>0, <1>7 DEF SetCounter, RemoveCounter, Fail, Forgets
  <2>3. present' \in BOOLEAN /\ (~ present' => available' = 0)
    BY <1>0, <1>7 DEF SetCounter, RemoveCounter, Fail, PutsCounter, DropsCounter, redisVars
  <2>4. UNCHANGED <<call, tableVars>>
    BY <1>7 DEF SetCounter, RemoveCounter, Fail
  <2> QED
    BY <1>0, <2>1, <2>2, <2>3, <2>4 DEF tableVars
<1>8. ASSUME NEW b \in Booking, JoinFlight(b)
      PROVE  ControlTypeOK'
  BY <1>0, <1>8 DEF JoinFlight, CallGoes, Stages, Busy, redisVars, tableVars
<1>9. CASE FlightRead
  BY <1>0, <1>9 DEF FlightRead, ReadsRow, Goes, Stages, Busy, redisVars, tableVars
<1>10. CASE FlightSet \/ FlightFails
  <2>1. stage' \in [Writer \cup {Flight} -> Stages]
    BY <1>0, <1>10 DEF FlightSet, FlightFails, Goes, Stages, Busy
  <2>2. seen' \in [Writer \cup {Flight} -> Nat]
    BY <1>0, <1>10 DEF FlightSet, FlightFails, Forgets
  <2>3. present' \in BOOLEAN /\ (~ present' => available' = 0)
    BY <1>0, <1>10 DEF FlightSet, FlightFails, PutsCounter, redisVars
  <2>4. call' \in [Booking -> {"start", "missed", "flying", "retry", "done"}]
    BY <1>0, <1>10 DEF FlightSet, FlightFails, Lands
  <2>5. UNCHANGED tableVars
    BY <1>10 DEF FlightSet, FlightFails
  <2> QED
    BY <1>0, <2>1, <2>2, <2>3, <2>4, <2>5 DEF tableVars
<1>11. CASE UNCHANGED zoneVars
  BY <1>0, <1>11 DEF zoneVars, redisVars, tableVars, writerVars
<1> QED
  BY <1>1, <1>2, <1>3, <1>4, <1>5, <1>6, <1>7, <1>8, <1>9, <1>10, <1>11
  DEF ZoneNext, Selling, Writing

\* The inductive step, put together.
LEMMA ZoneNextInv == ZoneInv /\ [ZoneNext]_zoneVars => ZoneInv'
<1> SUFFICES ASSUME ZoneInv, [ZoneNext]_zoneVars
             PROVE  ZoneInv'
  OBVIOUS
<1>1. RedisTypeOK' /\ KeysHaveSeats'
  BY InventoryStep
<1>2. rowAvailable' \in Nat /\ TableFits'
  BY TableStep
<1>3. ControlTypeOK'
  BY ControlStep DEF ZoneInv
<1> QED
  BY <1>1, <1>2, <1>3 DEF ZoneInv, ZoneTypeOK, ControlTypeOK

\* The invariant of every behaviour, from which the theorems follow.
LEMMA ZoneAlways == ZoneSpec => []ZoneInv
BY ZoneInitInv, ZoneNextInv, PTL DEF ZoneSpec

\* Types of the counter, the table, the calls and the writers; in particular
\* no key, no number on sale (PutsCounter, DropsCounter, Release).
THEOREM ZoneTypeSafe == ZoneSpec => []ZoneTypeOK
<1>1. ZoneInv => ZoneTypeOK
  BY DEF ZoneInv
<1> QED
  BY <1>1, ZoneAlways, PTL

\* However flushes, edits and sales interleave, a table that has caught up
\* with the sales offers only seats nobody has taken.
THEOREM TableSafeWhenCaughtUp == ZoneSpec => []CaughtUpTable
<1>1. ZoneInv => CaughtUpTable
  <2> SUFFICES ASSUME ZoneInv, synced = ledger
               PROVE  rowAvailable + Seats(Taken) <= Capacity
    BY DEF CaughtUpTable
  <2>1. Taken = RowTaken
    BY DEF RowTaken, Taken
  <2> QED
    BY <2>1, Zenon DEF ZoneInv, TableFits
<1> QED
  BY <1>1, ZoneAlways, PTL

\* Whoever oversells a zone has just set its counter from the table: no
\* script, removal, release or lapse does.
THEOREM OnlySyncsCanOversell == ZoneSpec => OnlySyncsOversell
<1>1. ZoneInv /\ [ZoneNext]_zoneVars => [Fits => Fits' \/ Synchronises]_zoneVars
  <2> SUFFICES ASSUME ZoneInv, [ZoneNext]_zoneVars
               PROVE  Fits => Fits' \/ Synchronises
    OBVIOUS
  <2> QED
    BY InventoryStep
<1> QED
  BY <1>1, ZoneAlways, PTL DEF ZoneSpec, OnlySyncsOversell
-----------------------------------------------------------------------------
\* No step of a call, of the table or of a writer touches the flight, and none but
\* joining it makes a caller wait.
LEMMA FlightAlone ==
  ASSUME ZoneTypeOK,
         Selling \/ Flush \/ \E w \in Writer : Writing(w),
         \A b \in Booking : ~ JoinFlight(b)
  PROVE  /\ stage'[Flight] = stage[Flight]
         /\ \A d \in Booking : call'[d] = "flying" => call[d] = "flying"
<1>0. /\ stage \in [Writer \cup {Flight} -> Stages]
      /\ call \in [Booking -> {"start", "missed", "flying", "retry", "done"}]
  BY DEF ZoneTypeOK
<1>1. ASSUME NEW w \in Writer, Writing(w)
      PROVE  stage'[Flight] = stage[Flight] /\ call' = call
  <2>1. CASE Resync(w) \/ ShowRead(w) \/ ShowWrite(w) \/ PublishRead(w)
    BY <1>0, <2>1, FlightAssumption DEF Resync, ShowRead, ShowWrite, PublishRead, ReadsRow, Goes
  <2>2. CASE ZoneRead(w) \/ ZoneWrite(w) \/ ShowCheck(w)
    BY <1>0, <2>2, FlightAssumption DEF ZoneRead, ZoneWrite, ShowCheck, Goes
  <2>3. CASE SetCounter(w) \/ RemoveCounter(w) \/ Fail(w)
    BY <1>0, <2>3, FlightAssumption DEF SetCounter, RemoveCounter, Fail, Goes
  <2> QED
    BY <1>1, <2>1, <2>2, <2>3 DEF Writing
<1>2. ASSUME NEW b \in Booking, Reserve(b) \/ Refuse(b) \/ Miss(b)
      PROVE  stage' = stage /\ \A d \in Booking : call'[d] = "flying" => call[d] = "flying"
  BY <1>0, <1>2 DEF Reserve, Refuse, Miss, CallGoes, writerVars
<1>3. ASSUME Flush \/ Lapse \/ \E b \in Booking : Confirm(b) \/ Release(b)
      PROVE  stage' = stage /\ call' = call
  BY <1>3 DEF Flush, Lapse, Confirm, Release, writerVars
<1> QED
  BY <1>1, <1>2, <1>3 DEF Selling

\* However many callers miss the counter while flights land, fail and start, who
\* waits for a flight (zone_syncer.go) waits for one that is under way.
THEOREM FlightsCarryTheirCallers == ZoneSpec => []FlightCarriesCallers
<1>1. ZoneInit => FlightCarriesCallers
  BY DEF ZoneInit, FlightCarriesCallers
<1>2. ASSUME ZoneTypeOK, FlightCarriesCallers, [ZoneNext]_zoneVars
      PROVE  FlightCarriesCallers'
  <2>0. /\ stage \in [Writer \cup {Flight} -> Stages]
        /\ call \in [Booking -> {"start", "missed", "flying", "retry", "done"}]
    BY <1>2 DEF ZoneTypeOK
  <2>1. CASE \E b \in Booking : JoinFlight(b)
    BY <1>2, <2>0, <2>1 DEF FlightCarriesCallers, JoinFlight
  <2>2. CASE (Selling \/ Flush \/ \E w \in Writer : Writing(w)) /\ \A b \in Booking : ~ JoinFlight(b)
    BY <1>2, <2>2, FlightAlone DEF FlightCarriesCallers
  <2>3. CASE FlightRead
    BY <1>2, <2>0, <2>3 DEF FlightCarriesCallers, FlightRead, ReadsRow, Goes
  <2>4. CASE FlightSet
    BY <2>0, <2>4 DEF FlightCarriesCallers, FlightSet, Goes, Lands
  <2>5. CASE FlightFails
    BY <2>0, <2>5 DEF FlightCarriesCallers, FlightFails, Lands
  <2>6. CASE UNCHANGED zoneVars
    BY <1>2, <2>6 DEF FlightCarriesCallers, zoneVars, writerVars
  <2> QED
    BY <1>2, <2>1, <2>2, <2>3, <2>4, <2>5, <2>6 DEF ZoneNext
<1> QED
  BY <1>1, <1>2, ZoneTypeSafe, PTL DEF ZoneSpec
=============================================================================
