--------------------------- MODULE BookingProofs ----------------------------
(***************************************************************************)
(* Theorems about the booking API, alone and with the background           *)
(* processes, for any number of bookings, calls, idempotency keys and      *)
(* jobs.                                                                   *)
(*                                                                         *)
(* Every step of the API is a step of the Redis inventory or leaves it     *)
(* alone, so the theorems of RedisSeatsProofs hold here too.  On top of    *)
(* them, ApiInv says what a handler that stands between the two stores may *)
(* rely on: what it saw or wrote in Redis is still so.  That holds because *)
(* a settled reservation never changes again (SettledStays).               *)
(*                                                                         *)
(* RowBacked is lost with the processes, because two of them overwrite     *)
(* rows, so what the API promises has to be argued there from Redis alone: *)
(* a reservation that is confirmed or gone never changes again, whoever    *)
(* runs the scripts.  WorkersInv says which of the two a waiting call has  *)
(* seen, and that whoever may confirm a booking has seen its row.          *)
(***************************************************************************)
EXTENDS BookingWorkers, RedisSeatsProofs

USE OpAssumption, TargetAssumption, KeyAssumption, WorkAssumption, SubjectAssumption

\* A row is written after the seats are taken.
RowsHaveSeats == \A b \in Booking : HasRow(b) => ledger[b] # "unused"

\* What is known of a call from how far it has come.
CallKnows(c) ==
  LET b == Target[c] IN
  /\ Op[c] = "reserve" /\ pc[c] = "row" => ledger[b] # "unused"
  /\ Op[c] # "reserve" /\ pc[c] # "start" => HasRow(b)
  /\ Op[c] = "confirm" /\ pc[c] = "row" => reservation[b] = "confirmed"
  /\ Op[c] = "cancel" /\ pc[c] = "row" => reservation[b] = "none"
  /\ Op[c] = "reserve" /\ pc[c] = "ok" => HasRow(b)
  /\ Op[c] = "confirm" /\ pc[c] = "ok" => pg[b] = "confirmed"
  /\ Op[c] = "cancel" /\ pc[c] = "ok" => pg[b] = "cancelled"
  /\ pc[c] = "replayed" => KeyTaken(b)
  /\ c \in published => pc[c] = "ok"

KeysUnique ==
  \A b, d \in Booking :
    HasRow(b) /\ HasRow(d) /\ Key[b] = Key[d] /\ Key[b] # NoKey => b = d

ApiInv ==
  /\ ApiTypeOK
  /\ RowsHaveSeats
  /\ \A c \in Call : CallKnows(c)
  /\ RowBacked
  /\ KeysUnique
-----------------------------------------------------------------------------
\* The API starts from an inventory that has just been published.
LEMMA ApiInitRedis == ApiInit => RedisInit
BY DEF ApiInit

\* An API step runs one script or leaves Redis alone.
LEMMA ApiStepRedis == [ApiNext]_apiVars => [RedisNext]_redisVars
<1> SUFFICES ASSUME [ApiNext]_apiVars
             PROVE  [RedisNext]_redisVars
  OBVIOUS
<1>1. CASE UNCHANGED apiVars
  BY <1>1 DEF apiVars
<1>2. CASE ApiClock
  BY <1>2 DEF ApiClock, RowOverdue, RedisNext
<1>3. ASSUME NEW c \in Call, ApiCall(c)
      PROVE  [RedisNext]_redisVars
  <2>1. Target[c] \in Booking
    OBVIOUS
  <2>2. CASE ApiReserve(c)
    BY <2>1, <2>2 DEF ApiReserve, ReserveLookup, ReserveInRedis, ReserveInRedisAgain,
                      ReserveRow, RedisNext
  <2>3. CASE ApiConfirm(c)
    BY <2>1, <2>3 DEF ApiConfirm, ConfirmRead, ConfirmInRedis, ConfirmRow, RedisNext
  <2>4. CASE ApiCancel(c)
    BY <2>1, <2>4 DEF ApiCancel, CancelRead, CancelInRedis, ReleaseOrGone, CancelRow,
                      RedisNext
  <2>5. CASE Abort(c) \/ Publish(c)
    BY <2>5 DEF Abort, Publish
  <2> QED
    BY <1>3, <2>2, <2>3, <2>4, <2>5 DEF ApiCall
<1> QED
  BY <1>1, <1>2, <1>3 DEF ApiNext

\* The API uses the Redis inventory only as its scripts allow.
THEOREM ApiUsesRedis == ApiSpec => RedisSpec
BY ApiInitRedis, ApiStepRedis, PTL DEF ApiSpec, RedisSpec

\* A reservation that is confirmed stays confirmed, one that is gone stays
\* gone, and a booking that has taken its seats never takes them afresh.
SettledStays ==
  \A b \in Booking :
    /\ reservation[b] = "confirmed" => reservation'[b] = "confirmed"
    /\ ledger[b] # "unused" => ledger'[b] # "unused"
    /\ ledger[b] # "unused" /\ reservation[b] = "none" => reservation'[b] = "none"

\* What is settled in Redis, a sale or a return of seats, stays settled.
LEMMA RedisSettles == RedisInv /\ [RedisNext]_redisVars => SettledStays
<1> SUFFICES ASSUME RedisInv, [RedisNext]_redisVars
             PROVE  SettledStays
  OBVIOUS
<1>0. RedisTypeOK /\ KeysHaveSeats
  BY DEF RedisInv
<1>1. CASE UNCHANGED redisVars
  BY <1>1 DEF redisVars, SettledStays
<1>2. ASSUME NEW b \in Booking, ReserveScript(b)
      PROVE  SettledStays
  BY <1>0, <1>2 DEF ReserveScript, Deduct, SettledStays, RedisTypeOK, KeysHaveSeats
<1>3. ASSUME NEW b \in Booking, ReserveRepeated(b)
      PROVE  SettledStays
  BY <1>0, <1>3 DEF ReserveRepeated, Deduct, SettledStays, RedisTypeOK
<1>4. ASSUME NEW b \in Booking, ConfirmScript(b)
      PROVE  SettledStays
  BY <1>0, <1>4 DEF ConfirmScript, ConfirmAnswer, SettledStays, RedisTypeOK
<1>5. ASSUME NEW b \in Booking, ReleaseScript(b)
      PROVE  SettledStays
  BY <1>0, <1>5 DEF ReleaseScript, ReleaseAnswer, SettledStays, RedisTypeOK
<1>6. ASSUME NEW b \in Booking, ReservationExpires(b)
      PROVE  SettledStays
  BY <1>0, <1>6 DEF ReservationExpires, SettledStays, RedisTypeOK
<1>7. ASSUME NEW u \in User, UserCounterExpires(u)
      PROVE  SettledStays
  BY <1>0, <1>7 DEF UserCounterExpires, SettledStays
<1> QED
  BY <1>1, <1>2, <1>3, <1>4, <1>5, <1>6, <1>7 DEF RedisNext, RedisExpiry
-----------------------------------------------------------------------------
\* Initially there is no row and no call knows anything.
LEMMA ApiInitInv == ApiInit => ApiInv
<1> SUFFICES ASSUME ApiInit
             PROVE  ApiInv
  OBVIOUS
<1>1. ApiTypeOK
  BY RedisInitInv DEF ApiInit, ApiTypeOK, RowStatus, RedisInv
<1>2. RowsHaveSeats /\ RowBacked /\ KeysUnique
  BY DEF ApiInit, RowsHaveSeats, RowBacked, KeysUnique, HasRow
<1>3. \A c \in Call : CallKnows(c)
  BY DEF ApiInit, CallKnows
<1> QED
  BY <1>1, <1>2, <1>3 DEF ApiInv

\* The types of what the API adds to Redis.
LEMMA ApiTypeStep ==
  ASSUME ApiTypeOK, RedisTypeOK', [ApiNext]_apiVars
  PROVE  ApiTypeOK'
<1> USE DEF ApiTypeOK, RowStatus
<1>1. CASE UNCHANGED apiVars
  BY <1>1 DEF apiVars, dbVars
<1>2. CASE ApiClock
  BY <1>2 DEF ApiClock, RowOverdue, dbVars
<1>3. ASSUME NEW c \in Call, ApiCall(c)
      PROVE  ApiTypeOK'
  <2> USE DEF Goes, Replies, dbVars
  <2>1. CASE ApiReserve(c)
    BY <2>1 DEF ApiReserve, ReserveLookup, ReserveInRedis, ReserveInRedisAgain,
                ReserveRow, InsertRow
  <2>2. CASE ApiConfirm(c)
    BY <2>2 DEF ApiConfirm, ConfirmRead, ConfirmInRedis, ConfirmRow, UpdateIfReserved
  <2>3. CASE ApiCancel(c)
    BY <2>3 DEF ApiCancel, CancelRead, CancelInRedis, CancelRow, UpdateIfReserved
  <2>4. CASE Abort(c) \/ Publish(c)
    BY <2>4 DEF Abort, Publish
  <2> QED
    BY <1>3, <2>1, <2>2, <2>3, <2>4 DEF ApiCall
<1> QED
  BY <1>1, <1>2, <1>3 DEF ApiNext
\* Rows are never deleted, and a settled row never changes again.
RowsStay ==
  \A b \in Booking :
    /\ HasRow(b) => HasRow(b)'
    /\ pg[b] \in {"confirmed", "cancelled"} => pg'[b] = pg[b]

\* A step that leaves the rows alone keeps what is said of them.
LEMMA RowsUntouched ==
  ASSUME ApiInv, SettledStays, UNCHANGED pg
  PROVE  RowsStay /\ RowsHaveSeats' /\ RowBacked' /\ KeysUnique'
<1>1. RowsStay /\ KeysUnique'
  BY DEF ApiInv, KeysUnique, RowsStay, HasRow
<1>2. RowsHaveSeats'
  BY DEF ApiInv, RowsHaveSeats, SettledStays, HasRow
<1>3. RowBacked'
  BY DEF ApiInv, RowBacked, RowsHaveSeats, SettledStays, HasRow
<1> QED
  BY <1>1, <1>2, <1>3

\* What a call knows stays true while it waits.
LEMMA CallWaits ==
  ASSUME ApiInv, SettledStays, RowsStay, NEW c \in Call,
         pc'[c] = pc[c], c \in published' => c \in published
  PROVE  CallKnows(c)'
<1> DEFINE b == Target[c]
<1>1. b \in Booking /\ CallKnows(c) /\ (HasRow(b) => ledger[b] # "unused")
  BY DEF ApiInv, RowsHaveSeats
<1>2. KeyTaken(b) => KeyTaken(b)'
  BY DEF KeyTaken, RowsStay
<1>3. /\ HasRow(b) => HasRow(b)'
      /\ pg[b] \in {"confirmed", "cancelled"} => pg'[b] = pg[b]
      /\ reservation[b] = "confirmed" => reservation'[b] = "confirmed"
      /\ ledger[b] # "unused" => ledger'[b] # "unused"
      /\ ledger[b] # "unused" /\ reservation[b] = "none" => reservation'[b] = "none"
  BY <1>1 DEF RowsStay, SettledStays
<1> QED
  BY <1>1, <1>2, <1>3 DEF CallKnows

\* A step of one call that leaves the rows alone keeps the invariant if what
\* that call knows next is so.
LEMMA CallAdvances ==
  ASSUME ApiInv, SettledStays, ApiTypeOK', NEW c \in Call, NEW to,
         UNCHANGED pg, pc' = [pc EXCEPT ![c] = to], UNCHANGED published,
         CallKnows(c)'
  PROVE  ApiInv'
<1>1. RowsStay /\ RowsHaveSeats' /\ RowBacked' /\ KeysUnique'
  BY RowsUntouched
<1>2. ASSUME NEW d \in Call
      PROVE  CallKnows(d)'
  <2>1. CASE d = c
    BY <2>1
  <2>2. CASE d # c
    <3>1. pc'[d] = pc[d]
      BY <2>2 DEF ApiInv, ApiTypeOK
    <3> QED
      BY <1>1, <3>1, CallWaits
  <2> QED
    BY <2>1, <2>2
<1> QED
  BY <1>1, <1>2 DEF ApiInv

\* A call that waits to write a row, once the row is written.
LEMMA RowWritten ==
  ASSUME ApiInv, SettledStays, ApiTypeOK', NEW c \in Call, Replies(c),
         RowsStay, UNCHANGED published,
         RowsHaveSeats', RowBacked', KeysUnique',
         Op[c] = "reserve" => HasRow(Target[c])',
         Op[c] = "confirm" => pg'[Target[c]] = "confirmed",
         Op[c] = "cancel" => pg'[Target[c]] = "cancelled"
  PROVE  ApiInv'
<1>1. pc[c] = "row" /\ pc' \in {[pc EXCEPT ![c] = "ok"], [pc EXCEPT ![c] = "failed"]}
  BY DEF Replies, Goes
<1>2. CallKnows(c)'
  <2>1. Target[c] \in Booking /\ CallKnows(c) /\ pc'[c] \in {"ok", "failed"}
    BY <1>1 DEF ApiInv, ApiTypeOK
  <2>2. Op[c] # "reserve" => HasRow(Target[c])'
    BY <1>1, <2>1 DEF CallKnows, RowsStay
  <2> QED
    BY <1>1, <2>1, <2>2 DEF CallKnows
<1>3. ASSUME NEW d \in Call, d # c
      PROVE  CallKnows(d)'
  <2>1. pc'[d] = pc[d]
    BY <1>1, <1>3 DEF ApiInv, ApiTypeOK
  <2> QED
    BY <2>1, CallWaits
<1> QED
  BY <1>2, <1>3 DEF ApiInv
-----------------------------------------------------------------------------
\* The inductive step for a reserve call.
LEMMA ReserveStep ==
  ASSUME ApiInv, SettledStays, RedisInv', ApiTypeOK', NEW c \in Call, ApiReserve(c)
  PROVE  ApiInv'
<1> DEFINE b == Target[c]
<1>0. /\ b \in Booking /\ CallKnows(c)
      /\ \A to : [pc EXCEPT ![c] = to][c] = to
  BY DEF ApiInv, ApiTypeOK
<1>1. CASE ReserveLookup(c)
  <2>1. UNCHANGED pg /\ UNCHANGED published /\ pc[c] = "start" /\ Op[c] = "reserve"
    BY <1>1 DEF ReserveLookup, dbVars, Goes
  <2>2. KeyTaken(b)' <=> KeyTaken(b)
    BY <2>1 DEF KeyTaken, HasRow
  <2>3. PICK to : /\ pc' = [pc EXCEPT ![c] = to]
                  /\ to = IF KeyTaken(b) THEN "replayed" ELSE "script"
    BY <1>1 DEF ReserveLookup, Goes
  <2>4. CallKnows(c)'
    BY <1>0, <2>1, <2>2, <2>3 DEF CallKnows
  <2> QED
    BY <2>1, <2>3, <2>4, CallAdvances
<1>2. CASE ReserveInRedis(c)
  <2>1. /\ UNCHANGED pg /\ UNCHANGED published /\ pc[c] = "script" /\ Op[c] = "reserve"
        /\ pc' = [pc EXCEPT ![c] = "row"]
    BY <1>2 DEF ReserveInRedis, dbVars, Goes
  <2>2. ledger'[b] # "unused"
    BY <1>0, <1>2 DEF ReserveInRedis, ReserveScript, ApiInv, ApiTypeOK, RedisTypeOK
  <2>3. CallKnows(c)'
    BY <1>0, <2>1, <2>2 DEF CallKnows
  <2> QED
    BY <2>1, <2>3, CallAdvances
<1>3. CASE ReserveInRedisAgain(c)
  <2>1. UNCHANGED <<pg, pc, published>>
    BY <1>3 DEF ReserveInRedisAgain, dbVars
  <2>2. RowsStay /\ RowsHaveSeats' /\ RowBacked' /\ KeysUnique'
    BY <2>1, RowsUntouched
  <2>3. \A d \in Call : CallKnows(d)'
    BY <2>1, <2>2, CallWaits
  <2> QED
    BY <2>2, <2>3 DEF ApiInv
<1>4. CASE ReserveRow(c)
  <2>1. /\ Replies(c) /\ Op[c] = "reserve" /\ pc[c] = "row" /\ ~ HasRow(b) /\ ~ KeyTaken(b)
        /\ pg' = [pg EXCEPT ![b] = "reserved"] /\ UNCHANGED <<ledger, reservation, published>>
    BY <1>4 DEF ReserveRow, InsertRow, Replies, Goes, redisVars
  <2>2. RowsStay /\ HasRow(b)'
    BY <1>0, <2>1 DEF RowsStay, HasRow, ApiInv, ApiTypeOK
  <2>3. RowsHaveSeats'
    BY <1>0, <2>1 DEF RowsHaveSeats, CallKnows, HasRow, ApiInv, ApiTypeOK
  <2>4. RowBacked'
    BY <1>0, <2>1 DEF RowBacked, ApiInv, ApiTypeOK
  <2>5. KeysUnique'
    BY <1>0, <2>1 DEF KeysUnique, KeyTaken, HasRow, ApiInv, ApiTypeOK
  <2> QED
    BY <2>1, <2>2, <2>3, <2>4, <2>5, RowWritten
<1> QED
  BY <1>1, <1>2, <1>3, <1>4 DEF ApiReserve

\* The inductive step for a confirm call.
LEMMA ConfirmStep ==
  ASSUME ApiInv, SettledStays, RedisInv', ApiTypeOK', NEW c \in Call, ApiConfirm(c)
  PROVE  ApiInv'
<1> DEFINE b == Target[c]
<1>0. /\ b \in Booking /\ CallKnows(c) /\ Op[c] = "confirm"
      /\ \A to : [pc EXCEPT ![c] = to][c] = to
  BY DEF ApiInv, ApiTypeOK, ApiConfirm, ConfirmRead, ConfirmInRedis, ConfirmRow
<1>1. CASE ConfirmRead(c)
  <2>1. /\ UNCHANGED pg /\ UNCHANGED published /\ pc[c] = "start" /\ HasRow(b)
        /\ pc' = [pc EXCEPT ![c] = "script"]
    BY <1>1 DEF ConfirmRead, dbVars, Goes
  <2>2. CallKnows(c)'
    BY <1>0, <2>1 DEF CallKnows, HasRow
  <2> QED
    BY <2>1, <2>2, CallAdvances
<1>2. CASE ConfirmInRedis(c)
  <2>1. /\ UNCHANGED pg /\ UNCHANGED published /\ pc[c] = "script"
        /\ pc' = [pc EXCEPT ![c] = "row"]
    BY <1>2 DEF ConfirmInRedis, dbVars, Goes
  <2>2. reservation'[b] = "confirmed"
    BY <1>0, <1>2 DEF ConfirmInRedis, ConfirmScript, ApiInv, ApiTypeOK, RedisTypeOK
  <2>3. CallKnows(c)'
    BY <1>0, <2>1, <2>2 DEF CallKnows, HasRow
  <2> QED
    BY <2>1, <2>3, CallAdvances
<1>3. CASE ConfirmRow(c)
  <2>1. /\ Replies(c) /\ pc[c] = "row" /\ pg[b] = "reserved"
        /\ pg' = [pg EXCEPT ![b] = "confirmed"] /\ UNCHANGED <<ledger, reservation, published>>
    BY <1>3 DEF ConfirmRow, UpdateIfReserved, Replies, Goes, redisVars
  <2>2. RowsStay /\ pg'[b] = "confirmed"
    BY <1>0, <2>1 DEF RowsStay, HasRow, ApiInv, ApiTypeOK
  <2>3. RowsHaveSeats'
    BY <1>0, <2>1 DEF RowsHaveSeats, HasRow, ApiInv, ApiTypeOK
  <2>4. RowBacked'
    BY <1>0, <2>1 DEF RowBacked, CallKnows, ApiInv, ApiTypeOK
  <2>5. KeysUnique'
    BY <1>0, <2>1 DEF KeysUnique, HasRow, ApiInv, ApiTypeOK
  <2> QED
    BY <1>0, <2>1, <2>2, <2>3, <2>4, <2>5, RowWritten
<1> QED
  BY <1>1, <1>2, <1>3 DEF ApiConfirm

\* The inductive step for a cancel call.
LEMMA CancelStep ==
  ASSUME ApiInv, SettledStays, RedisInv', ApiTypeOK', NEW c \in Call, ApiCancel(c)
  PROVE  ApiInv'
<1> DEFINE b == Target[c]
<1>0. /\ b \in Booking /\ CallKnows(c) /\ Op[c] = "cancel"
      /\ \A to : [pc EXCEPT ![c] = to][c] = to
  BY DEF ApiInv, ApiTypeOK, ApiCancel, CancelRead, CancelInRedis, CancelRow
<1>1. CASE CancelRead(c)
  <2>1. /\ UNCHANGED pg /\ UNCHANGED published /\ pc[c] = "start" /\ HasRow(b)
        /\ pc' = [pc EXCEPT ![c] = "script"]
    BY <1>1 DEF CancelRead, dbVars, Goes
  <2>2. CallKnows(c)'
    BY <1>0, <2>1 DEF CallKnows, HasRow
  <2> QED
    BY <2>1, <2>2, CallAdvances
<1>2. CASE CancelInRedis(c)
  <2>1. /\ UNCHANGED pg /\ UNCHANGED published /\ pc[c] = "script"
        /\ pc' = [pc EXCEPT ![c] = "row"] /\ ReleaseOrGone(b)
    BY <1>2 DEF CancelInRedis, dbVars, Goes
  <2>2. reservation'[b] = "none"
    <3>1. CASE ReleaseScript(b)
      BY <1>0, <3>1 DEF ReleaseScript, ApiInv, ApiTypeOK, RedisTypeOK
    <3>2. CASE ReleaseAnswer(b) = "RESERVATION_NOT_FOUND" /\ UNCHANGED redisVars
      BY <1>0, <3>2 DEF ReleaseAnswer, redisVars, ApiInv, ApiTypeOK, RedisTypeOK
    <3> QED
      BY <2>1, <3>1, <3>2 DEF ReleaseOrGone
  <2>3. CallKnows(c)'
    BY <1>0, <2>1, <2>2 DEF CallKnows, HasRow
  <2> QED
    BY <2>1, <2>3, CallAdvances
<1>3. CASE CancelRow(c)
  <2>1. /\ Replies(c) /\ pc[c] = "row" /\ pg[b] = "reserved"
        /\ pg' = [pg EXCEPT ![b] = "cancelled"] /\ UNCHANGED <<ledger, reservation, published>>
    BY <1>3 DEF CancelRow, UpdateIfReserved, Replies, Goes, redisVars
  <2>2. RowsStay /\ pg'[b] = "cancelled"
    BY <1>0, <2>1 DEF RowsStay, HasRow, ApiInv, ApiTypeOK
  <2>3. RowsHaveSeats'
    BY <1>0, <2>1 DEF RowsHaveSeats, HasRow, ApiInv, ApiTypeOK
  <2>4. RowBacked'
    BY <1>0, <2>1 DEF RowBacked, CallKnows, ApiInv, ApiTypeOK
  <2>5. KeysUnique'
    BY <1>0, <2>1 DEF KeysUnique, HasRow, ApiInv, ApiTypeOK
  <2> QED
    BY <1>0, <2>1, <2>2, <2>3, <2>4, <2>5, RowWritten
<1> QED
  BY <1>1, <1>2, <1>3 DEF ApiCancel

\* The clock touches no row and no call.
LEMMA ClockStep ==
  ASSUME ApiInv, SettledStays, ApiTypeOK', ApiClock
  PROVE  ApiInv'
<1>1. UNCHANGED <<pg, pc, published>>
  BY DEF ApiClock, RowOverdue, dbVars
<1>2. RowsStay /\ RowsHaveSeats' /\ RowBacked' /\ KeysUnique'
  BY <1>1, RowsUntouched
<1>3. \A c \in Call : CallKnows(c)'
  BY <1>1, <1>2, CallWaits
<1> QED
  BY <1>2, <1>3 DEF ApiInv

\* The inductive step of the whole API.
LEMMA ApiNextInv ==
  RedisInv /\ RedisInv' /\ ApiInv /\ [ApiNext]_apiVars => ApiInv'
<1> SUFFICES ASSUME RedisInv, RedisInv', ApiInv, [ApiNext]_apiVars
             PROVE  ApiInv'
  OBVIOUS
<1>1. SettledStays
  BY ApiStepRedis, RedisSettles
<1>2. ApiTypeOK'
  BY ApiTypeStep DEF ApiInv, RedisInv
<1>3. CASE UNCHANGED apiVars
  <2>1. UNCHANGED <<pg, pc, published>>
    BY <1>3 DEF apiVars, dbVars
  <2>2. RowsStay /\ RowsHaveSeats' /\ RowBacked' /\ KeysUnique'
    BY <1>1, <2>1, RowsUntouched
  <2>3. \A c \in Call : CallKnows(c)'
    BY <1>1, <2>1, <2>2, CallWaits
  <2> QED
    BY <1>2, <2>2, <2>3 DEF ApiInv
<1>4. ASSUME NEW c \in Call, ApiCall(c)
      PROVE  ApiInv'
  <2>1. CASE ApiReserve(c) \/ ApiConfirm(c) \/ ApiCancel(c)
    BY <1>1, <1>2, <2>1, ReserveStep, ConfirmStep, CancelStep
  <2>2. CASE Abort(c)
    <3>1. /\ UNCHANGED pg /\ UNCHANGED published /\ pc[c] \in {"script", "row"}
          /\ pc' = [pc EXCEPT ![c] = "failed"]
      BY <2>2 DEF Abort, Goes, dbVars
    <3>2. CallKnows(c)'
      BY <3>1 DEF ApiInv, ApiTypeOK, CallKnows, HasRow
    <3> QED
      BY <1>1, <1>2, <3>1, <3>2, CallAdvances
  <2>3. CASE Publish(c)
    <3>1. /\ UNCHANGED pg /\ UNCHANGED pc /\ pc[c] = "ok"
          /\ published' = published \cup {c}
      BY <2>3 DEF Publish, dbVars
    <3>2. RowsStay /\ RowsHaveSeats' /\ RowBacked' /\ KeysUnique'
      BY <1>1, <3>1, RowsUntouched
    <3>3. ASSUME NEW d \in Call, d # c
          PROVE  CallKnows(d)'
      BY <1>1, <3>1, <3>2, <3>3, CallWaits
    <3>4. CallKnows(c)'
      BY <3>1 DEF ApiInv, CallKnows, HasRow
    <3> QED
      BY <1>2, <3>2, <3>3, <3>4 DEF ApiInv
  <2> QED
    BY <1>4, <2>1, <2>2, <2>3 DEF ApiCall
<1>5. CASE ApiClock
  BY <1>1, <1>2, <1>5, ClockStep
<1> QED
  BY <1>3, <1>4, <1>5 DEF ApiNext
-----------------------------------------------------------------------------
\* The invariants of every behaviour, from which the theorems follow.
LEMMA ApiAlways == ApiSpec => []RedisInv /\ []ApiInv
<1>1. ApiSpec => []RedisInv
  BY ApiUsesRedis, RedisInitInv, RedisNextInv, PTL DEF RedisSpec
<1> QED
  BY <1>1, ApiInitInv, ApiNextInv, PTL DEF ApiSpec

\* Types of both stores and of the calls.
THEOREM ApiTypeSafe == ApiSpec => []ApiTypeOK
<1>1. ApiInv => ApiTypeOK
  BY DEF ApiInv
<1> QED
  BY <1>1, ApiAlways, PTL

\* A confirmed row is backed by seats sold in Redis, a cancelled row has none.
THEOREM RowsBacked == ApiSpec => []RowBacked
<1>1. ApiInv => RowBacked
  BY DEF ApiInv
<1> QED
  BY <1>1, ApiAlways, PTL

\* No acknowledged answer and no published event is contradicted by the row.
THEOREM AnswersKept == ApiSpec => []AnswersStand
<1>1. ApiInv => AnswersStand
  BY DEF ApiInv, CallKnows, AnswersStand, Told
<1> QED
  BY <1>1, ApiAlways, PTL

\* A request that is repeated with its idempotency key buys one booking.
THEOREM KeyBuysOneBooking == ApiSpec => []OneBookingPerKey
<1>1. ApiInv => OneBookingPerKey
  BY DEF ApiInv, CallKnows, KeysUnique, OneBookingPerKey
<1> QED
  BY <1>1, ApiAlways, PTL

\* No overselling: seats on sale, reserved and confirmed on record fit the zone.
THEOREM ApiSeatsFit == ApiSpec => []SeatsFit
<1>1. RedisInv /\ ApiInv => SeatsFit
  <2> SUFFICES ASSUME RedisInv, ApiInv
               PROVE  SeatsFit
    OBVIOUS
  <2>1. Live \in SUBSET Taken /\ Live \in SUBSET Booking /\ Taken \in SUBSET Booking
    BY DEF Live, Taken, RedisInv, KeysHaveSeats, ApiInv, RowBacked
  <2>2. Seats(Live) <= Seats(Taken) /\ Seats(Live) \in Nat /\ Seats(Taken) \in Nat
    BY <2>1, BookingSets, SeatsMonotone
  <2> QED
    BY <2>2 DEF SeatsFit, RedisInv, RedisTypeOK, SeatConservation
<1> QED
  BY <1>1, ApiAlways, PTL
-----------------------------------------------------------------------------
\* What is known of a call from how far it has come, whatever the jobs do.
CallHolds(c) ==
  LET b == Target[c] IN
  /\ Op[c] = "reserve" /\ pc[c] = "row" => ledger[b] # "unused"
  /\ Op[c] # "reserve" /\ pc[c] # "start" => HasRow(b)
  /\ Op[c] = "confirm" /\ pc[c] \in {"row", "ok"} => reservation[b] = "confirmed"
  /\ Op[c] = "cancel" /\ pc[c] \in {"row", "ok"} => reservation[b] = "none"
  /\ c \in published => pc[c] = "ok"

\* What is known of a job from how far it has come.
JobHolds(j) ==
  LET b == Subject[j] IN
  /\ Work[j] = "sagaReserve" /\ stage[j] = "row" => ledger[b] # "unused"
  /\ Work[j] = "sagaConfirm" /\ stage[j] # "idle" => HasRow(b)

WorkersInv ==
  /\ WorkersTypeOK
  /\ RowsHaveSeats
  /\ SalesOnRecord
  /\ \A c \in Call : CallHolds(c)
  /\ \A j \in Job : JobHolds(j)
-----------------------------------------------------------------------------
\* Whoever moves, Redis sees one of its own steps or none.
LEMMA WorkersStepRedis == [WorkersNext]_workersVars => [RedisNext]_redisVars
<1> SUFFICES ASSUME [WorkersNext]_workersVars
             PROVE  [RedisNext]_redisVars
  OBVIOUS
<1>1. CASE UNCHANGED workersVars
  BY <1>1 DEF workersVars, apiVars
<1>2. CASE ApiNext
  BY <1>2, ApiStepRedis
<1>3. ASSUME NEW j \in Job, JobStep(j)
      PROVE  [RedisNext]_redisVars
  <2> USE DEF OnlyMoves, apiVars
  <2>1. Subject[j] \in Booking
    OBVIOUS
  <2>2. CASE SagaStep(j)
    BY <2>1, <2>2 DEF SagaStep, SagaReserveInRedis, SagaReserveInRedisAgain, SagaReserveRow,
                      SagaRelease, SagaConfirmRead, SagaConfirmInRedis, SagaConfirmRow, RedisNext
  <2>3. CASE SeatReleaseStep(j)
    BY <2>1, <2>3 DEF SeatReleaseStep, SeatReleaseRead, SeatReleaseInRedis, SeatReleaseRow,
                      RedisNext
  <2>4. CASE ExpireStep(j)
    BY <2>1, <2>4 DEF ExpireStep, ExpireFetch, ExpireInRedis, ExpireRow, RedisNext
  <2>5. CASE JobAborts(j)
    BY <2>5 DEF JobAborts
  <2> QED
    BY <1>3, <2>2, <2>3, <2>4, <2>5 DEF JobStep
<1> QED
  BY <1>1, <1>2, <1>3 DEF WorkersNext

\* Initially no call and no job knows anything.
LEMMA WorkersInitInv == WorkersInit => RedisInv /\ WorkersInv
<1> SUFFICES ASSUME WorkersInit
             PROVE  RedisInv /\ WorkersInv
  OBVIOUS
<1>1. RedisInv /\ ApiInv
  BY RedisInitInv, ApiInitInv, ApiInitRedis DEF WorkersInit
<1>2. WorkersTypeOK
  BY <1>1 DEF WorkersInit, WorkersTypeOK, ApiInv
<1>3. RowsHaveSeats /\ SalesOnRecord
  BY <1>1 DEF ApiInv, WorkersInit, ApiInit, RedisInit, SalesOnRecord
<1>4. (\A c \in Call : CallHolds(c)) /\ (\A j \in Job : JobHolds(j))
  BY DEF WorkersInit, ApiInit, CallHolds, JobHolds
<1> QED
  BY <1>1, <1>2, <1>3, <1>4 DEF WorkersInv

\* The types of what the jobs add.
LEMMA WorkersTypeStep ==
  ASSUME WorkersTypeOK, RedisTypeOK', [WorkersNext]_workersVars
  PROVE  WorkersTypeOK'
<1> USE DEF WorkersTypeOK
<1>1. CASE UNCHANGED workersVars
  <2>1. [ApiNext]_apiVars
    BY <1>1 DEF workersVars
  <2> QED
    BY <1>1, <2>1, ApiTypeStep DEF workersVars
<1>2. CASE ApiNext /\ UNCHANGED stage
  BY <1>2, ApiTypeStep
<1>3. ASSUME NEW j \in Job, JobStep(j)
      PROVE  WorkersTypeOK'
  <2>1. stage' \in [Job -> {"idle", "redis", "row"}]
    BY <1>3 DEF JobStep, SagaStep, SeatReleaseStep, ExpireStep, JobAborts, OnlyMoves, Moves,
       SagaReserveInRedis, SagaReserveInRedisAgain, SagaReserveRow, SagaRelease,
       SagaConfirmRead, SagaConfirmInRedis, SagaConfirmRow,
       SeatReleaseRead, SeatReleaseInRedis, SeatReleaseRow,
       ExpireFetch, ExpireInRedis, ExpireRow
  <2>2. UNCHANGED <<pc, published, overdue>>
    BY <1>3 DEF JobStep, SagaStep, SeatReleaseStep, ExpireStep, JobAborts, OnlyMoves,
       apiVars, dbVars,
       SagaReserveInRedis, SagaReserveInRedisAgain, SagaReserveRow, SagaRelease,
       SagaConfirmRead, SagaConfirmInRedis, SagaConfirmRow,
       SeatReleaseRead, SeatReleaseInRedis, SeatReleaseRow,
       ExpireFetch, ExpireInRedis, ExpireRow
  <2>3. pg' \in [Booking -> RowStatus]
    BY <1>3 DEF JobStep, SagaStep, SeatReleaseStep, ExpireStep, JobAborts, OnlyMoves,
       apiVars, dbVars, ApiTypeOK, RowStatus, InsertRow, OverwriteRow, UpdateIfReserved,
       SagaReserveInRedis, SagaReserveInRedisAgain, SagaReserveRow, SagaRelease,
       SagaConfirmRead, SagaConfirmInRedis, SagaConfirmRow,
       SeatReleaseRead, SeatReleaseInRedis, SeatReleaseRow,
       ExpireFetch, ExpireInRedis, ExpireRow
  <2> QED
    BY <2>1, <2>2, <2>3 DEF ApiTypeOK
<1> QED
  BY <1>1, <1>2, <1>3 DEF WorkersNext
-----------------------------------------------------------------------------
\* Rows are never deleted, and are inserted after the seats are taken.
RowStep(b) ==
  /\ HasRow(b) => HasRow(b)'
  /\ HasRow(b)' => HasRow(b) \/ ledger[b] # "unused"

\* How the rows may change, whoever writes them.
LEMMA RowSteps ==
  ASSUME WorkersInv, [WorkersNext]_workersVars
  PROVE  \A b \in Booking : RowStep(b)
<1>0. pg \in [Booking -> RowStatus]
  BY DEF WorkersInv, WorkersTypeOK, ApiTypeOK
<1>1. CASE UNCHANGED pg
  BY <1>1 DEF RowStep, HasRow
<1>2. ASSUME NEW b \in Booking, NEW status \in {"reserved", "confirmed", "cancelled"},
             pg' = [pg EXCEPT ![b] = status], HasRow(b) \/ ledger[b] # "unused"
      PROVE  \A d \in Booking : RowStep(d)
  BY <1>0, <1>2 DEF RowStep, HasRow
<1>3. ASSUME NEW b \in Booking, UpdateIfReserved(b, "expired")
      PROVE  \A d \in Booking : RowStep(d)
  BY <1>0, <1>3 DEF UpdateIfReserved, RowStep, HasRow
<1>4. ASSUME NEW c \in Call, ApiCall(c)
      PROVE  \A b \in Booking : RowStep(b)
  <2> DEFINE b == Target[c]
  <2>1. b \in Booking /\ CallHolds(c)
    BY DEF WorkersInv
  <2>2. CASE ReserveRow(c)
    BY <1>2, <2>1, <2>2 DEF ReserveRow, InsertRow, Replies, Goes, CallHolds
  <2>3. CASE ConfirmRow(c)
    BY <1>2, <2>1, <2>3 DEF ConfirmRow, UpdateIfReserved, HasRow
  <2>4. CASE CancelRow(c)
    BY <1>2, <2>1, <2>4 DEF CancelRow, UpdateIfReserved, HasRow
  <2>5. CASE ~ (ReserveRow(c) \/ ConfirmRow(c) \/ CancelRow(c))
    BY <1>1, <1>4, <2>5
    DEF ApiCall, ApiReserve, ApiConfirm, ApiCancel, dbVars, ReserveLookup, ReserveInRedis,
        ReserveInRedisAgain, ConfirmRead, ConfirmInRedis, CancelRead, CancelInRedis,
        Abort, Publish
  <2> QED
    BY <2>2, <2>3, <2>4, <2>5
<1>5. ASSUME NEW j \in Job, JobStep(j)
      PROVE  \A b \in Booking : RowStep(b)
  <2> DEFINE b == Subject[j]
  <2>1. b \in Booking /\ JobHolds(j)
    BY DEF WorkersInv
  <2>2. CASE SagaReserveRow(j)
    BY <1>2, <2>1, <2>2 DEF SagaReserveRow, InsertRow, Moves, JobHolds
  <2>3. CASE SagaConfirmRow(j)
    BY <1>2, <2>1, <2>3 DEF SagaConfirmRow, OverwriteRow
  <2>4. CASE SeatReleaseRow(j)
    BY <1>2, <2>1, <2>4 DEF SeatReleaseRow, OverwriteRow
  <2>5. CASE ExpireRow(j)
    BY <1>3, <2>1, <2>5 DEF ExpireRow
  <2>6. CASE ~ (SagaReserveRow(j) \/ SagaConfirmRow(j) \/ SeatReleaseRow(j) \/ ExpireRow(j))
    BY <1>1, <1>5, <2>6
    DEF JobStep, SagaStep, SeatReleaseStep, ExpireStep, JobAborts, OnlyMoves, apiVars, dbVars,
        SagaReserveInRedis, SagaReserveInRedisAgain, SagaRelease, SagaConfirmRead,
        SagaConfirmInRedis, SeatReleaseRead, SeatReleaseInRedis, ExpireFetch, ExpireInRedis
  <2> QED
    BY <2>2, <2>3, <2>4, <2>5, <2>6
<1>6. CASE ApiClock
  BY <1>1, <1>6 DEF ApiClock, RowOverdue, dbVars
<1>7. CASE UNCHANGED workersVars
  BY <1>1, <1>7 DEF workersVars, apiVars, dbVars
<1> QED
  BY <1>4, <1>5, <1>6, <1>7 DEF WorkersNext, ApiNext

\* A reservation is confirmed only by somebody who has seen its row.
LEMMA SaleSteps ==
  ASSUME WorkersInv, [WorkersNext]_workersVars, NEW b \in Booking,
         reservation'[b] = "confirmed"
  PROVE  reservation[b] = "confirmed" \/ HasRow(b)
<1>0. reservation \in [Booking -> {"none", "reserved", "confirmed"}]
  BY DEF WorkersInv, WorkersTypeOK, ApiTypeOK, RedisTypeOK
<1>1. ASSUME NEW d \in Booking, ConfirmScript(d), HasRow(d)
      PROVE  reservation[b] = "confirmed" \/ HasRow(b)
  BY <1>0, <1>1 DEF ConfirmScript
<1>2. ASSUME NEW d \in Booking, ReserveScript(d) \/ ReserveRepeated(d) \/ ReleaseScript(d)
      PROVE  reservation[b] = "confirmed" \/ HasRow(b)
  BY <1>0, <1>2 DEF ReserveScript, ReserveRepeated, Deduct, ReleaseScript
<1>3. CASE RedisExpiry
  BY <1>0, <1>3 DEF RedisExpiry, ReservationExpires, UserCounterExpires
<1>4. CASE UNCHANGED redisVars
  BY <1>4 DEF redisVars
<1>5. ASSUME NEW c \in Call, ApiCall(c)
      PROVE  reservation[b] = "confirmed" \/ HasRow(b)
  <2>1. Target[c] \in Booking /\ CallHolds(c)
    BY DEF WorkersInv
  <2>2. CASE ConfirmInRedis(c)
    BY <1>1, <2>1, <2>2 DEF ConfirmInRedis, Goes, CallHolds
  <2>3. CASE ReserveInRedis(c) \/ ReserveInRedisAgain(c) \/ CancelInRedis(c)
    BY <1>2, <1>4, <2>1, <2>3
    DEF ReserveInRedis, ReserveInRedisAgain, CancelInRedis, ReleaseOrGone
  <2>4. CASE UNCHANGED redisVars
    BY <1>4, <2>4
  <2> QED
    BY <1>5, <2>2, <2>3, <2>4
    DEF ApiCall, ApiReserve, ApiConfirm, ApiCancel, ReserveLookup, ReserveRow, ConfirmRead,
        ConfirmRow, CancelRead, CancelRow, Abort, Publish
<1>6. ASSUME NEW j \in Job, JobStep(j)
      PROVE  reservation[b] = "confirmed" \/ HasRow(b)
  <2>1. Subject[j] \in Booking /\ JobHolds(j)
    BY DEF WorkersInv
  <2>2. CASE SagaConfirmInRedis(j)
    BY <1>1, <1>4, <2>1, <2>2 DEF SagaConfirmInRedis, Moves, JobHolds
  <2>3. CASE \/ SagaReserveInRedis(j) \/ SagaReserveInRedisAgain(j) \/ SagaRelease(j)
             \/ SeatReleaseInRedis(j) \/ ExpireInRedis(j)
    BY <1>2, <1>4, <2>1, <2>3
    DEF SagaReserveInRedis, SagaReserveInRedisAgain, SagaRelease, SeatReleaseInRedis,
        ExpireInRedis
  <2>4. CASE UNCHANGED redisVars
    BY <1>4, <2>4
  <2> QED
    BY <1>6, <2>2, <2>3, <2>4
    DEF JobStep, SagaStep, SeatReleaseStep, ExpireStep, JobAborts, OnlyMoves, apiVars,
        SagaReserveRow, SagaConfirmRead, SagaConfirmRow, SeatReleaseRead, SeatReleaseRow,
        ExpireFetch, ExpireRow
<1>7. CASE ApiClock
  BY <1>3, <1>4, <1>7 DEF ApiClock, RowOverdue
<1>8. CASE UNCHANGED workersVars
  BY <1>4, <1>8 DEF workersVars, apiVars
<1> QED
  BY <1>5, <1>6, <1>7, <1>8 DEF WorkersNext, ApiNext
-----------------------------------------------------------------------------
\* What a call holds to stays true while it waits.
LEMMA CallStays ==
  ASSUME WorkersInv, SettledStays, \A b \in Booking : RowStep(b), NEW c \in Call,
         pc'[c] = pc[c], c \in published' => c \in published
  PROVE  CallHolds(c)'
<1> DEFINE b == Target[c]
<1>1. b \in Booking /\ CallHolds(c) /\ (HasRow(b) => ledger[b] # "unused")
  BY DEF WorkersInv, RowsHaveSeats
<1>2. /\ HasRow(b) => HasRow(b)'
      /\ reservation[b] = "confirmed" => reservation'[b] = "confirmed"
      /\ ledger[b] # "unused" => ledger'[b] # "unused"
      /\ ledger[b] # "unused" /\ reservation[b] = "none" => reservation'[b] = "none"
  BY <1>1 DEF RowStep, SettledStays
<1> QED
  BY <1>1, <1>2 DEF CallHolds

\* What a job holds to stays true while it waits.
LEMMA JobStays ==
  ASSUME WorkersInv, SettledStays, \A b \in Booking : RowStep(b), NEW j \in Job,
         stage'[j] = stage[j] \/ stage'[j] = "idle"
  PROVE  JobHolds(j)'
<1> DEFINE b == Subject[j]
<1>1. b \in Booking /\ JobHolds(j)
  BY DEF WorkersInv
<1>2. /\ HasRow(b) => HasRow(b)'
      /\ ledger[b] # "unused" => ledger'[b] # "unused"
  BY <1>1 DEF RowStep, SettledStays
<1> QED
  BY <1>1, <1>2 DEF JobHolds

\* A call's own step: what it holds to next.
LEMMA CallMoves ==
  ASSUME WorkersInv, SettledStays, WorkersTypeOK', \A b \in Booking : RowStep(b),
         NEW c \in Call, ApiCall(c)
  PROVE  CallHolds(c)'
<1> DEFINE b == Target[c]
<1>1. /\ b \in Booking /\ CallHolds(c) /\ (HasRow(b) => ledger[b] # "unused")
      /\ \A to : [pc EXCEPT ![c] = to][c] = to
  BY DEF WorkersInv, RowsHaveSeats, WorkersTypeOK, ApiTypeOK
<1>2. /\ HasRow(b) => HasRow(b)'
      /\ reservation[b] = "confirmed" => reservation'[b] = "confirmed"
      /\ ledger[b] # "unused" => ledger'[b] # "unused"
      /\ ledger[b] # "unused" /\ reservation[b] = "none" => reservation'[b] = "none"
  BY <1>1 DEF RowStep, SettledStays
<1>3. /\ reservation \in [Booking -> {"none", "reserved", "confirmed"}]
      /\ ledger \in [Booking -> {"unused", "taken", "returned"}]
  BY DEF WorkersInv, WorkersTypeOK, ApiTypeOK, RedisTypeOK
<1>4. CASE ReserveLookup(c)
  BY <1>1, <1>4 DEF ReserveLookup, Goes, CallHolds
<1>5. CASE ReserveInRedis(c)
  <2>1. ledger'[b] # "unused" /\ pc'[c] = "row" /\ Op[c] = "reserve"
    BY <1>1, <1>3, <1>5 DEF ReserveInRedis, Goes, ReserveScript
  <2>2. c \notin published'
    BY <1>1, <1>5 DEF ReserveInRedis, Goes, CallHolds
  <2> QED
    BY <2>1, <2>2 DEF CallHolds
<1>6. CASE ReserveInRedisAgain(c)
  BY <1>6, CallStays DEF ReserveInRedisAgain
<1>7. CASE ReserveRow(c)
  BY <1>1, <1>7 DEF ReserveRow, Replies, Goes, CallHolds
<1>8. CASE ConfirmRead(c)
  BY <1>1, <1>2, <1>8 DEF ConfirmRead, Goes, CallHolds
<1>9. CASE ConfirmInRedis(c)
  <2>1. reservation'[b] = "confirmed" /\ pc[c] = "script" /\ pc'[c] = "row" /\ Op[c] = "confirm"
    BY <1>1, <1>3, <1>9 DEF ConfirmInRedis, Goes, ConfirmScript
  <2> QED
    BY <1>1, <1>2, <1>9, <2>1 DEF CallHolds, ConfirmInRedis
<1>10. CASE CancelRead(c)
  BY <1>1, <1>2, <1>10 DEF CancelRead, Goes, CallHolds
<1>11. CASE CancelInRedis(c)
  <2>1. pc[c] = "script" /\ pc'[c] = "row" /\ Op[c] = "cancel" /\ ReleaseOrGone(b)
    BY <1>1, <1>11 DEF CancelInRedis, Goes
  <2>2. reservation'[b] = "none"
    BY <1>1, <1>3, <2>1 DEF ReleaseOrGone, ReleaseScript, ReleaseAnswer, redisVars
  <2> QED
    BY <1>1, <1>2, <1>11, <2>1, <2>2 DEF CallHolds, CancelInRedis
<1>12. CASE ConfirmRow(c) \/ CancelRow(c)
  <2>1. /\ pc[c] = "row" /\ pc'[c] \in {"ok", "failed"} /\ Op[c] # "reserve"
        /\ published' = published
    BY <1>1, <1>12 DEF ConfirmRow, CancelRow, Replies, Goes
  <2> QED
    BY <1>1, <1>2, <2>1 DEF CallHolds
<1>13. CASE Abort(c)
  <2>1. /\ pc[c] \in {"script", "row"} /\ pc'[c] = "failed" /\ published' = published
    BY <1>1, <1>13 DEF Abort, Goes
  <2> QED
    BY <1>1, <1>2, <2>1 DEF CallHolds
<1>14. CASE Publish(c)
  <2>1. pc[c] = "ok" /\ pc' = pc
    BY <1>14 DEF Publish
  <2> QED
    BY <1>1, <1>2, <2>1 DEF CallHolds
<1> QED
  BY <1>4, <1>5, <1>6, <1>7, <1>8, <1>9, <1>10, <1>11, <1>12, <1>13, <1>14
  DEF ApiCall, ApiReserve, ApiConfirm, ApiCancel

\* A job's own step.
LEMMA JobMoves ==
  ASSUME WorkersInv, SettledStays, \A b \in Booking : RowStep(b),
         NEW j \in Job, JobStep(j)
  PROVE  JobHolds(j)'
<1> DEFINE b == Subject[j]
<1>1. /\ b \in Booking /\ JobHolds(j)
      /\ \A to : [stage EXCEPT ![j] = to][j] = to
  BY DEF WorkersInv, WorkersTypeOK
<1>2. HasRow(b) => HasRow(b)'
  BY <1>1 DEF RowStep
<1>3. CASE SagaReserveInRedis(j)
  <2>1. ledger'[b] # "unused" /\ Work[j] = "sagaReserve"
    BY <1>1, <1>3
    DEF SagaReserveInRedis, ReserveScript, WorkersInv, WorkersTypeOK, ApiTypeOK, RedisTypeOK
  <2> QED
    BY <2>1 DEF JobHolds
<1>4. CASE SagaConfirmRead(j) \/ SagaConfirmInRedis(j)
  <2>1. Work[j] = "sagaConfirm" /\ HasRow(b)
    BY <1>1, <1>4 DEF SagaConfirmRead, SagaConfirmInRedis, Moves, JobHolds
  <2> QED
    BY <1>2, <2>1 DEF JobHolds
<1>5. CASE SeatReleaseStep(j) \/ ExpireStep(j)
  <2>1. Work[j] \in {"seatRelease", "expire"}
    BY <1>5 DEF SeatReleaseStep, SeatReleaseRead, SeatReleaseInRedis, SeatReleaseRow,
                ExpireStep, ExpireFetch, ExpireInRedis, ExpireRow
  <2> QED
    BY <2>1 DEF JobHolds
<1>6. CASE \/ SagaReserveInRedisAgain(j) \/ SagaReserveRow(j) \/ SagaRelease(j)
           \/ SagaConfirmRow(j) \/ JobAborts(j)
  <2>1. stage'[j] = stage[j] \/ stage'[j] = "idle"
    BY <1>1, <1>6 DEF SagaReserveInRedisAgain, SagaReserveRow, SagaRelease, SagaConfirmRow,
                      JobAborts, OnlyMoves, Moves
  <2> QED
    BY <2>1, JobStays
<1> QED
  BY <1>3, <1>4, <1>5, <1>6 DEF JobStep, SagaStep

\* The inductive step: rows, sales, calls and jobs.
LEMMA WorkersNextInv ==
  RedisInv /\ RedisInv' /\ WorkersInv /\ [WorkersNext]_workersVars => WorkersInv'
<1> SUFFICES ASSUME RedisInv, RedisInv', WorkersInv, [WorkersNext]_workersVars
             PROVE  WorkersInv'
  OBVIOUS
<1>1. SettledStays
  BY WorkersStepRedis, RedisSettles
<1>2. \A b \in Booking : RowStep(b)
  BY RowSteps
<1>3. WorkersTypeOK'
  BY WorkersTypeStep DEF WorkersInv, RedisInv
<1>4. RowsHaveSeats'
  BY <1>1, <1>2 DEF RowsHaveSeats, RowStep, SettledStays, WorkersInv
<1>5. SalesOnRecord'
  BY <1>2, SaleSteps DEF SalesOnRecord, RowStep, WorkersInv
<1>6. ASSUME NEW c \in Call
      PROVE  CallHolds(c)'
  <2>1. CASE pc'[c] = pc[c] /\ (c \in published' => c \in published)
    BY <1>1, <1>2, <2>1, CallStays
  <2>2. CASE ApiCall(c)
    BY <1>1, <1>2, <1>3, <2>2, CallMoves
  <2>3. ASSUME NEW d \in Call, ApiCall(d), d # c
        PROVE  pc'[c] = pc[c] /\ (c \in published' => c \in published)
    BY <2>3 DEF WorkersInv, WorkersTypeOK, ApiTypeOK, Goes, Replies,
      ApiCall, ApiReserve, ApiConfirm, ApiCancel, ReserveLookup, ReserveInRedis,
      ReserveInRedisAgain, ReserveRow, ConfirmRead, ConfirmInRedis, ConfirmRow,
      CancelRead, CancelInRedis, CancelRow, Abort, Publish
  <2>4. CASE ApiClock \/ UNCHANGED workersVars \/ (\E j \in Job : JobStep(j))
    <3>1. UNCHANGED <<pc, published>>
      BY <2>4 DEF ApiClock, RowOverdue, workersVars, apiVars, dbVars,
        JobStep, SagaStep, SeatReleaseStep, ExpireStep, JobAborts, OnlyMoves,
        SagaReserveInRedis, SagaReserveInRedisAgain, SagaReserveRow, SagaRelease,
        SagaConfirmRead, SagaConfirmInRedis, SagaConfirmRow,
        SeatReleaseRead, SeatReleaseInRedis, SeatReleaseRow,
        ExpireFetch, ExpireInRedis, ExpireRow
    <3> QED
      BY <2>1, <3>1
  <2> QED
    BY <2>1, <2>2, <2>3, <2>4 DEF WorkersNext, ApiNext
<1>7. ASSUME NEW j \in Job
      PROVE  JobHolds(j)'
  <2>1. CASE stage'[j] = stage[j]
    BY <1>1, <1>2, <2>1, JobStays
  <2>2. CASE JobStep(j)
    BY <1>1, <1>2, <2>2, JobMoves
  <2>3. ASSUME NEW k \in Job, JobStep(k), k # j
        PROVE  stage'[j] = stage[j]
    BY <2>3 DEF WorkersInv, WorkersTypeOK, Moves, OnlyMoves,
      JobStep, SagaStep, SeatReleaseStep, ExpireStep, JobAborts,
      SagaReserveInRedis, SagaReserveInRedisAgain, SagaReserveRow, SagaRelease,
      SagaConfirmRead, SagaConfirmInRedis, SagaConfirmRow,
      SeatReleaseRead, SeatReleaseInRedis, SeatReleaseRow,
      ExpireFetch, ExpireInRedis, ExpireRow
  <2> QED
    BY <2>1, <2>2, <2>3 DEF WorkersNext, workersVars
<1> QED
  BY <1>3, <1>4, <1>5, <1>6, <1>7 DEF WorkersInv
-----------------------------------------------------------------------------
\* The jobs use Redis only as its scripts allow, so SeatConservation,
\* HoldLimit and the sale hold with them as well.
THEOREM WorkersUseRedis == WorkersSpec => RedisSpec
<1>1. WorkersInit => RedisInit
  BY ApiInitRedis DEF WorkersInit
<1> QED
  BY <1>1, WorkersStepRedis, PTL DEF WorkersSpec, RedisSpec

\* The invariants of every behaviour, from which the theorems follow.
LEMMA WorkersAlways == WorkersSpec => []RedisInv /\ []WorkersInv
<1>1. WorkersSpec => []RedisInv
  BY WorkersUseRedis, RedisInitInv, RedisNextInv, PTL DEF RedisSpec
<1> QED
  BY <1>1, WorkersInitInv, WorkersNextInv, PTL DEF WorkersSpec

\* Types of both stores, the calls and the jobs.
THEOREM WorkersTypeSafe == WorkersSpec => []WorkersTypeOK
<1>1. WorkersInv => WorkersTypeOK
  BY DEF WorkersInv
<1> QED
  BY <1>1, WorkersAlways, PTL

\* What a client was told is backed by Redis, whatever the jobs do.
THEOREM AnswersAlwaysBacked == WorkersSpec => []AnswersBacked
<1>1. WorkersInv => AnswersBacked
  BY DEF WorkersInv, CallHolds, AnswersBacked, Told
<1> QED
  BY <1>1, WorkersAlways, PTL

\* No seats are sold without a booking on record.
THEOREM SalesRecorded == WorkersSpec => []SalesOnRecord
<1>1. WorkersInv => SalesOnRecord
  BY DEF WorkersInv
<1> QED
  BY <1>1, WorkersAlways, PTL

\* A confirmed row is not taken back by a call, for which it must read reserved, and
\* by a job only if it is a seat release worker that is about to write the row.
LEMMA ConfirmedStays ==
  ASSUME WorkersInv, [WorkersNext]_workersVars, NEW b \in Booking, Settled(b)
  PROVE  Settled(b)'
<1>0. pg \in [Booking -> RowStatus] /\ stage \in [Job -> {"idle", "redis", "row"}] /\ pg[b] = "confirmed"
  BY DEF WorkersInv, WorkersTypeOK, ApiTypeOK, Settled
<1>1. CASE ApiNext /\ UNCHANGED stage
  <2>1. pg'[b] = "confirmed"
    <3>1. CASE ApiClock BY <1>0, <3>1 DEF ApiClock, RowOverdue, dbVars
    <3>2. ASSUME NEW c \in Call, ApiCall(c) PROVE pg'[b] = "confirmed"
      BY <1>0, <3>2
      DEF ApiCall, ApiReserve, ApiConfirm, ApiCancel, dbVars, ReserveLookup, ReserveInRedis,
          ReserveInRedisAgain, ReserveRow, InsertRow, HasRow, UpdateIfReserved, ConfirmRead,
          ConfirmInRedis, ConfirmRow, CancelRead, CancelInRedis, CancelRow, Abort, Publish
    <3> QED BY <1>1, <3>1, <3>2 DEF ApiNext
  <2> QED BY <1>1, <2>1 DEF Settled
<1>2. ASSUME NEW j \in Job, JobStep(j)
      PROVE  Settled(b)'
  <2>1. CASE Work[j] = "seatRelease" /\ Subject[j] = b
    <3>1. stage[j] = "idle" BY <2>1 DEF Settled
    <3>2. FALSE
      BY <1>0, <1>2, <2>1, <3>1
      DEF JobStep, SagaStep, SeatReleaseStep, ExpireStep, JobAborts, OnlyMoves, Moves,
          SagaReserveInRedis, SagaReserveInRedisAgain, SagaReserveRow, SagaRelease, SagaConfirmRead,
          SagaConfirmInRedis, SagaConfirmRow, SeatReleaseRead, SeatReleaseInRedis, SeatReleaseRow,
          ExpireFetch, ExpireInRedis, ExpireRow
    <3> QED BY <3>2
  <2>2. CASE ~ (Work[j] = "seatRelease" /\ Subject[j] = b)
    <3>1. \A k \in Job \ {j} : stage'[k] = stage[k]
      BY <1>0, <1>2
      DEF JobStep, SagaStep, SeatReleaseStep, ExpireStep, JobAborts, OnlyMoves, Moves,
          SagaReserveInRedis, SagaReserveInRedisAgain, SagaReserveRow, SagaRelease, SagaConfirmRead,
          SagaConfirmInRedis, SagaConfirmRow, SeatReleaseRead, SeatReleaseInRedis, SeatReleaseRow,
          ExpireFetch, ExpireInRedis, ExpireRow
    <3>2. pg'[b] = "confirmed"
      <4>1. CASE SagaStep(j)
        BY <1>0, <4>1
        DEF SagaStep, OnlyMoves, apiVars, dbVars, SagaReserveInRedis, SagaReserveInRedisAgain,
            SagaReserveRow, InsertRow, HasRow, SagaRelease, SagaConfirmRead, SagaConfirmInRedis,
            SagaConfirmRow, OverwriteRow
      <4>2. CASE SeatReleaseStep(j)
        BY <1>0, <2>2, <4>2
        DEF SeatReleaseStep, OnlyMoves, apiVars, dbVars, SeatReleaseRead, SeatReleaseInRedis,
            SeatReleaseRow, OverwriteRow
      <4>3. CASE ExpireStep(j)
        BY <1>0, <4>3
        DEF ExpireStep, OnlyMoves, apiVars, dbVars, ExpireFetch, ExpireInRedis, ExpireRow,
            UpdateIfReserved
      <4>4. CASE JobAborts(j) BY <1>0, <4>4 DEF JobAborts, OnlyMoves, apiVars, dbVars
      <4> QED BY <1>2, <4>1, <4>2, <4>3, <4>4 DEF JobStep
    <3> QED BY <2>2, <3>1, <3>2 DEF Settled
  <2> QED BY <2>1, <2>2
<1>3. CASE UNCHANGED workersVars
  BY <1>3 DEF workersVars, apiVars, dbVars, Settled
<1> QED BY <1>1, <1>2, <1>3 DEF WorkersNext

\* Whatever jobs start, or start over, once a booking is confirmed, its row says so
\* for ever unless a seat release worker had read it before.
THEOREM ConfirmedRowsAlwaysStand == WorkersSpec => ConfirmedRowsStand
<1>1. WorkersInv /\ [WorkersNext]_workersVars
        => [\A b \in Booking : Settled(b) => Settled(b)']_workersVars
  BY ConfirmedStays
<1> QED
  BY <1>1, WorkersAlways, PTL DEF WorkersSpec, ConfirmedRowsStand

\* Jobs that ignore what a script answered and overwrite rows do no harm to
\* Redis: it still implements the sale, never oversells, and keeps its account
\* of seats and of what each user holds.  Overselling happens in the table.
THEOREM RedisKeepsThePromise ==
  WorkersSpec => /\ ImplementsSale
                 /\ []Sale!NeverOversold
                 /\ []SeatConservation
                 /\ []HoldLimit
BY WorkersUseRedis, ScriptsImplementSale, NeverOversoldInRedis, SeatsConserved, HoldsLimited, PTL
=============================================================================
