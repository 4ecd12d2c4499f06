------------------------------ MODULE ZoneSync ------------------------------
(***************************************************************************)
(* Everybody who sets or deletes the live counter of a zone, beside the    *)
(* scripts that sell from it.  The value comes from the zone's row in      *)
(* seat_zones, which the inventory worker brings up to date in batches.    *)
(* Each writer does one of                                                 *)
(*                                                                         *)
(*   resync    start-up rebuild and the administrator's sync: read, SET    *)
(*   show      a show is edited: read it, UPDATE it; if it went on sale,   *)
(*             read the zone and SET; if it went off sale, DEL             *)
(*   zone      a zone is edited: read it, UPDATE it, read the show; if     *)
(*             that is on sale, SET or DEL                                 *)
(*                                                                         *)
(* and when reserve_seats.lua finds no counter, the callers share one      *)
(* flight that reads and SETs, and each tries once more.                   *)
(*                                                                         *)
(* Edits keep total_seats.  What the table knows of a booking follows what *)
(* the counter did for it (the ledger of RedisSeats): no event is lost     *)
(* here.  Repeated scripts, which only take seats off sale, are left out.  *)
(***************************************************************************)
EXTENDS RedisSeats

CONSTANTS
  Writer,   \* who sets or deletes the counter, each of them once
  Flight    \* the single flight of the zone, shared by the callers

VARIABLES
  present,       \* whether zone:availability exists; available is 0 if not
  call,          \* where the ReserveSeats call that drew each booking stands
  rowAvailable,  \* seat_zones.available_seats
  synced,        \* what the table knows of each booking
  onSale,        \* shows.status = 'on_sale'
  active,        \* seat_zones.is_active
  stage,         \* where each writer stands
  seen           \* the available_seats each writer has read

tableVars == <<rowAvailable, synced, onSale, active>>
writerVars == <<stage, seen>>
zoneVars == <<redisVars, present, call, tableVars, writerVars>>

ASSUME FlightAssumption == Flight \notin Writer

\* "wasOn" and "wasOff" remember the show's status, "opened" and "closed" the
\* zone's is_active.
Busy == {"wasOn", "wasOff", "read", "write", "opened", "closed", "set", "remove"}
Stages == Busy \cup {"idle", "done", "removed", "failed"}

ZoneTypeOK ==
  /\ RedisTypeOK
  /\ present \in BOOLEAN
  /\ ~ present => available = 0
  /\ call \in [Booking -> {"start", "missed", "flying", "retry", "done"}]
  /\ rowAvailable \in Nat
  /\ synced \in [Booking -> {"unused", "taken", "returned"}]
  /\ onSale \in BOOLEAN
  /\ active \in BOOLEAN
  /\ stage \in [Writer \cup {Flight} -> Stages]
  /\ seen \in [Writer \cup {Flight} -> Nat]

\* A zone nobody has reserved from.  Its counter may be missing although the
\* show is on sale: a failed SET is ignored, and Redis may have been replaced.
ZoneInit ==
  /\ onSale \in BOOLEAN
  /\ present \in BOOLEAN
  /\ present => onSale
  /\ available = IF present THEN Capacity ELSE 0
  /\ userReserved = [u \in User |-> 0]
  /\ reservation = [b \in Booking |-> "none"]
  /\ ledger = [b \in Booking |-> "unused"]
  /\ wasted = 0
  /\ call = [b \in Booking |-> "start"]
  /\ rowAvailable = Capacity
  /\ synced = ledger
  /\ active = TRUE
  /\ stage = [w \in Writer \cup {Flight} |-> "idle"]
  /\ seen = [w \in Writer \cup {Flight} |-> 0]
-----------------------------------------------------------------------------
(***************************************************************************)
(* Selling.                                                                *)
(***************************************************************************)
CallGoes(b, from, to) == call[b] \in from /\ call' = [call EXCEPT ![b] = to]

Reserve(b) ==
  /\ present
  /\ CallGoes(b, {"start", "retry"}, "done")
  /\ ReserveScript(b)
  /\ UNCHANGED <<present, tableVars, writerVars>>

\* INSUFFICIENT_STOCK, or no counter again after the sync.
Refuse(b) ==
  /\ present => ReserveAnswer(b) # "OK"
  /\ CallGoes(b, IF present THEN {"start", "retry"} ELSE {"retry"}, "done")
  /\ UNCHANGED <<redisVars, present, tableVars, writerVars>>

Miss(b) ==
  /\ ~ present
  /\ CallGoes(b, {"start"}, "missed")
  /\ UNCHANGED <<redisVars, present, tableVars, writerVars>>

Confirm(b) ==
  /\ ConfirmScript(b)
  /\ UNCHANGED <<present, call, tableVars, writerVars>>

\* INCRBY on a missing key creates it.
Release(b) ==
  /\ ReleaseScript(b)
  /\ present' = TRUE
  /\ UNCHANGED <<call, tableVars, writerVars>>

Lapse == RedisExpiry /\ UNCHANGED <<present, call, tableVars, writerVars>>
-----------------------------------------------------------------------------
(***************************************************************************)
(* The table.                                                              *)
(***************************************************************************)
RowTaken == {b \in Booking : synced[b] = "taken"}

\* The events a batch may bring for a booking.
Known(b) ==
  CASE synced[b] = ledger[b]   -> {ledger[b]}
    [] synced[b] = "unused"    -> {"unused", "taken", ledger[b]}
    [] OTHER                   -> {synced[b], ledger[b]}

Flush ==
  /\ synced' \in [Booking -> {"unused", "taken", "returned"}]
  /\ \A b \in Booking : synced'[b] \in Known(b)
  /\ synced' # synced
  /\ rowAvailable' = rowAvailable + Seats(RowTaken) - Seats(RowTaken')
  /\ rowAvailable' >= 0
  /\ UNCHANGED <<redisVars, present, call, onSale, active, writerVars>>
-----------------------------------------------------------------------------
(***************************************************************************)
(* Writers of the counter.                                                 *)
(***************************************************************************)
Goes(w, from, to) == stage[w] = from /\ stage' = [stage EXCEPT ![w] = to]

\* Only active zones are read; the show's status is not looked at.
ReadsRow(w, from) ==
  /\ active
  /\ Goes(w, from, "set")
  /\ seen' = [seen EXCEPT ![w] = rowAvailable]

PutsCounter(w) ==
  /\ available' = seen[w]
  /\ present' = TRUE
  /\ UNCHANGED <<userReserved, reservation, ledger, wasted>>

DropsCounter ==
  /\ available' = 0
  /\ present' = FALSE
  /\ UNCHANGED <<userReserved, reservation, ledger, wasted>>

Resync(w) ==
  /\ ReadsRow(w, "idle")
  /\ UNCHANGED <<redisVars, present, call, tableVars>>

ShowRead(w) ==
  /\ Goes(w, "idle", IF onSale THEN "wasOn" ELSE "wasOff")
  /\ UNCHANGED <<redisVars, present, call, tableVars, seen>>

\* Writes the status asked for, or what was read back over the present one.
ShowWrite(w) ==
  /\ onSale' \in BOOLEAN
  /\ \/ Goes(w, "wasOff", IF onSale' THEN "read" ELSE "done")
     \/ Goes(w, "wasOn", IF onSale' THEN "done" ELSE "remove")
  /\ UNCHANGED <<redisVars, present, call, rowAvailable, synced, active, seen>>

PublishRead(w) ==
  /\ ReadsRow(w, "read")
  /\ UNCHANGED <<redisVars, present, call, tableVars>>

ZoneRead(w) ==
  /\ Goes(w, "idle", "write")
  /\ seen' = [seen EXCEPT ![w] = rowAvailable]
  /\ UNCHANGED <<redisVars, present, call, tableVars>>

Forgets(w) == seen' = [seen EXCEPT ![w] = 0]

\* Mutant: no chk_seats_sum_valid on the table.
ZoneWriteUnchecked(w) ==
  /\ rowAvailable' = seen[w]
  /\ active' \in BOOLEAN
  /\ Goes(w, "write", IF active' THEN "opened" ELSE "closed")
  /\ UNCHANGED <<redisVars, present, call, synced, onSale, seen>>

\* Writes back all columns that were read but reserved_seats and sold_seats;
\* is_active is what was read or what is asked for.
ZoneWrite(w) ==
  /\ seen[w] + Seats(RowTaken) <= Capacity
  /\ rowAvailable' = seen[w]
  /\ active' \in BOOLEAN
  /\ Goes(w, "write", IF active' THEN "opened" ELSE "closed")
  /\ UNCHANGED <<redisVars, present, call, synced, onSale, seen>>

\* Is the show on sale, after the zone's row was written?
ShowCheck(w) ==
  /\ \/ Goes(w, "opened", IF onSale THEN "set" ELSE "done")
     \/ Goes(w, "closed", IF onSale THEN "remove" ELSE "done")
  /\ UNCHANGED <<redisVars, present, call, tableVars, seen>>

SetCounter(w) ==
  /\ Goes(w, "set", "done")
  /\ PutsCounter(w)
  /\ Forgets(w)
  /\ UNCHANGED <<call, tableVars>>

RemoveCounter(w) ==
  /\ Goes(w, "remove", "removed")
  /\ DropsCounter
  /\ Forgets(w)
  /\ UNCHANGED <<call, tableVars>>

\* An error of either store ends the writer; the caller ignores it.
Fail(w) ==
  /\ stage[w] \in Busy
  /\ stage' = [stage EXCEPT ![w] = "failed"]
  /\ Forgets(w)
  /\ UNCHANGED <<redisVars, present, call, tableVars>>
-----------------------------------------------------------------------------
(***************************************************************************)
(* The flight.  A caller joins the one under way or starts one; when it    *)
(* ends, all that joined go on with its result.                            *)
(***************************************************************************)
JoinFlight(b) ==
  /\ CallGoes(b, {"missed"}, "flying")
  /\ stage' = [stage EXCEPT ![Flight] = IF @ = "idle" THEN "read" ELSE @]
  /\ UNCHANGED <<redisVars, present, tableVars, seen>>

FlightRead ==
  /\ ReadsRow(Flight, "read")
  /\ UNCHANGED <<redisVars, present, call, tableVars>>

Lands(result) ==
  call' = [b \in Booking |-> IF call[b] = "flying" THEN result ELSE call[b]]

FlightSet ==
  /\ Goes(Flight, "set", "idle")
  /\ PutsCounter(Flight)
  /\ Lands("retry")
  /\ Forgets(Flight)
  /\ UNCHANGED tableVars

\* Mutant: only the flight learns of the failure.
FlightFailsSilently ==
  /\ stage[Flight] \in {"read", "set"}
  /\ stage' = [stage EXCEPT ![Flight] = "idle"]
  /\ Forgets(Flight)
  /\ UNCHANGED <<redisVars, present, call, tableVars>>

\* The zone is not active, or the ticket service or Redis cannot be reached.
FlightFails ==
  /\ stage[Flight] \in {"read", "set"}
  /\ stage' = [stage EXCEPT ![Flight] = "idle"]
  /\ Lands("done")
  /\ Forgets(Flight)
  /\ UNCHANGED <<redisVars, present, tableVars>>

Selling ==
  \/ \E b \in Booking : \/ Reserve(b) \/ Refuse(b) \/ Miss(b) \/ JoinFlight(b)
                        \/ Confirm(b) \/ Release(b)
  \/ Lapse

Writing(w) ==
  \/ Resync(w)
  \/ ShowRead(w) \/ ShowWrite(w) \/ PublishRead(w)
  \/ ZoneRead(w) \/ ZoneWrite(w) \/ ShowCheck(w)
  \/ SetCounter(w) \/ RemoveCounter(w) \/ Fail(w)

ZoneNext ==
  \/ Selling
  \/ Flush
  \/ \E w \in Writer : Writing(w)
  \/ FlightRead \/ FlightSet \/ FlightFails

ZoneSpec == ZoneInit /\ [][ZoneNext]_zoneVars

(***************************************************************************)
(* A call keeps running; a flight ends, because the request to the ticket  *)
(* service times out after five seconds.                                   *)
(***************************************************************************)
ZoneFairSpec ==
  /\ ZoneSpec
  /\ \A b \in Booking : WF_zoneVars(Reserve(b) \/ Refuse(b)) /\ WF_zoneVars(JoinFlight(b))
  /\ WF_zoneVars(FlightRead \/ FlightSet \/ FlightFails)
-----------------------------------------------------------------------------
(***************************************************************************)
(* Only a synchronisation oversells: no script, no removal of the counter, *)
(* no release that creates it again and no lapse takes the zone from       *)
(* offering at most what is left to offering more.                         *)
(***************************************************************************)
Fits == available + Seats(Taken) <= Capacity

Synchronises ==
  \E w \in Writer \cup {Flight} : stage[w] = "set" /\ stage'[w] # "set"

OnlySyncsOversell ==
  [][Fits => Fits' \/ Synchronises]_zoneVars

(***************************************************************************)
(* A table that has caught up never offers a seat that is taken, so        *)
(* synchronising from it is safe: whatever an edit writes back, the CHECK  *)
(* on the sum of the columns stops it from offering too much.              *)
(***************************************************************************)
CaughtUpTable == synced = ledger => rowAvailable + Seats(Taken) <= Capacity

(***************************************************************************)
(* Nobody waits for a flight that has gone: as long as a caller waits, the *)
(* flight is under way, however often flights land, fail and start anew.   *)
(***************************************************************************)
FlightCarriesCallers ==
  /\ stage[Flight] \in {"idle", "read", "set"}
  /\ (\E b \in Booking : call[b] = "flying") => stage[Flight] # "idle"

(***************************************************************************)
(* Every call that met ZONE_NOT_FOUND is answered, whichever flight it     *)
(* joined and however that ends.                                           *)
(***************************************************************************)
EveryMissAnswered == \A b \in Booking : call[b] = "missed" ~> call[b] = "done"

(***************************************************************************)
(* "designed for 10,000 RPS with zero overselling" (README.md:3): the      *)
(* seats taken fit in the zone.  The code does not keep this: a SET from   *)
(* the table overwrites what was reserved since the table was brought up   *)
(* to date.                                                                *)
(***************************************************************************)
NoOverselling == Seats(Taken) <= Capacity

(***************************************************************************)
(* "Show is no longer on_sale - remove zones from Redis"                   *)
(* (show_service.go:225): when the show is off sale, the counter has been  *)
(* removed, and no writer is at work or has failed, there is no counter.   *)
(* The code does not keep this: a release creates the counter again, and   *)
(* so does the next caller, because a flight looks at is_active only.      *)
(***************************************************************************)
Withdrawn ==
  /\ ~ onSale
  /\ \E w \in Writer : stage[w] = "removed"
  /\ \A w \in Writer \cup {Flight} : stage[w] \in {"idle", "done", "removed"}

WithdrawnHasNoCounter == Withdrawn => ~ present
=============================================================================
