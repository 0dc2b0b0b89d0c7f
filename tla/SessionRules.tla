---------------------------- MODULE SessionRules ----------------------------
(***************************************************************************)
(* The rules of BookingsService that are pure functions of a booking row,  *)
(* the wall clock and the seat flag: slot overlap, the door window, the    *)
(* due/expired/stale tests of the sync pass, the seat's display status and *)
(* the session phase.  The booking modules share them, so that the serial  *)
(* and the interleaved models decide by the same conditions.               *)
(*                                                                         *)
(* Time is counted in ticks.  Only the order of the four intervals matters *)
(* (door 5 min, unpaid 15 min, no-show 30 min, shortest booking 60 min),   *)
(* so the instances give them small numbers in the same order.             *)
(***************************************************************************)
EXTENDS Integers

CONSTANTS
    DoorEarly,      \* DOOR_EARLY_MIN: the door opens this long before startAt
    NoShowGrace,    \* NO_SHOW_GRACE_MIN
    PendingTtl,     \* BOOKING_PENDING_TTL_SEC: life of an unpaid booking
    MaxAhead        \* BOOKING_MAX_DAYS_AHEAD

ASSUME RulesAssumption ==
    /\ DoorEarly \in Nat
    /\ NoShowGrace \in Nat
    /\ PendingTtl \in Nat
    /\ MaxAhead \in Nat

Statuses == {"pending_payment", "paid", "active", "completed", "cancelled", "no_show"}

\* The phases the code still writes; the four legacy ones (issue, checkout,
\* acceptance, cell_pending) are never written and are left out.
Phases == {"awaiting_arrival", "arrival", "playing"}

SeatFlags == {"free", "reserved", "occupied", "repair"}

\* A booking that holds its slot.
Live(r) == r.status \in {"pending_payment", "paid", "active"}

Terminal(r) == r.status \in {"completed", "cancelled", "no_show"}

\* Half-open intervals: a booking may start at the very moment another ends.
Overlaps(r, from, to) == r.startAt < to /\ r.endAt > from

InDoorWindow(r, t) == r.startAt - DoorEarly <= t /\ t < r.endAt

-----------------------------------------------------------------------------
(* Faults the runs must notice: each replaces the definition it names.      *)

\* StalePending, but only while the slot is still to come.
StalePendingAhead(r, t) ==
    r.status = "pending_payment" /\ r.createdAt < t - PendingTtl /\ r.startAt > t

\* Expired, without the test of the status.
ExpiredAnyStatus(r, t) == Live(r) /\ r.endAt <= t

\* Expired, one moment late.
ExpiredLate(r, t) == r.status = "active" /\ r.endAt < t

\* NoShowDue, without the test of the payment.
NoShowDueUnpaid(r, t) ==
    r.status \in {"paid", "pending_payment"} /\ t >= r.startAt + NoShowGrace

-----------------------------------------------------------------------------

\* The three lists the sync pass reads, in its order.
StalePending(r, t) == r.status = "pending_payment" /\ r.createdAt < t - PendingTtl
Expired(r, t)      == r.status = "active" /\ r.endAt <= t
DueStart(r, t)     == r.status = "paid" /\ r.startAt <= t /\ r.endAt > t

\* What getActive and getOngoingBooking accept: a slot that has not ended, or
\* a paid one never started whose no-show grace is still running.
Ongoing(r, t) ==
    /\ r.status \in {"paid", "active"}
    /\ \/ r.endAt > t
       \/ r.status = "paid" /\ ~r.started /\ r.startAt > t - NoShowGrace

NoShowDue(r, t) ==
    /\ r.status = "paid"
    /\ r.phase \in {"awaiting_arrival", "arrival"}
    /\ t >= r.startAt + NoShowGrace

NormalizePhase(r, t) ==
    CASE r.status = "paid" ->
            IF ~InDoorWindow(r, t) THEN "awaiting_arrival" ELSE "arrival"
      [] r.status = "active" ->
            IF t >= r.startAt THEN "playing"
            ELSE IF InDoorWindow(r, t) THEN "arrival" ELSE "awaiting_arrival"
      [] OTHER -> r.phase

Activate(r) == [r EXCEPT !.status = "active", !.phase = "playing", !.started = TRUE]

\* releaseBooking leaves a completed or cancelled row alone, and only those.
Release(r, st) ==
    IF r.status \in {"completed", "cancelled"} THEN r ELSE [r EXCEPT !.status = st]

\* The flag a seat should carry, given the rows booked on it.
DisplayStatus(rows, t) ==
    IF \E r \in rows : r.status = "active" /\ t < r.endAt THEN "occupied"
    ELSE IF \E r \in rows : r.status \in {"paid", "pending_payment"} /\ InDoorWindow(r, t)
    THEN "reserved"
    ELSE "free"

=============================================================================
