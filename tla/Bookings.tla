------------------------------ MODULE Bookings ------------------------------
(***************************************************************************)
(* The booking half of the API: BookingsService, the booking operations of *)
(* AdminService, the scheduler tick and the wallet rows they touch.        *)
(*                                                                         *)
(* Every action is one whole request handler, run alone: this is the       *)
(* program when no two requests overlap.  BookingRequests takes the same   *)
(* handlers apart at their awaits.  A request that is refused changes      *)
(* nothing but what its sync pass wrote, so it appears as Sync.            *)
(***************************************************************************)
EXTENDS BookingTables

CONSTANTS
    TopUps,         \* amounts a top-up credits
    AdminFlags,     \* seat flags an administrator sets
    DoorCooldown    \* LOCK_OPEN_COOLDOWN_MS

ASSUME BookingsAssumption ==
    TopUps \subseteq Nat /\ AdminFlags \subseteq SeatFlags /\ DoorCooldown \in Nat

VARIABLES
    seats,      \* Seat.status
    doorLog     \* time of a booking's last lock_open_main row

vars == <<tables, seats, doorLog>>

money == <<balance, ledger, charge>>

Never == -1

TypeOK ==
    /\ TablesOK
    /\ seats \in [Seats -> SeatFlags]
    /\ doorLog \in [BookingIds -> Int]

Init ==
    /\ TablesInit
    /\ seats = [s \in Seats |-> "free"]
    /\ doorLog = [b \in BookingIds |-> Never]

-----------------------------------------------------------------------------
(* The sync pass and the seat flags.                                       *)

\* The rows recomputeSeatDbStatus reads for seat s.
RowsOn(bk, s) ==
    {bk[b] : b \in {x \in BookingIds : bk[x].seat = s /\ Live(bk[x]) /\ bk[x].endAt > now}}

Recomputed(bk, st, s) ==
    IF st[s] = "repair" THEN st ELSE [st EXCEPT ![s] = DisplayStatus(RowsOn(bk, s), now)]

\* One row after syncSeatStates: a row is on at most one of its three lists.
SyncRow(r) ==
    CASE StalePending(r, now) -> Release(r, "cancelled")
      [] Expired(r, now)      -> Release(r, "completed")
      [] DueStart(r, now)     -> Activate(r)
      [] OTHER                -> r

SyncedRows == [b \in BookingIds |-> SyncRow(bookings[b])]

\* Activation writes "occupied" over any flag, "repair" included; then every
\* seat that is not under repair is recomputed.
SyncedSeats ==
    [s \in Seats |->
        IF seats[s] = "repair" /\ ~\E b \in BookingIds :
                bookings[b].seat = s /\ DueStart(bookings[b], now)
        THEN "repair"
        ELSE DisplayStatus(RowsOn(SyncedRows, s), now)]

\* Write row r under id b of table bk; StoreAndShow also recomputes the flag.
Store(bk, st, b, r) ==
    /\ bookings' = [bk EXCEPT ![b] = r]
    /\ seats' = st

StoreAndShow(bk, st, b, r) ==
    Store(bk, Recomputed([bk EXCEPT ![b] = r], st, r.seat), b, r)

Occupy(st, s) == [st EXCEPT ![s] = "occupied"]

Sync ==
    /\ bookings' = SyncedRows
    /\ seats' = SyncedSeats
    /\ UNCHANGED <<now, money, doorLog>>

-----------------------------------------------------------------------------
(* The wallet.                                                             *)

\* creditWallet for a completed top-up; WalletTopup models how it comes about.
TopUp(u, amount) ==
    /\ balance[u] + amount <= MaxBalance
    /\ Book(u, amount)
    /\ UNCHANGED <<now, bookings, charge, seats, doorLog>>

AdminAdjust(u, amount) ==
    /\ balance[u] + amount \in 0..MaxBalance
    /\ Book(u, amount)
    /\ UNCHANGED <<now, bookings, charge, seats, doorLog>>

-----------------------------------------------------------------------------
(* The player's requests.                                                  *)

\* create: checks on the synced tables, then the insert and the recompute.
Create(u, s, from, d) ==
    /\ SyncedSeats[s] # "repair"
    /\ now <= from /\ from <= now + MaxAhead
    /\ ~\E c \in BookingIds : IsActiveOf(SyncedRows, u, c)
    /\ \E b \in BookingIds :
          /\ NextId(SyncedRows, b)
          /\ SlotFree(SyncedRows, s, from, from + d, b)
          /\ StoreAndShow(SyncedRows, SyncedSeats, b, NewRow(u, s, from, d))
    /\ UNCHANGED <<now, money, doorLog>>

\* activateScheduledIfDue as the other handlers call it.
StartIfDue(r) == IF r.status = "paid" /\ now >= r.startAt THEN Activate(r) ELSE r

\* Start the booking if it is due, then store its normalised phase.
StoreStarted(bk, st, b) ==
    LET r == StartIfDue(bk[b]) IN
    Store(bk, IF r = bk[b] THEN st ELSE Occupy(st, r.seat),
          b, [r EXCEPT !.phase = NormalizePhase(r, now)])

GetActive(u) ==
    /\ \E b \in BookingIds :
          IsActiveOf(SyncedRows, u, b) /\ StoreStarted(SyncedRows, SyncedSeats, b)
    /\ UNCHANGED <<now, money, doorLog>>

\* payFromWallet: the debit is skipped when a row with this externalId exists.
PayFromWallet(b) ==
    LET r == SyncedRows[b] IN
    /\ Payable(r)
    /\ SlotFree(SyncedRows, r.seat, r.startAt, r.endAt, b)
    /\ Affords(r.user, r.price)
    /\ IF charge[b].payments = 0 THEN TakePayment(b, r) ELSE UNCHANGED money
    /\ StoreAndShow(SyncedRows,
                    IF now >= r.startAt THEN Occupy(SyncedSeats, r.seat) ELSE SyncedSeats,
                    b, PaidRow(r))
    /\ UNCHANGED <<now, doorLog>>

\* extendSession: no sync pass before it, and no look at the next booking.
Extend(b, d) ==
    /\ Playing(bookings[b])
    /\ Affords(bookings[b].user, Price[d])
    /\ bookings[b].endAt + d <= MaxEnd
    /\ TakeExtension(b, bookings[b], d)
    /\ Store(bookings, seats, b, Extended(bookings[b], bookings[b], d))
    /\ UNCHANGED <<now, doorLog>>

EndSession(b) ==
    LET r == bookings[b] IN
    /\ Ongoing(r, now) /\ r.status = "active"
    /\ StoreAndShow(bookings, seats, b, Release([r EXCEPT !.endAt = now], "completed"))
    /\ UNCHANGED <<now, money, doorLog>>

\* cancelBooking: money already paid is not returned.
CancelBooking(b) ==
    /\ Cancellable(bookings[b])
    /\ StoreAndShow(bookings, seats, b, Release(bookings[b], "cancelled"))
    /\ UNCHANGED <<now, money, doorLog>>

\* openMainDoor, when the lock answers: the log row is written last.
OpenMainDoor(b) ==
    /\ Ongoing(bookings[b], now)
    /\ doorLog[b] = Never \/ doorLog[b] < now - DoorCooldown
    /\ InDoorWindow(bookings[b], now)
    /\ StoreStarted(bookings, seats, b)
    /\ doorLog' = [doorLog EXCEPT ![b] = now]
    /\ UNCHANGED <<now, money>>

-----------------------------------------------------------------------------
(* The administrator, the scheduler and the clock.                         *)

\* The seat is marked free whatever it was and whoever else is on it.
AdminCancel(b) ==
    /\ Live(bookings[b])
    /\ Store(bookings, [seats EXCEPT ![bookings[b].seat] = "free"],
             b, [bookings[b] EXCEPT !.status = "cancelled"])
    /\ UNCHANGED <<now, money, doorLog>>

AdminUpdateSeat(s, flag) ==
    /\ flag = "free" /\ seats[s] = "occupied" =>
           ~\E b \in BookingIds : bookings[b].seat = s /\ bookings[b].status = "active"
    /\ seats' = [seats EXCEPT ![s] = flag]
    /\ UNCHANGED <<tables, doorLog>>

NoShowRow(r) == IF NoShowDue(r, now) THEN Release(r, "no_show") ELSE r

\* SchedulerService.tick: the sync pass, then processNoShow on what it left.
SchedulerTick ==
    /\ bookings' = [b \in BookingIds |-> NoShowRow(SyncedRows[b])]
    /\ seats' = [s \in Seats |->
                    IF SyncedSeats[s] = "repair" THEN "repair"
                    ELSE DisplayStatus(RowsOn(bookings', s), now)]
    /\ UNCHANGED <<now, money, doorLog>>

Tick ==
    /\ now < MaxNow
    /\ now' = now + 1
    /\ UNCHANGED <<bookings, money, seats, doorLog>>

Next ==
    \/ Tick
    \/ Sync
    \/ SchedulerTick
    \/ \E u \in Users : GetActive(u)
    \/ \E u \in Users, s \in Seats, from \in 0..MaxNow, d \in Durations : Create(u, s, from, d)
    \/ \E b \in BookingIds : PayFromWallet(b)
    \/ \E b \in BookingIds, d \in Additions : Extend(b, d)
    \/ \E b \in BookingIds : EndSession(b)
    \/ \E b \in BookingIds : CancelBooking(b)
    \/ \E b \in BookingIds : OpenMainDoor(b)
    \/ \E b \in BookingIds : AdminCancel(b)
    \/ \E s \in Seats, flag \in AdminFlags : AdminUpdateSeat(s, flag)
    \/ \E u \in Users, amount \in TopUps : TopUp(u, amount)
    \/ \E u \in Users, amount \in Adjustments : AdminAdjust(u, amount)

Spec == Init /\ [][Next]_vars

\* The cron fires every minute and the clock goes on; nobody has to book or pay.
FairSpec == Spec /\ WF_vars(Tick) /\ WF_vars(SchedulerTick)

-----------------------------------------------------------------------------
(* Properties (the others are in BookingTables).                           *)

\* session.constants.ts: a paid booking whose player has not come in within
\* the grace period is a no-show, so no session runs by then without the door
\* having been opened for it.  The code does not keep it: the sync pass
\* starts the session at startAt.
AbsentIsNoShow ==
    \A b \in BookingIds :
        /\ bookings[b].status = "active"
        /\ now >= bookings[b].startAt + NoShowGrace
        => doorLog[b] # Never
=============================================================================
