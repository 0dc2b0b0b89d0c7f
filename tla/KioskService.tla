---------------------------- MODULE KioskService ----------------------------
(***************************************************************************)
(* What KioskService answers a PC, as functions of the bookings of its     *)
(* seat, of the seat's QR challenge and of the wall clock.  The rules of   *)
(* the bookings themselves are those of SessionRules; a row has the time   *)
(* of its unlock (pcUnlockedAt) in addition.                               *)
(***************************************************************************)
EXTENDS SessionRules, KioskMachine, FiniteSets

CONSTANTS
    Bookings,       \* ids of the bookings of one seat
    ChallengeTtl    \* CHALLENGE_TTL_MS

\* The QR codes are the challenge ids, see FreshCode.
ASSUME KioskAssumption ==
    /\ Cardinality(QrCodes) > 1
    /\ ChallengeTtl \in Nat \ {0}

SeatRow == [status : Statuses, phase : Phases, started : BOOLEAN,
            startAt : Int, endAt : Int, unlockedAt : Int]

\* The challenges map keeps one entry for each seat: a new one is made only
\* when the old one has expired, and the old one is deleted then.
Challenge == [id : Int, exp : Int]

NoChallenge == [id |-> None, exp |-> None]

-----------------------------------------------------------------------------
(* Faults the runs must notice: each replaces the definition it names.      *)

\* SeatAnswer, locked until the session has begun.
SeatAnswerBegun(r, t) ==
    [kind |-> IF r.status = "active" THEN "active" ELSE "locked",
     remaining |-> IF r.endAt > t THEN r.endAt - t ELSE 0, qr |-> None]

-----------------------------------------------------------------------------

\* syncSeatStatesForKiosk, on the bookings of the seat.
Synced(rows, t) ==
    [b \in Bookings |->
        CASE Expired(rows[b], t)  -> Release(rows[b], "completed")
          [] DueStart(rows[b], t) -> Activate(rows[b])
          [] OTHER                -> rows[b]]

\* A booking a player has unlocked the PC with, and whose time is not over.
Seated(r, t) == r.status \in {"paid", "active"} /\ r.unlockedAt # None /\ r.endAt > t

\* orderBy pcUnlockedAt desc: the last unlock wins, of equal ones any.
Latest(rows, t) ==
    {b \in Bookings :
        /\ Seated(rows[b], t)
        /\ \A c \in Bookings : Seated(rows[c], t) => rows[c].unlockedAt <= rows[b].unlockedAt}

Left(at, t) == IF at > t THEN at - t ELSE 0

GameRunning(r, t) == r.status = "active" /\ r.started /\ t >= r.startAt

\* formatBooking's countdown: to the end of the game, to the door window, to
\* the start, or to the end of a paid slot that nothing has started yet.
DisplayRemaining(r, t) ==
    IF GameRunning(r, t) THEN Left(r.endAt, t)
    ELSE IF t < r.startAt - DoorEarly THEN r.startAt - DoorEarly - t
    ELSE IF t < r.startAt THEN r.startAt - t
    ELSE Left(r.endAt, t)

\* getSeatState's answer about the row it has read, formatted at t.
SeatAnswer(r, t) ==
    [kind |-> IF r.status = "active" /\ DisplayRemaining(r, t) = 0 THEN "expired" ELSE "active",
     remaining |-> DisplayRemaining(r, t), qr |-> None]

LockedAnswer(qr) == [kind |-> "locked", remaining |-> 0, qr |-> qr]

\* A challenge id that no screen shows: ids no screen shows may be used again,
\* so a few stand for all the random ones.
FreshCode(shown) == CHOOSE c \in QrCodes : c # shown

\* createQrChallenge: an entry lives until it expires.
Offered(challenge, shown, t) ==
    IF challenge.exp > t THEN challenge
    ELSE [id |-> FreshCode(shown), exp |-> t + ChallengeTtl]

\* confirmQr's test of the code.
Valid(challenge, qr, t) == challenge.id = qr /\ t <= challenge.exp

\* What confirmQr and then unlockBooking demand of the booking.
Unlockable(r, t) == r.status \in {"paid", "active"} /\ r.endAt > t

\* The game that unlockBooking begins when its time has come.
Begun(r, t) == IF r.status = "paid" /\ t >= r.startAt THEN Activate(r) ELSE r
=============================================================================
