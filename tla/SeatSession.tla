---------------------------- MODULE SeatSession -----------------------------
(***************************************************************************)
(* One seat from end to end: the bookings on it, the API that answers its  *)
(* PC, the agent on the PC and the players' phones.  The agent's poll is   *)
(* taken apart - the server reads, offers a code or formats, the answer    *)
(* travels, the agent applies it - and so is the confirmation of a scanned *)
(* code, so that everything else may happen in between; the other requests *)
(* are handled whole.  Answers get lost, the API restarts and forgets its  *)
(* QR challenges, the PC reboots and forgets its session.                  *)
(***************************************************************************)
EXTENDS KioskService

CONSTANTS
    Plans,          \* what a run may begin with: the time, the slots booked, the faults spent
    Addition,       \* length of an extension
    MaxLength,      \* bound: the length of an extended session
    MaxNow,         \* bound: the last tick
    MaxFaults       \* bound: restarts, reboots, handlers gone adrift, slow confirmations

ASSUME SeatAssumption ==
    /\ Plans \subseteq [now : Nat, slots : [Bookings -> [startAt : Nat, endAt : Nat]],
                       faults : 0..MaxFaults]
    /\ Addition \in Nat \ {0}
    /\ MaxLength \in Nat /\ MaxNow \in Nat /\ MaxFaults \in Nat

VARIABLES
    now,
    rows,       \* the bookings
    challenge,  \* the seat's entry of KioskService.challenges
    poll,       \* the poll in flight: what it has read, or the answer on its way
    scan,       \* each booking's confirmQr under way: a phone sends one at a time
    adrift,     \* a getSeatState nobody waits for has found no booking
    m,          \* the agent's machine
    polledAt,   \* when the agent last applied an outcome
    faults,
    granted,    \* history: the latest end of a booking the PC was unlocked with
    told,       \* history: the end of the running game the agent was last told of
    raced       \* history: the last code was offered late, or its confirmations overlapped

vars == <<now, rows, challenge, poll, scan, adrift, m, polledAt, faults, granted, told, raced>>

server == <<rows, challenge>>
phones == <<scan, adrift>>
agent  == <<m, polledAt>>
history == <<granted, told, raced>>

Idle == [at |-> "idle"]

PollState ==
    [at : {"idle", "lost", "offer"}] \cup [at : {"format"}, row : SeatRow]
    \cup [at : {"deliver"}, answer : Poll, ends : Nat]

\* A confirmation that has found its code valid will take it, then write.
ScanState == [at : {"idle", "write"}] \cup [at : {"take"}, qr : Int]

TypeOK ==
    /\ now \in Nat
    /\ rows \in [Bookings -> SeatRow]
    /\ challenge \in Challenge
    /\ poll \in PollState
    /\ scan \in [Bookings -> ScanState] /\ adrift \in BOOLEAN
    /\ m \in Machine
    /\ polledAt \in 0..now
    /\ faults \in 0..MaxFaults
    /\ granted \in Nat /\ told \in Nat /\ raced \in BOOLEAN

\* A paid booking; an empty slot is one cancelled before the run.
Booked(slot) ==
    [status |-> IF slot.startAt < slot.endAt THEN "paid" ELSE "cancelled",
     phase |-> "awaiting_arrival", started |-> FALSE,
     startAt |-> slot.startAt, endAt |-> slot.endAt, unlockedAt |-> None]

Init ==
    /\ \E plan \in Plans :
          /\ now = plan.now
          /\ rows = [b \in Bookings |-> Booked(plan.slots[b])]
          /\ faults = plan.faults
    /\ challenge = NoChallenge
    /\ poll = Idle
    /\ scan = [b \in Bookings |-> Idle] /\ adrift = FALSE
    /\ m = NewMachine /\ polledAt = now
    /\ granted = 0 /\ told = 0 /\ raced = FALSE

-----------------------------------------------------------------------------
(* The agent's poll.                                                       *)

SeatedIds(rs) == {b \in Bookings : Seated(rs[b], now)}

\* getSeatState up to its query of the bookings.
PollRead ==
    /\ poll.at = "idle"
    /\ rows' = Synced(rows, now)
    /\ IF SeatedIds(rows') = {} THEN poll' = [at |-> "offer"]
       ELSE \E b \in Latest(rows', now) : poll' = [at |-> "format", row |-> rows'[b]]
    /\ UNCHANGED <<now, challenge, phones, agent, faults, history>>

Scanning == {b \in Bookings : scan[b].at # "idle"}

\* A seat that a player has, or is about to get.
SeatTaken == SeatedIds(rows) \cup Scanning # {}

\* createQrChallenge, in a getSeatState that has found no booking on the seat: one
\* may have come since.  A new code on a free seat begins a new race.
Offer == challenge' = Offered(challenge, m.last.qr, now)

PollOffer ==
    /\ poll.at = "offer"
    /\ Offer
    /\ raced' = IF challenge' = challenge THEN raced ELSE SeatTaken
    /\ poll' = [at |-> "deliver", answer |-> LockedAnswer(challenge'.id), ends |-> 0]
    /\ UNCHANGED <<now, rows, phones, agent, faults, granted, told>>

\* The same for an answer that nobody waits for.
AdriftOffer ==
    /\ adrift
    /\ Offer
    /\ raced' = IF challenge' = challenge THEN raced ELSE TRUE
    /\ adrift' = FALSE
    /\ UNCHANGED <<now, rows, poll, scan, agent, faults, granted, told>>

\* The row is formatted after another await, at a later time.
PollFormat ==
    /\ poll.at = "format"
    /\ poll' = [at |-> "deliver", answer |-> SeatAnswer(poll.row, now),
                ends |-> IF GameRunning(poll.row, now) THEN poll.row.endAt ELSE 0]
    /\ UNCHANGED <<now, server, phones, agent, faults, history>>

PollDeliver ==
    /\ poll.at = "deliver"
    /\ m' = Apply(m, poll.answer, now)
    /\ polledAt' = now
    /\ told' = IF m'.mode = "locked" THEN 0
               ELSE IF poll.answer.kind = "locked" THEN told ELSE poll.ends
    /\ poll' = Idle
    /\ UNCHANGED <<now, server, phones, faults, granted, raced>>

\* The agent gives the poll up.
GiveUp ==
    /\ m' = Apply(m, [kind |-> "offline", remaining |-> 0, qr |-> None], now)
    /\ polledAt' = now
    /\ poll' = Idle
    /\ told' = IF m'.mode = "locked" THEN 0 ELSE told
    /\ UNCHANGED <<now, server, scan, granted, raced>>

\* The request or its answer is lost, wherever it was.
PollLost == GiveUp /\ UNCHANGED <<adrift, faults>>

\* The agent gives up a poll whose handler has found no booking and goes on.
PollAdrift ==
    /\ poll.at = "offer"
    /\ faults < MaxFaults /\ faults' = faults + 1
    /\ GiveUp
    /\ adrift' = TRUE

-----------------------------------------------------------------------------
(* The players and the administrator.                                      *)

UpTo(x, y) == IF x < y THEN y ELSE x

\* onScan: the app offers the scanner in the door window and during the game, and
\* what it sends is the code on the lock screen of the booking's own PC.
Scans(b) ==
    /\ m.mode = "locked" /\ m.last.qr # None
    /\ Ongoing(rows[b], now) /\ InDoorWindow(rows[b], now)

\* confirmQr up to its query of the booking, with the test of the code before it.
ConfirmQr(b) ==
    /\ scan[b].at = "idle" /\ Scans(b)
    /\ rows' = Synced(rows, now)
    /\ IF Valid(challenge, m.last.qr, now) /\ Unlockable(rows'[b], now)
       THEN /\ scan' = [scan EXCEPT ![b] = [at |-> "take", qr |-> m.last.qr]]
            /\ raced' = (raced \/ Scanning # {})
       ELSE UNCHANGED <<scan, raced>>
    /\ UNCHANGED <<now, challenge, poll, adrift, agent, faults, granted, told>>

\* TakeQr, with a code that may be used again (a fault the runs must notice).
TakeQrAgain(b) ==
    /\ scan[b].at = "take"
    /\ IF rows[b].status \in {"completed", "cancelled"}
       THEN scan' = [scan EXCEPT ![b] = Idle] /\ UNCHANGED rows
       ELSE /\ scan' = [scan EXCEPT ![b] = [at |-> "write"]]
            /\ rows' = [rows EXCEPT ![b] = Begun(@, now)]
    /\ UNCHANGED <<now, challenge, poll, adrift, agent, faults, history>>

\* The code is deleted; unlockBooking reads the row again and begins its game.
TakeQr(b) ==
    /\ scan[b].at = "take"
    /\ challenge' = IF challenge.id = scan[b].qr THEN NoChallenge ELSE challenge
    /\ IF rows[b].status \in {"completed", "cancelled"}
       THEN scan' = [scan EXCEPT ![b] = Idle] /\ UNCHANGED rows
       ELSE /\ scan' = [scan EXCEPT ![b] = [at |-> "write"]]
            /\ rows' = [rows EXCEPT ![b] = Begun(@, now)]
    /\ UNCHANGED <<now, poll, adrift, agent, faults, history>>

\* unlockBooking writes whatever the row has become, and asks getSeatState for an
\* answer that goes nowhere.
WriteUnlock(b) ==
    /\ scan[b].at = "write"
    /\ scan' = [scan EXCEPT ![b] = Idle]
    /\ rows' = Synced([rows EXCEPT ![b].unlockedAt = now], now)
    /\ granted' = IF rows[b].status \in {"paid", "active"}
                  THEN UpTo(granted, rows[b].endAt) ELSE granted
    /\ adrift' = (adrift \/ SeatedIds(rows') = {})
    /\ UNCHANGED <<now, challenge, poll, agent, faults, told, raced>>

\* The widget's button: the server ends the game, or takes an unlock back that
\* came before the start.
EndSeatSession ==
    /\ m.mode # "locked"
    /\ LET synced == Synced(rows, now) IN
       IF SeatedIds(synced) = {} THEN rows' = synced
       ELSE \E b \in Latest(synced, now) :
               rows' = IF synced[b].status = "active"
                       THEN [synced EXCEPT ![b] = Release([@ EXCEPT !.endAt = now], "completed")]
                       ELSE [synced EXCEPT ![b].unlockedAt = None]
    /\ UNCHANGED <<now, challenge, poll, phones, agent, faults, history>>

\* The app's button.
EndSession(b) ==
    /\ Ongoing(rows[b], now) /\ rows[b].status = "active"
    /\ rows' = [rows EXCEPT ![b] = Release([@ EXCEPT !.endAt = now], "completed")]
    /\ UNCHANGED <<now, challenge, poll, phones, agent, faults, history>>

ExtendSession(b) ==
    /\ Ongoing(rows[b], now) /\ rows[b].status = "active" /\ rows[b].phase = "playing"
    /\ rows[b].endAt + Addition <= rows[b].startAt + MaxLength
    /\ rows' = [rows EXCEPT ![b].endAt = @ + Addition]
    /\ granted' = IF rows[b].unlockedAt = None THEN granted ELSE UpTo(granted, rows'[b].endAt)
    /\ UNCHANGED <<now, challenge, poll, phones, agent, faults, told, raced>>

\* The player cancels a paid booking; the administrator also a running one.
Cancel(b) ==
    /\ rows[b].status \in {"paid", "active"}
    /\ rows' = [rows EXCEPT ![b].status = "cancelled"]
    /\ UNCHANGED <<now, challenge, poll, phones, agent, faults, history>>

-----------------------------------------------------------------------------
(* Time and faults.                                                        *)

\* The scheduler's minute: the sync pass, then the no-shows.
SchedulerTick ==
    /\ LET synced == Synced(rows, now) IN
       rows' = [b \in Bookings |-> IF NoShowDue(synced[b], now)
                                   THEN Release(synced[b], "no_show") ELSE synced[b]]
    /\ UNCHANGED <<now, challenge, poll, phones, agent, faults, history>>

\* The agent polls at least every MaxGap.  A confirmation that takes a tick counts
\* as a fault.
Tick ==
    /\ now < MaxNow /\ now < polledAt + MaxGap
    /\ now' = now + 1
    /\ faults' = IF Scanning = {} THEN faults ELSE faults + 1
    /\ faults' <= MaxFaults
    /\ UNCHANGED <<server, poll, phones, agent, history>>

\* The API forgets its challenges, and the requests in flight are lost.
RestartApi ==
    /\ faults < MaxFaults /\ faults' = faults + 1
    /\ challenge' = NoChallenge
    /\ poll' = IF poll.at = "idle" THEN poll ELSE [at |-> "lost"]
    /\ scan' = [b \in Bookings |-> Idle] /\ adrift' = FALSE
    /\ UNCHANGED <<now, rows, agent, history>>

\* The PC comes back locked and learns from the server what it was doing.
Reboot ==
    /\ faults < MaxFaults /\ faults' = faults + 1
    /\ m' = NewMachine
    /\ polledAt' = now
    /\ poll' = Idle
    /\ told' = 0
    /\ UNCHANGED <<now, server, phones, granted, raced>>

Next ==
    \/ PollRead \/ PollOffer \/ PollFormat \/ PollDeliver \/ PollLost
    \/ PollAdrift \/ AdriftOffer
    \/ \E b \in Bookings :
          ConfirmQr(b) \/ TakeQr(b) \/ WriteUnlock(b)
          \/ EndSession(b) \/ ExtendSession(b) \/ Cancel(b)
    \/ EndSeatSession
    \/ SchedulerTick \/ Tick \/ RestartApi \/ Reboot

Spec == Init /\ [][Next]_vars

\* The agent's loop never stops, a request the API has dropped times out, and
\* answers are not lost for ever.
FairSpec ==
    /\ Spec
    /\ WF_vars(PollRead) /\ WF_vars(poll.at = "lost" /\ PollLost)
    /\ SF_vars(PollOffer \/ PollFormat) /\ SF_vars(PollDeliver)

-----------------------------------------------------------------------------
(* Properties.                                                             *)

\* No free play, end to end: whatever is lost, cancelled, restarted or late, a
\* PC is locked at the latest a grace and four polls after the end of every
\* booking it was unlocked with.
NoFreePlay == m.mode # "locked" => now < granted + Grace + 4 * MaxGap

\* A PC never locks, but by a reboot, in the middle of a game whose end the agent
\* was told of, unless players raced for the seat (see OneSeated).
NoEviction ==
    [][m.mode # "locked" /\ m'.mode = "locked" /\ faults' = faults /\ ~raced =>
          ~\E b \in Bookings : Seated(rows[b], now) /\ rows[b].endAt = told]_vars

\* A code unlocks the PC for one player: two bookings of a seat, even an extended
\* one and the one it runs into, are not both playing on it.  The code lets it
\* happen in these cases only, since the code on the lock was made: two
\* confirmations of it overlapped, between its test and its deletion or its write;
\* it was made for a seat that a player had, or was confirming, by an answer that
\* had read the bookings before; or by an answer nobody waited for any more.
OneSeated == raced \/ \A b, c \in SeatedIds(rows) : b = c

SeatedNow == SeatedIds(rows) # {}

\* A player who has scanned the code gets the PC, and one whose session is over
\* gives it back, once answers come through.
ScannedSeatOpens == SeatedNow ~> (m.mode # "locked" \/ ~SeatedNow)
EndedSeatLocks   == ~SeatedNow ~> (m.mode = "locked" \/ SeatedNow)

\* stopkek-kiosk-v2/README.md, docs/INSTALL-CLUB-PC.md: when the time is over the
\* player may finish the round in the grace, and only then the PC locks.  The
\* code does not keep it while answers come: the sync pass completes the booking
\* at its end, and the answer is 'locked', not 'expired'.
GraceBeforeLock ==
    [][m.mode # "locked" /\ m'.mode = "locked" /\ faults' = faults =>
          \A b \in Bookings :
              rows[b].endAt = told /\ rows[b].status # "cancelled" => now >= told + Grace]_vars

\* stopkek-kiosk-v2/README.md: offline, ACTIVE plays on to endAt and then the
\* grace.  The code does not keep it: before the start of the booking the local
\* countdown runs to startAt.
OfflinePlaysToEnd ==
    [][m.mode # "locked" /\ m'.mode = "locked" /\ faults' = faults =>
          ~\E b \in Bookings : Seated(rows[b], now)]_vars
-----------------------------------------------------------------------------
(* The inductive invariant.                                                *)

\* A booking that may be played has a length, and one the PC was unlocked with
\* is among what the player was granted.
RowIsGranted(r, end) ==
    r.status \in {"paid", "active"} =>
        r.startAt < r.endAt /\ (r.unlockedAt # None => r.endAt <= end)

RowsAreGranted == \A b \in Bookings : RowIsGranted(rows[b], granted)

\* A row read by a poll: no longer than what was granted, not over when the
\* agent last heard.
ReadIsGranted ==
    /\ poll.row.startAt < poll.row.endAt
    /\ polledAt < poll.row.endAt /\ poll.row.endAt <= granted

\* An answer on its way, by its kind.
AnswerIsGranted ==
    LET ans == poll.answer IN
    /\ ans.kind \in {"active", "expired", "locked"}
    /\ ans.kind = "expired" => ans.remaining = 0
    /\ ans.kind # "locked" =>
          /\ polledAt + ans.remaining <= granted /\ polledAt < granted
          /\ poll.ends <= now + ans.remaining

\* A held 'locked' answer is one more poll without a new grant.
Held == IF m.streak = 0 THEN 0 ELSE MaxGap

\* The local countdown of a PC in play, and its grace: how far either may be
\* beyond what was granted.
CountdownIsGranted ==
    /\ m.anchoredAt # None /\ m.deadline = None
    /\ m.anchoredAt + m.anchor <= granted + MaxGap
    /\ told <= m.anchoredAt + m.anchor
    /\ polledAt < granted + MaxGap + Held

GraceIsGranted ==
    /\ Grace > 0 /\ m.deadline # None
    /\ told <= polledAt
    /\ m.deadline <= polledAt + Grace
    /\ m.deadline < granted + Grace + 2 * MaxGap + Held
    /\ polledAt < granted + Grace + 2 * MaxGap + Held
    /\ m.streak = 0 => polledAt < m.deadline

AgentIsGranted ==
    /\ m.mode = "locked" => m.deadline = None
    /\ m.mode # "locked" => m.streak < LockHysteresis
    /\ m.mode = "active" => CountdownIsGranted
    /\ m.mode = "grace" => GraceIsGranted

\* Without a race: a code or a confirmation means a free seat, and a confirmation
\* under way is the only one, of the code on offer or of one that is gone.
CodeMeansFree == challenge # NoChallenge => SeatedIds(rows) = {}

ScanIsAlone ==
    \A b \in Scanning :
        /\ Scanning = {b} /\ SeatedIds(rows) = {} /\ m.mode = "locked"
        /\ challenge = NoChallenge \/ (scan[b].at = "take" /\ challenge.id = scan[b].qr)

\* Without a race, a row that was read is the seat's: no code can be scanned until
\* the answer is there, and the session it continues does not end later.
ReadIsAlone ==
    /\ challenge = NoChallenge /\ Scanning = {}
    /\ m.mode # "locked" => told <= poll.row.endAt
    /\ \A b \in SeatedIds(rows) : poll.row.endAt <= rows[b].endAt

AnswerIsAlone ==
    IF poll.answer.kind = "locked" THEN m.mode # "locked" => SeatedIds(rows) = {}
    ELSE /\ challenge = NoChallenge /\ Scanning = {}
         /\ poll.answer.remaining = 0 /\ m.mode # "locked" => told <= now
         /\ \A b \in SeatedIds(rows) : poll.ends <= rows[b].endAt

SeatIsOnes ==
    /\ \A b, c \in SeatedIds(rows) : b = c
    /\ CodeMeansFree /\ ScanIsAlone
    /\ poll.at = "format" => ReadIsAlone
    /\ poll.at = "deliver" => AnswerIsAlone
    /\ m.mode # "locked" => \A b \in SeatedIds(rows) : told <= rows[b].endAt

SeatInv ==
    /\ TypeOK
    /\ now <= polledAt + MaxGap
    /\ RowsAreGranted
    /\ poll.at = "format" => ReadIsGranted
    /\ poll.at = "deliver" => AnswerIsGranted
    /\ AgentIsGranted
    /\ raced \/ SeatIsOnes
=============================================================================
