------------------------ MODULE SessionStateMachine ------------------------
(***************************************************************************)
(* The agent's state machine under every stream of poll results: answers   *)
(* and failures in any order, with any gaps up to MaxGap between them (the *)
(* poll interval and the HTTP timeout bound the gap).  SeatSession puts    *)
(* the real server at the other end.                                       *)
(***************************************************************************)
EXTENDS KioskMachine

CONSTANTS
    Offers,         \* times left that an "active" answer may carry
    Horizon         \* bound: the last poll

ASSUME AgentAssumption ==
    /\ Horizon \in Nat
    /\ Offers \subseteq Nat

VARIABLES
    clock,      \* Worker's stopwatch at the last poll
    machine,    \* what Apply works on
    answer,     \* history: the kind of the last poll
    until,      \* history: the end of the last stretch of play the server granted
    refusals    \* history: 'locked' answers since the last session the server saw

agentVars == <<clock, machine, answer, until, refusals>>

AgentTypeOK ==
    /\ clock \in Nat
    /\ machine \in Machine
    /\ answer \in Kinds
    /\ until \in Nat
    /\ refusals \in Nat

AgentInit ==
    /\ clock = 0
    /\ machine = NewMachine
    /\ answer = "offline"
    /\ until = 0
    /\ refusals = 0

\* What an outcome at time t grants: "active" the time left; "expired" nothing
\* beyond t, and on a PC that was locked a grace that begins at t.
Granted(poll, t) ==
    CASE poll.kind = "active" -> t + poll.remaining
      [] poll.kind = "expired" -> IF machine.mode = "locked" \/ t < until THEN t ELSE until
      [] OTHER -> until

Observe(poll, t) ==
    /\ clock' = t
    /\ machine' = Apply(machine, poll, t)
    /\ answer' = poll.kind
    /\ until' = Granted(poll, t)
    /\ refusals' = CASE poll.kind \in {"active", "expired"} -> 0
                     [] poll.kind = "locked" -> IF refusals < LockHysteresis THEN refusals + 1
                                                ELSE refusals
                     [] OTHER -> refusals

\* One round of Worker's loop, with the answer it got.
Polled(kind, left, qr) ==
    \E gap \in 1..MaxGap :
        /\ clock + gap <= Horizon
        /\ Observe([kind |-> kind, remaining |-> left, qr |-> qr], clock + gap)

PollActive  == \E left \in Offers : Polled("active", left, None)
PollExpired == Polled("expired", 0, None)
PollLocked  == \E qr \in QrCodes : Polled("locked", 0, qr)
PollOffline == Polled("offline", 0, None)

AgentNext == PollActive \/ PollExpired \/ PollLocked \/ PollOffline

AgentSpec == AgentInit /\ [][AgentNext]_agentVars

-----------------------------------------------------------------------------
(* Properties.                                                             *)

\* The shell renders what the machine is in, held views included: a PC in
\* play never shows the lock and its code, and a locked one never the timer.
ViewIsMode ==
    /\ machine.last.mode = machine.mode
    /\ machine.mode # "locked" => machine.last.qr = None

\* A locked PC that has just heard from the server shows a code to scan.
LockCanBeOpened == machine.mode = "locked" /\ answer = "locked" => machine.last.qr \in QrCodes

\* No free play: whatever fails, a PC is locked at the latest one grace and
\* three polls after the end of the time the server last granted.
LocksInTheEnd == machine.mode # "locked" => clock < until + Grace + 3 * MaxGap

\* The time left that a poll puts on the screen does not reach beyond what the server granted -
\* but for a poll whose 'locked' answer is held: it republishes the view of the poll before, which
\* is by then too high by the time between the two, one gap at most.
TimerIsHonest ==
    machine.mode = "active" =>
        clock + machine.last.left <= until + (IF machine.streak = 0 THEN 0 ELSE MaxGap)

\* A paying player is not thrown out (Apply's hysteresis and grace): a PC locks only after two 'locked'
\* answers, or when the granted time and the grace after it are both over.
LocksInTime ==
    machine.mode # "locked" /\ machine'.mode = "locked" =>
        refusals' >= LockHysteresis \/ clock' >= until' + Grace

PaidTimeIsKept == [][LocksInTime]_agentVars

-----------------------------------------------------------------------------

InActive ==
    /\ machine.anchoredAt # None /\ machine.deadline = None
    /\ until = machine.anchoredAt + machine.anchor
    /\ clock < until + MaxGap
    /\ machine.streak = 0 => clock < until /\ clock + machine.last.left <= until
    /\ clock + machine.last.left <= until + MaxGap

InGrace ==
    /\ Grace > 0 /\ machine.deadline # None /\ until <= clock
    /\ until + Grace <= machine.deadline /\ machine.deadline <= until + Grace + 2 * MaxGap
    /\ clock < machine.deadline + MaxGap
    /\ machine.streak = 0 => clock < machine.deadline

\* The inductive invariant: where the countdown and the grace deadline stand
\* against the granted time in each mode.
AgentInv ==
    /\ AgentTypeOK
    /\ ViewIsMode
    /\ LockCanBeOpened
    /\ machine.mode = "active" => InActive
    /\ machine.mode = "grace" => InGrace
    /\ machine.mode # "locked" => machine.streak <= refusals /\ machine.streak < LockHysteresis
    /\ machine.mode = "locked" => machine.deadline = None
=============================================================================
