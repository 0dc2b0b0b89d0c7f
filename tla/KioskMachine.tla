---------------------------- MODULE KioskMachine ----------------------------
(***************************************************************************)
(* SessionStateMachine.Apply of the PC agent, as a function: the machine   *)
(* before a poll, the poll's outcome and the monotonic clock give the      *)
(* machine after it.  The C# object is pure in the same sense; its fields  *)
(* are the fields of a record here.                                        *)
(*                                                                         *)
(* A poll's outcome is "offline", or a server answer "active" (a session   *)
(* with this much time left), "expired" or "locked" (with a QR code).  An  *)
(* "active" answer always carries its session: getSeatState sends both or  *)
(* neither.  The texts, toasts and names of the view are left out.         *)
(***************************************************************************)
EXTENDS Integers

CONSTANTS
    Grace,          \* KioskConfig.Grace, 0 locks at once
    MaxGap,         \* poll interval and HTTP timeout: the longest time between two polls
    QrCodes         \* codes that a "locked" answer may carry

ASSUME GraceAssumption == Grace \in Nat

ASSUME PollAssumption == MaxGap \in Nat \ {0} /\ QrCodes \subseteq Nat

\* Consecutive 'locked' answers that drop a session.
LockHysteresis == 2

None == -1

Modes == {"locked", "active", "grace"}

Kinds == {"active", "expired", "locked", "offline"}

\* What the shell is shown: the mode, the time left and the QR on the lock.
View == [mode : Modes, left : Nat, qr : Int]

Machine == [mode : Modes, anchor : Nat, anchoredAt : Int, deadline : Int, streak : Nat, last : View]

Poll == [kind : Kinds, remaining : Nat, qr : Int]

LockView(qr) == [mode |-> "locked", left |-> 0, qr |-> qr]

TimeView(mode, left) == [mode |-> mode, left |-> left, qr |-> None]

NewMachine ==
    [mode |-> "locked", anchor |-> 0, anchoredAt |-> None, deadline |-> None, streak |-> 0,
     last |-> LockView(None)]

-----------------------------------------------------------------------------
(* Faults the runs must notice: each replaces the definition it names.      *)

\* EnterLocked, without the second look.
EnterLockedAtOnce(m, poll, t) ==
    [m EXCEPT !.mode = "locked", !.streak = 0, !.deadline = None, !.anchoredAt = None,
              !.last = LockView(poll.qr)]

\* GraceDeadline, counted anew at every poll.
GraceDeadlineAnew(m, t) == t + Grace

\* ComputeRemaining, from the wall clock of the last answer.
ComputeRemainingAnchored(m, t) == IF m.anchoredAt = None THEN 0 ELSE m.anchor

\* ComputeRemaining, on a clock that starts with the machine.
ComputeRemainingFromBoot(m, t) ==
    IF m.anchoredAt = None \/ m.anchor <= t THEN 0 ELSE m.anchor - t

\* EnterLocked, with the count begun anew at every answer.
EnterLockedUncounted(m, poll, t) ==
    IF m.mode # "locked" THEN [m EXCEPT !.streak = 1]
    ELSE [m EXCEPT !.streak = 0, !.deadline = None, !.anchoredAt = None, !.last = LockView(poll.qr)]

-----------------------------------------------------------------------------

\* Paid time left on the local, monotonic countdown.
ComputeRemaining(m, t) ==
    IF m.anchoredAt = None \/ m.anchor <= t - m.anchoredAt THEN 0
    ELSE m.anchor - (t - m.anchoredAt)

\* The end of the grace window that runs, or starts, at t.
GraceDeadline(m, t) == IF m.deadline = None THEN t + Grace ELSE m.deadline

\* On an "expired" answer the lock carries no QR code: qr is None then.
Lock(m, qr) ==
    [m EXCEPT !.mode = "locked", !.streak = 0, !.deadline = None, !.anchoredAt = None,
              !.last = LockView(qr)]

EnterGrace(m, poll, t) ==
    IF Grace = 0 \/ GraceDeadline(m, t) <= t THEN Lock(m, poll.qr)
    ELSE [m EXCEPT !.mode = "grace", !.streak = 0, !.deadline = GraceDeadline(m, t),
                   !.last = TimeView("grace", GraceDeadline(m, t) - t)]

\* The countdown restarts from the server's value; a value of 0 begins grace.
EnterActive(m, poll, t) ==
    LET anchored == [m EXCEPT !.streak = 0, !.deadline = None,
                              !.anchor = poll.remaining, !.anchoredAt = t] IN
    IF poll.remaining = 0 THEN EnterGrace(anchored, poll, t)
    ELSE [anchored EXCEPT !.mode = "active", !.last = TimeView("active", poll.remaining)]

\* One 'locked' answer is held; the view stays the one before.
EnterLocked(m, poll, t) ==
    IF m.mode # "locked" /\ m.streak + 1 < LockHysteresis
    THEN [m EXCEPT !.streak = @ + 1]
    ELSE Lock(m, poll.qr)

\* The lock here leaves the countdown and the streak as they are.
ApplyOfflineGrace(m, t) ==
    IF Grace = 0 THEN [m EXCEPT !.mode = "locked", !.last = LockView(None)]
    ELSE IF GraceDeadline(m, t) <= t
    THEN [m EXCEPT !.mode = "locked", !.deadline = None, !.last = LockView(None)]
    ELSE [m EXCEPT !.mode = "grace", !.deadline = GraceDeadline(m, t),
                   !.last = TimeView("grace", GraceDeadline(m, t) - t)]

\* Offline, a lock keeps its QR and a session its local countdown.
ApplyOffline(m, t) ==
    CASE m.mode = "locked" -> [m EXCEPT !.last = LockView(m.last.qr)]
      [] m.mode = "active" /\ ComputeRemaining(m, t) > 0 ->
            [m EXCEPT !.last.left = ComputeRemaining(m, t)]
      [] OTHER -> ApplyOfflineGrace(m, t)

Apply(m, poll, t) ==
    CASE poll.kind = "active"  -> EnterActive(m, poll, t)
      [] poll.kind = "expired" -> EnterGrace(m, poll, t)
      [] poll.kind = "locked"  -> EnterLocked(m, poll, t)
      [] poll.kind = "offline" -> ApplyOffline(m, t)
=============================================================================
