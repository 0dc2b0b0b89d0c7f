---------------------------- MODULE Session_proofs ---------------------------
(***************************************************************************)
(* Proofs about the session on a PC.  First the agent's machine: what each *)
(* outcome of a poll makes of it, and what follows for every stream of     *)
(* outcomes (SessionStateMachine).  Then a seat from end to end            *)
(* (SeatSession), for every number of bookings and every length of a       *)
(* booking, a grace, a poll gap and a code's life: the PC is not played on *)
(* for nothing, a code lets one player in, and nobody is thrown out of a   *)
(* running game.                                                           *)
(***************************************************************************)
EXTENDS SessionStateMachine, SeatSession, FiniteSetTheorems, TLAPS

USE GraceAssumption, PollAssumption DEF None, LockHysteresis

LEMMA NoneIsNoTime == None \in Int /\ None \notin Nat
OBVIOUS

\* Setting the fields of a machine leaves a machine; few at a time, since the
\* solver gives up on longer updates.
LEMMA Relocked ==
    ASSUME NEW w \in Machine, NEW v \in View
    PROVE  [w EXCEPT !.mode = "locked", !.streak = 0, !.deadline = None, !.anchoredAt = None,
                     !.last = v] \in Machine
<1>1. PICK y : y = [w EXCEPT !.mode = "locked", !.streak = 0]
  OBVIOUS
<1>2. y \in Machine
  BY <1>1 DEF Machine, Modes
<1>3. PICK x : x = [y EXCEPT !.deadline = None, !.anchoredAt = None, !.last = v]
  OBVIOUS
<1>4. None \in Int
  OBVIOUS
<1> HIDE DEF None
<1>5. x \in Machine
  BY <1>2, <1>3, <1>4 DEF Machine
<1>6. QED BY <1>1, <1>3, <1>5

LEMMA Graced ==
    ASSUME NEW w \in Machine, NEW d \in Int, NEW v \in View
    PROVE  [w EXCEPT !.mode = "grace", !.streak = 0, !.deadline = d, !.last = v] \in Machine
<1>1. PICK y : y = [w EXCEPT !.mode = "grace", !.streak = 0]
  OBVIOUS
<1>2. y \in Machine
  BY <1>1 DEF Machine, Modes
<1>3. PICK x : x = [y EXCEPT !.deadline = d, !.last = v]
  OBVIOUS
<1>4. x \in Machine
  BY <1>2, <1>3 DEF Machine
<1>5. QED BY <1>1, <1>3, <1>4

LEMMA Anchored ==
    ASSUME NEW w \in Machine, NEW r \in Nat, NEW t \in Nat
    PROVE  [w EXCEPT !.streak = 0, !.deadline = None, !.anchor = r, !.anchoredAt = t] \in Machine
<1>1. PICK y : y = [w EXCEPT !.streak = 0, !.deadline = None]
  OBVIOUS
<1>2. None \in Int /\ t \in Int
  OBVIOUS
<1> HIDE DEF None
<1>3. y \in Machine
  BY <1>1, <1>2 DEF Machine
<1>4. PICK x : x = [y EXCEPT !.anchor = r, !.anchoredAt = t]
  OBVIOUS
<1>5. x \in Machine
  BY <1>2, <1>3, <1>4 DEF Machine
<1>6. QED BY <1>1, <1>4, <1>5

LEMMA Ended ==
    ASSUME NEW w \in Machine, NEW v \in View
    PROVE  [w EXCEPT !.mode = "locked", !.deadline = None, !.last = v] \in Machine
<1>1. None \in Int /\ "locked" \in Modes
  BY DEF Modes
<1> HIDE DEF None
<1>2. QED BY <1>1 DEF Machine

\* What one outcome makes of the machine, field by field.
LEMMA LockFields ==
    ASSUME NEW w \in Machine, NEW qr \in Int
    PROVE  /\ Lock(w, qr) \in Machine
           /\ Lock(w, qr).mode = "locked" /\ Lock(w, qr).deadline = None
           /\ Lock(w, qr).last.mode = "locked" /\ Lock(w, qr).last.qr = qr
<1>1. LockView(qr) \in View /\ LockView(qr).mode = "locked" /\ LockView(qr).qr = qr
  BY DEF LockView, View, Modes
<1>2. Lock(w, qr) \in Machine
  BY <1>1, Relocked DEF Lock
<1>3. /\ Lock(w, qr).mode = "locked" /\ Lock(w, qr).deadline = None
      /\ Lock(w, qr).last = LockView(qr)
  BY DEF Lock, Machine
<1>4. QED BY <1>1, <1>2, <1>3

\* The outcomes of the three larger handlers: the machine x they make of w.
GraceOutcome(x, d, out, t) ==
    \/ /\ x.mode = "locked" /\ x.deadline = None /\ (Grace = 0 \/ d <= t)
       /\ x.last.mode = "locked" /\ x.last.qr = out.qr
    \/ /\ x.mode = "grace" /\ x.deadline = d /\ d > t /\ x.streak = 0
       /\ x.last.mode = "grace" /\ x.last.qr = None /\ Grace # 0

ActiveOutcome(x, out, t) ==
    \/ /\ x.mode = "active" /\ x.deadline = None /\ x.streak = 0
       /\ x.anchor = out.remaining /\ x.anchoredAt = t /\ out.remaining > 0
       /\ x.last.mode = "active" /\ x.last.qr = None /\ x.last.left = out.remaining
    \/ /\ x.mode = "locked" /\ x.deadline = None /\ x.last.mode = "locked"
       /\ Grace = 0 /\ out.remaining = 0
    \/ /\ x.mode = "grace" /\ x.deadline = t + Grace /\ x.streak = 0
       /\ x.last.mode = "grace" /\ x.last.qr = None
       /\ Grace > 0 /\ out.remaining = 0

OfflineOutcome(x, w, d, t) ==
    \/ /\ w.mode = "locked" /\ x.mode = "locked" /\ x.deadline = w.deadline
       /\ x.last.mode = "locked"
    \/ /\ w.mode = "active" /\ x.mode = "active" /\ w.anchoredAt # None
       /\ t < w.anchoredAt + w.anchor
       /\ x.anchor = w.anchor /\ x.anchoredAt = w.anchoredAt /\ x.streak = w.streak
       /\ x.deadline = w.deadline /\ x.last.mode = w.last.mode /\ x.last.qr = w.last.qr
       /\ t + x.last.left = w.anchoredAt + w.anchor
    \/ /\ w.mode # "locked"
       /\ (w.mode = "active" => w.anchoredAt = None \/ t >= w.anchoredAt + w.anchor)
       /\ x.last.mode = x.mode
       /\ \/ x.mode = "locked" /\ Grace = 0 /\ x.deadline = w.deadline
          \/ x.mode = "locked" /\ Grace # 0 /\ d <= t /\ x.deadline = None
          \/ /\ x.mode = "grace" /\ Grace # 0 /\ d > t /\ x.deadline = d
             /\ x.streak = w.streak /\ x.last.qr = None

\* Grace runs to a deadline set when it began, or it is over and the PC locks.
LEMMA EnterGraceFields ==
    ASSUME NEW w \in Machine, NEW out \in Poll, NEW t \in Nat,
           NEW x, x = EnterGrace(w, out, t),
           NEW d, d = GraceDeadline(w, t)
    PROVE  x \in Machine /\ GraceOutcome(x, d, out, t)
<1>1. d \in Int
  BY DEF GraceDeadline, Machine
<1>2. CASE Grace = 0 \/ d <= t
  <2>1. x = Lock(w, out.qr) BY <1>2 DEF EnterGrace
  <2>2. out.qr \in Int BY DEF Poll
  <2>3. /\ x \in Machine /\ x.mode = "locked" /\ x.deadline = None
        /\ x.last.mode = "locked" /\ x.last.qr = out.qr
    BY <2>1, <2>2, LockFields
  <2>4. QED BY <1>2, <2>3 DEF GraceOutcome
<1>3. CASE ~(Grace = 0 \/ d <= t)
  <2>1. TimeView("grace", d - t) \in View
    BY <1>1, <1>3 DEF TimeView, View, Modes
  <2>2. x = [w EXCEPT !.mode = "grace", !.streak = 0, !.deadline = d,
                      !.last = TimeView("grace", d - t)]
    BY <1>3 DEF EnterGrace
  <2>3. x.mode = "grace" /\ x.deadline = d /\ x.streak = 0 /\ x.last = TimeView("grace", d - t)
    BY <2>2 DEF Machine
  <2>4. x \in Machine
    <3>1. [w EXCEPT !.mode = "grace", !.streak = 0, !.deadline = d,
                    !.last = TimeView("grace", d - t)] \in Machine
      BY <1>1, <2>1, Graced, Zenon
    <3>2. QED BY <2>2, <3>1, Zenon
  <2>5. QED BY <1>1, <1>3, <2>3, <2>4 DEF GraceOutcome, TimeView
<1>4. QED BY <1>2, <1>3

LEMMA EnterActiveFields ==
    ASSUME NEW w \in Machine, NEW out \in Poll, NEW t \in Nat,
           NEW x, x = EnterActive(w, out, t)
    PROVE  x \in Machine /\ ActiveOutcome(x, out, t)
<1>0. out.remaining \in Nat
  BY DEF Poll
<1>1. PICK a : a = [w EXCEPT !.streak = 0, !.deadline = None, !.anchor = out.remaining,
                             !.anchoredAt = t]
  OBVIOUS
<1>2. /\ a.streak = 0 /\ a.deadline = None /\ a.anchor = out.remaining /\ a.anchoredAt = t
      /\ a.last = w.last
  BY <1>1 DEF Machine
<1>3. a \in Machine
  BY <1>0, <1>1, Anchored
<1>4. CASE out.remaining = 0
  <2>1. x = EnterGrace(a, out, t)
    BY <1>1, <1>4 DEF EnterActive
  <2>2. GraceDeadline(a, t) = t + Grace
    BY <1>2 DEF GraceDeadline
  <2>3. x \in Machine /\ GraceOutcome(x, t + Grace, out, t)
    BY <1>3, <2>1, <2>2, EnterGraceFields
  <2>4. QED BY <1>4, <2>3 DEF GraceOutcome, ActiveOutcome
<1>5. CASE out.remaining # 0
  <2>1. x = [a EXCEPT !.mode = "active", !.last = TimeView("active", out.remaining)]
    BY <1>1, <1>5 DEF EnterActive
  <2>2. TimeView("active", out.remaining) \in View
    BY <1>0 DEF TimeView, View, Modes
  <2>3. /\ x.mode = "active" /\ x.deadline = a.deadline /\ x.streak = a.streak
        /\ x.anchor = a.anchor /\ x.anchoredAt = a.anchoredAt
        /\ x.last = TimeView("active", out.remaining)
    BY <1>3, <2>1 DEF Machine
  <2>4. x \in Machine
    BY <1>3, <2>1, <2>2 DEF Machine, Modes
  <2>5. QED BY <1>0, <1>2, <1>5, <2>3, <2>4 DEF ActiveOutcome, TimeView
<1>6. QED BY <1>4, <1>5

\* A lone 'locked' answer only counts; the second one, or any on the lock, locks.
LEMMA EnterLockedFields ==
    ASSUME NEW w \in Machine, NEW out \in Poll, NEW t \in Nat,
           NEW x, x = EnterLocked(w, out, t)
    PROVE  /\ x \in Machine
           /\ \/ /\ x.mode = w.mode /\ x.anchor = w.anchor /\ x.anchoredAt = w.anchoredAt
                 /\ x.deadline = w.deadline /\ x.last = w.last /\ x.streak = w.streak + 1
                 /\ w.mode # "locked" /\ w.streak + 1 < 2
              \/ /\ x.mode = "locked" /\ x.deadline = None /\ x.last.mode = "locked"
                 /\ x.last.qr = out.qr
                 /\ (w.mode = "locked" \/ w.streak + 1 >= 2)
<1>1. out.qr \in Int /\ w.streak \in Nat
  BY DEF Poll, Machine
<1>2. CASE w.mode # "locked" /\ w.streak + 1 < 2
  BY <1>2 DEF EnterLocked, Machine
<1>3. CASE ~(w.mode # "locked" /\ w.streak + 1 < 2)
  <2>1. x = Lock(w, out.qr)
    BY <1>3 DEF EnterLocked
  <2>2. out.qr \in Int
    BY <1>1
  <2>3. /\ x \in Machine /\ x.mode = "locked" /\ x.deadline = None
        /\ x.last.mode = "locked" /\ x.last.qr = out.qr
    BY <2>1, <2>2, LockFields
  <2>4. QED BY <1>1, <1>3, <2>3
<1>4. QED BY <1>2, <1>3

\* Without the server a lock stays, a session runs on its local countdown, and
\* a countdown that is over begins or ends the grace.
LEMMA OfflineFields ==
    ASSUME NEW w \in Machine, NEW t \in Nat,
           NEW x, x = ApplyOffline(w, t),
           NEW d, d = GraceDeadline(w, t)
    PROVE  x \in Machine /\ OfflineOutcome(x, w, d, t)
<1>0. w.anchor \in Nat /\ w.anchoredAt \in Int /\ d \in Int /\ w.mode \in Modes /\ w.last \in View
  BY DEF Machine, GraceDeadline
<1>1. CASE w.mode = "locked"
  BY <1>0, <1>1 DEF OfflineOutcome, ApplyOffline, Machine, LockView, View, Modes
<1>2. CASE w.mode = "active" /\ ComputeRemaining(w, t) > 0
  <2>1. /\ w.anchoredAt # None /\ t < w.anchoredAt + w.anchor
        /\ ComputeRemaining(w, t) \in Nat
        /\ t + ComputeRemaining(w, t) = w.anchoredAt + w.anchor
    BY <1>0, <1>2 DEF ComputeRemaining
  <2>2. x = [w EXCEPT !.last.left = ComputeRemaining(w, t)]
    BY <1>2 DEF ApplyOffline
  <2>3. /\ x.mode = w.mode /\ x.anchor = w.anchor /\ x.anchoredAt = w.anchoredAt
        /\ x.streak = w.streak /\ x.deadline = w.deadline
        /\ x.last = [w.last EXCEPT !.left = ComputeRemaining(w, t)]
    BY <2>2 DEF Machine
  <2>4. /\ x.last \in View /\ x.last.mode = w.last.mode /\ x.last.qr = w.last.qr
        /\ x.last.left = ComputeRemaining(w, t)
    BY <1>0, <2>1, <2>3 DEF View
  <2>5. x \in Machine
    BY <2>1, <2>2, <2>4 DEF Machine, View
  <2>6. QED BY <1>2, <2>1, <2>3, <2>4, <2>5 DEF OfflineOutcome
<1>3. CASE w.mode # "locked" /\ ~(w.mode = "active" /\ ComputeRemaining(w, t) > 0)
  <2>1. x = ApplyOfflineGrace(w, t)
    BY <1>3 DEF ApplyOffline
  <2>2. w.mode = "active" => w.anchoredAt = None \/ t >= w.anchoredAt + w.anchor
    BY <1>0, <1>3 DEF ComputeRemaining
  <2>3. LockView(None) \in View /\ LockView(None).mode = "locked"
    BY DEF LockView, View, Modes
  <2>4. CASE Grace = 0
    <3>1. x = [w EXCEPT !.mode = "locked", !.last = LockView(None)]
      BY <2>1, <2>4 DEF ApplyOfflineGrace
    <3>2. x \in Machine /\ x.mode = "locked" /\ x.deadline = w.deadline /\ x.last = LockView(None)
      BY <2>3, <3>1 DEF Machine, Modes
    <3>3. QED BY <1>3, <2>2, <2>3, <2>4, <3>2 DEF OfflineOutcome
  <2>5. CASE Grace # 0 /\ d <= t
    <3>1. x = [w EXCEPT !.mode = "locked", !.deadline = None, !.last = LockView(None)]
      BY <2>1, <2>5 DEF ApplyOfflineGrace
    <3>2. x \in Machine /\ x.mode = "locked" /\ x.deadline = None /\ x.last = LockView(None)
      BY <2>3, <3>1, Ended DEF Machine
    <3>3. QED BY <1>3, <2>2, <2>3, <2>5, <3>2 DEF OfflineOutcome
  <2>6. CASE Grace # 0 /\ d > t
    <3>1. x = [w EXCEPT !.mode = "grace", !.deadline = d, !.last = TimeView("grace", d - t)]
      BY <1>0, <2>1, <2>6 DEF ApplyOfflineGrace
    <3>2. TimeView("grace", d - t) \in View /\ "grace" \in Modes
      BY <1>0, <2>6 DEF TimeView, View, Modes
    <3>3. /\ x.mode = "grace" /\ x.deadline = d /\ x.streak = w.streak
          /\ x.last = TimeView("grace", d - t)
      BY <3>1 DEF Machine
    <3>4. x \in Machine
      BY <1>0, <3>1, <3>2 DEF Machine
    <3>5. QED BY <1>3, <2>2, <2>6, <3>3, <3>4 DEF OfflineOutcome, TimeView
  <2>7. QED BY <1>0, <2>4, <2>5, <2>6
<1>4. QED BY <1>0, <1>1, <1>2, <1>3 DEF Modes
-----------------------------------------------------------------------------
USE AgentAssumption

(* The machine alone.  Every step of AgentNext is an Observe of an outcome *)
(* at a later time.                                                        *)

\* What the invariant says of the machine in numbers.
LEMMA AgentNumbers ==
    ASSUME AgentInv
    PROVE  /\ clock \in Nat /\ until \in Nat /\ refusals \in Nat /\ machine \in Machine
           /\ machine.anchor \in Nat /\ machine.anchoredAt \in Int
           /\ machine.deadline \in Int /\ machine.streak \in Nat
           /\ machine.mode \in Modes /\ machine.last.left \in Nat
BY DEF AgentInv, AgentTypeOK, Machine, View

LEMMA ActiveStep ==
    ASSUME AgentInv, NEW t \in Nat, clock < t, t <= clock + MaxGap,
           NEW out \in Poll, out.kind = "active", Observe(out, t)
    PROVE  AgentInv' /\ LocksInTime
<1>1. machine' = EnterActive(machine, out, t)
  BY DEF Observe, Apply
<1>2. clock' = t /\ answer' = "active" /\ until' = t + out.remaining /\ refusals' = 0
  BY DEF Observe, Granted
<1>3. out.remaining \in Nat
  BY DEF Poll
<1>4. machine' \in Machine
  BY <1>1, AgentNumbers, EnterActiveFields
<1>5. ActiveOutcome(machine', out, t)
  BY <1>1, AgentNumbers, EnterActiveFields
<1>6. AgentTypeOK'
  BY <1>2, <1>3, <1>4 DEF AgentTypeOK, Kinds
<1>7. AgentInv'
  BY <1>2, <1>3, <1>5, <1>6
     DEF ActiveOutcome, AgentInv, ViewIsMode, LockCanBeOpened, InActive, InGrace
<1>8. LocksInTime
  BY <1>2, <1>3, <1>5 DEF ActiveOutcome, LocksInTime
<1>9. QED BY <1>7, <1>8

LEMMA ExpiredStep ==
    ASSUME AgentInv, NEW t \in Nat, clock < t, t <= clock + MaxGap,
           NEW out \in Poll, out.kind = "expired", Observe(out, t)
    PROVE  AgentInv' /\ LocksInTime
<1>1. machine' = EnterGrace(machine, out, t)
  BY DEF Observe, Apply
<1>2. /\ clock' = t /\ answer' = "expired" /\ refusals' = 0
      /\ until' = IF machine.mode = "locked" \/ t < until THEN t ELSE until
  BY DEF Observe, Granted
<1>3. machine' \in Machine
  BY <1>1, AgentNumbers, EnterGraceFields
<1>4. PICK d : d = GraceDeadline(machine, t)
  OBVIOUS
<1>5. GraceOutcome(machine', d, out, t)
  BY <1>1, <1>4, AgentNumbers, EnterGraceFields
<1>6. d = IF machine.deadline = None THEN t + Grace ELSE machine.deadline
  BY <1>4 DEF GraceDeadline
<1>7. AgentTypeOK'
  BY <1>2, <1>3, AgentNumbers DEF AgentTypeOK, Kinds
\* The grace that runs, or begins, ends no earlier than the time granted and a
\* grace, and no later than two polls after that.
<1>8. until' <= t /\ (machine.mode # "locked" => until' <= until)
  BY <1>2, AgentNumbers
<1>9. d >= until' + Grace /\ d <= until' + Grace + 2 * MaxGap
  <2>1. CASE machine.mode = "locked"
    BY <1>2, <1>6, <2>1, AgentNumbers DEF AgentInv
  <2>2. CASE machine.mode = "active"
    BY <1>2, <1>6, <2>2, AgentNumbers DEF AgentInv, InActive
  <2>3. CASE machine.mode = "grace"
    BY <1>2, <1>6, <2>3, AgentNumbers DEF AgentInv, InGrace
  <2>4. QED BY <2>1, <2>2, <2>3, AgentNumbers DEF Modes
<1>10. AgentInv'
  BY <1>2, <1>5, <1>6, <1>7, <1>8, <1>9, AgentNumbers
     DEF GraceOutcome, AgentInv, ViewIsMode, LockCanBeOpened, InActive, InGrace
<1>11. LocksInTime
  BY <1>2, <1>5, <1>6, <1>8, <1>9, AgentNumbers DEF GraceOutcome, LocksInTime
<1>12. QED BY <1>10, <1>11

LEMMA LockedStep ==
    ASSUME AgentInv, NEW t \in Nat, clock < t, t <= clock + MaxGap,
           NEW out \in Poll, out.kind = "locked", out.qr \in QrCodes, Observe(out, t)
    PROVE  AgentInv' /\ LocksInTime
<1>1. machine' = EnterLocked(machine, out, t)
  BY DEF Observe, Apply
<1>2. /\ clock' = t /\ answer' = "locked" /\ until' = until
      /\ refusals' = IF refusals < 2 THEN refusals + 1 ELSE refusals
  BY DEF Observe, Granted
<1>3. machine' \in Machine
  BY <1>1, AgentNumbers, EnterLockedFields
<1>4. \/ /\ machine'.mode = machine.mode /\ machine'.anchor = machine.anchor
         /\ machine'.anchoredAt = machine.anchoredAt /\ machine'.deadline = machine.deadline
         /\ machine'.last = machine.last /\ machine'.streak = machine.streak + 1
         /\ machine.mode # "locked" /\ machine.streak + 1 < 2
      \/ /\ machine'.mode = "locked" /\ machine'.deadline = None /\ machine'.last.mode = "locked"
         /\ machine'.last.qr = out.qr
         /\ (machine.mode = "locked" \/ machine.streak + 1 >= 2)
  BY <1>1, AgentNumbers, EnterLockedFields
<1>5. AgentTypeOK'
  BY <1>2, <1>3, AgentNumbers DEF AgentTypeOK, Kinds
<1>6. AgentInv'
  BY <1>2, <1>4, <1>5, AgentNumbers DEF AgentInv, ViewIsMode, LockCanBeOpened, InActive, InGrace
<1>7. LocksInTime
  BY <1>2, <1>4, AgentNumbers DEF AgentInv, LocksInTime
<1>8. QED BY <1>6, <1>7

LEMMA OfflineStep ==
    ASSUME AgentInv, NEW t \in Nat, clock < t, t <= clock + MaxGap,
           NEW out \in Poll, out.kind = "offline", Observe(out, t)
    PROVE  AgentInv' /\ LocksInTime
<1>1. machine' = ApplyOffline(machine, t)
  BY DEF Observe, Apply
<1>2. clock' = t /\ answer' = "offline" /\ until' = until /\ refusals' = refusals
  BY DEF Observe, Granted
<1>3. PICK d : d = GraceDeadline(machine, t)
  OBVIOUS
<1>4. d = IF machine.deadline = None THEN t + Grace ELSE machine.deadline
  BY <1>3 DEF GraceDeadline
<1>5. machine' \in Machine
  BY <1>1, <1>3, AgentNumbers, OfflineFields
<1>6. OfflineOutcome(machine', machine, d, t)
  BY <1>1, <1>3, AgentNumbers, OfflineFields
<1>7. AgentTypeOK'
  BY <1>2, <1>5, AgentNumbers DEF AgentTypeOK, Kinds
<1>8. CASE machine.mode = "locked"
  BY <1>2, <1>6, <1>7, <1>8
     DEF OfflineOutcome, AgentInv, ViewIsMode, LockCanBeOpened, InActive, InGrace, LocksInTime
<1>9. CASE machine.mode = "active"
  BY <1>2, <1>4, <1>6, <1>7, <1>9, AgentNumbers
     DEF OfflineOutcome, AgentInv, ViewIsMode, LockCanBeOpened, InActive, InGrace, LocksInTime
<1>10. CASE machine.mode = "grace"
  BY <1>2, <1>4, <1>6, <1>7, <1>10, AgentNumbers
     DEF OfflineOutcome, AgentInv, ViewIsMode, LockCanBeOpened, InActive, InGrace, LocksInTime
<1>11. QED BY <1>8, <1>9, <1>10, AgentNumbers DEF Modes

-----------------------------------------------------------------------------

LEMMA InitAgentInv == AgentInit => AgentInv
BY DEF AgentInit, AgentInv, AgentTypeOK, ViewIsMode, LockCanBeOpened, NewMachine, LockView,
       Machine, View, Modes, Kinds

LEMMA AgentStep ==
    ASSUME AgentInv, AgentNext
    PROVE  AgentInv' /\ LocksInTime
<1>1. ASSUME NEW kind \in Kinds, NEW left \in Nat, NEW qr \in Int, Polled(kind, left, qr)
      PROVE  \E t \in Nat, out \in Poll :
                /\ clock < t /\ t <= clock + MaxGap
                /\ out.kind = kind /\ out.qr = qr /\ Observe(out, t)
  <2>1. PICK gap \in 1..MaxGap :
            Observe([kind |-> kind, remaining |-> left, qr |-> qr], clock + gap)
    BY <1>1 DEF Polled
  <2>2. [kind |-> kind, remaining |-> left, qr |-> qr] \in Poll
    BY <1>1 DEF Poll
  <2>3. clock + gap \in Nat /\ clock < clock + gap /\ clock + gap <= clock + MaxGap
    BY <2>1, AgentNumbers
  <2>4. QED BY <2>1, <2>2, <2>3
<1>2. CASE PollActive
  <2>1. PICK left \in Offers : Polled("active", left, None)
    BY <1>2 DEF PollActive
  <2>2. QED BY <1>1, <2>1, ActiveStep DEF Kinds
<1>3. CASE PollExpired
  <2>1. Polled("expired", 0, None)
    BY <1>3 DEF PollExpired
  <2>2. QED BY <1>1, <2>1, ExpiredStep DEF Kinds
<1>4. CASE PollLocked
  <2>1. PICK qr \in QrCodes : Polled("locked", 0, qr)
    BY <1>4 DEF PollLocked
  <2>2. QED BY <1>1, <2>1, LockedStep DEF Kinds
<1>5. CASE PollOffline
  <2>1. Polled("offline", 0, None)
    BY <1>5 DEF PollOffline
  <2>2. QED BY <1>1, <2>1, OfflineStep DEF Kinds
<1>6. QED BY <1>2, <1>3, <1>4, <1>5 DEF AgentNext

\* The machine and its countdown, its grace deadline and the time the server
\* granted stand in the relation AgentInv states, after every stream of answers.
THEOREM AgentInductive == AgentSpec => []AgentInv
<1>1. AgentInv /\ [AgentNext]_agentVars => AgentInv'
  <2>1. ASSUME AgentInv, UNCHANGED agentVars PROVE AgentInv'
    BY <2>1 DEF agentVars, AgentInv, AgentTypeOK, ViewIsMode, LockCanBeOpened, InActive, InGrace
  <2>2. QED BY <2>1, AgentStep
<1>2. QED BY <1>1, InitAgentInv, PTL DEF AgentSpec

\* No free play, whatever the grace and however long the answers take.
THEOREM LockedInTheEnd == AgentSpec => []LocksInTheEnd
<1>1. AgentInv => LocksInTheEnd
  <2>1. SUFFICES ASSUME AgentInv, machine.mode # "locked" PROVE clock < until + Grace + 3 * MaxGap
    BY DEF LocksInTheEnd
  <2>2. CASE machine.mode = "active"
    BY <2>1, <2>2, AgentNumbers DEF AgentInv, InActive
  <2>3. CASE machine.mode = "grace"
    BY <2>1, <2>3, AgentNumbers DEF AgentInv, InGrace
  <2>4. QED BY <2>1, <2>2, <2>3, AgentNumbers DEF Modes
<1>2. QED BY <1>1, AgentInductive, PTL

\* The countdown a poll puts on the screen promises no more than the server granted, and no more
\* than one gap beyond it while a 'locked' answer is held.
THEOREM CountdownIsHonest == AgentSpec => []TimerIsHonest
<1>1. AgentInv => TimerIsHonest
  BY AgentNumbers DEF AgentInv, InActive, TimerIsHonest
<1>2. QED BY <1>1, AgentInductive, PTL

\* No player is thrown out while paid time or the grace after it runs, but by
\* two 'locked' answers of the server.
THEOREM PlayersKeepTheirTime == AgentSpec => PaidTimeIsKept
<1>1. AgentInv /\ [AgentNext]_agentVars => [LocksInTime]_agentVars
  BY AgentStep
<1>2. QED BY <1>1, AgentInductive, PTL DEF AgentSpec, PaidTimeIsKept

-----------------------------------------------------------------------------
(* A seat from end to end: the rows of its bookings.                       *)

USE SeatAssumption, KioskAssumption, RulesAssumption
HIDE DEF None, LockHysteresis

\* What a handler that unlocks nothing and extends nothing makes of a row r.
Kept(r, q) ==
    /\ q \in SeatRow
    /\ q.status \in {"paid", "active"} =>
          r.status \in {"paid", "active"} /\ q.startAt = r.startAt /\ q.endAt = r.endAt
    /\ q.unlockedAt # None => r.unlockedAt # None
    /\ q.endAt <= r.endAt

LEMMA ReleaseKeeps ==
    ASSUME NEW r \in SeatRow, NEW st \in {"completed", "no_show"}
    PROVE  /\ Kept(r, Release(r, st))
           /\ Release(r, st).status \notin {"paid", "active"}
BY DEF Kept, Release, SeatRow, Statuses

LEMMA ActivateKeeps ==
    ASSUME NEW r \in SeatRow
    PROVE  /\ Activate(r) \in SeatRow
           /\ Activate(r).status = "active"
           /\ Activate(r).startAt = r.startAt /\ Activate(r).endAt = r.endAt
           /\ Activate(r).unlockedAt = r.unlockedAt
BY DEF Activate, SeatRow, Statuses, Phases

LEMMA SyncedKeeps ==
    ASSUME NEW rs \in [Bookings -> SeatRow], NEW t \in Nat
    PROVE  /\ Synced(rs, t) \in [Bookings -> SeatRow]
           /\ \A b \in Bookings : Kept(rs[b], Synced(rs, t)[b])
           /\ \A b \in Bookings : Synced(rs, t)[b].endAt = rs[b].endAt
<1>1. ASSUME NEW b \in Bookings
      PROVE  Kept(rs[b], Synced(rs, t)[b]) /\ Synced(rs, t)[b].endAt = rs[b].endAt
  <2>0. rs[b] \in SeatRow
    OBVIOUS
  <2>1. CASE Expired(rs[b], t)
    <3>1. ~DueStart(rs[b], t)
      BY <2>1 DEF Expired, DueStart
    <3>2. Synced(rs, t)[b] = Release(rs[b], "completed")
      BY <2>1, <3>1 DEF Synced
    <3>3. Release(rs[b], "completed").endAt = rs[b].endAt
      BY <2>0 DEF Release, SeatRow
    <3>4. QED BY <2>0, <3>2, <3>3, ReleaseKeeps
  <2>2. CASE ~Expired(rs[b], t) /\ DueStart(rs[b], t)
    <3>1. Synced(rs, t)[b] = Activate(rs[b])
      BY <2>2 DEF Synced
    <3>2. rs[b].endAt \in Int
      BY <2>0 DEF SeatRow
    <3>3. QED BY <2>0, <2>2, <3>1, <3>2, ActivateKeeps DEF Kept, DueStart
  <2>3. CASE ~Expired(rs[b], t) /\ ~DueStart(rs[b], t)
    <3>1. Synced(rs, t)[b] = rs[b]
      BY <2>3 DEF Synced
    <3>2. rs[b].endAt \in Int
      BY <2>0 DEF SeatRow
    <3>3. QED BY <2>0, <3>1, <3>2 DEF Kept
  <2>4. QED BY <2>1, <2>2, <2>3
<1>2. \A b \in Bookings : Synced(rs, t)[b] \in SeatRow
  BY <1>1 DEF Kept
<1>3. Synced(rs, t) = [b \in Bookings |-> Synced(rs, t)[b]]
  BY DEF Synced
<1>4. QED BY <1>1, <1>2, <1>3

\* A row that is kept is seated only if it was.
LEMMA KeptSeated ==
    ASSUME NEW r \in SeatRow, NEW q, Kept(r, q), NEW t \in Nat, Seated(q, t)
    PROVE  Seated(r, t) /\ q.endAt = r.endAt
BY DEF Kept, Seated, SeatRow

\* The countdown of a game that has a length.
LEMMA CountdownOfRow ==
    ASSUME NEW r \in SeatRow, r.startAt < r.endAt, NEW t \in Nat
    PROVE  /\ DisplayRemaining(r, t) \in Nat
           /\ r.endAt > t => t + DisplayRemaining(r, t) <= r.endAt
           /\ DisplayRemaining(r, t) = 0 <=> r.endAt <= t
           /\ GameRunning(r, t) => r.endAt <= t + DisplayRemaining(r, t)
<1>1. r.startAt \in Int /\ r.endAt \in Int /\ DoorEarly \in Nat
  BY DEF SeatRow
<1>2. QED BY <1>1 DEF DisplayRemaining, GameRunning, Left

-----------------------------------------------------------------------------

\* What the invariant says of the variables, in numbers.
LEMMA SeatTypes ==
    ASSUME TypeOK
    PROVE  /\ now \in Nat /\ polledAt \in Nat /\ polledAt <= now
           /\ granted \in Nat /\ told \in Nat /\ faults \in Nat /\ MaxGap \in Nat
           /\ raced \in BOOLEAN /\ adrift \in BOOLEAN
           /\ scan \in [Bookings -> ScanState] /\ challenge \in Challenge
           /\ rows \in [Bookings -> SeatRow]
           /\ m \in Machine /\ m.anchor \in Nat /\ m.anchoredAt \in Int /\ m.deadline \in Int
           /\ m.streak \in Nat /\ m.mode \in Modes /\ m.last.qr \in Int
BY DEF TypeOK, Machine, View

LEMMA PollTypes ==
    ASSUME TypeOK
    PROVE  /\ poll.at = "format" => poll.row \in SeatRow
           /\ poll.at = "deliver" => poll.answer \in Poll /\ poll.ends \in Nat
           /\ poll.at \in {"idle", "lost", "offer", "format", "deliver"}
BY DEF TypeOK, PollState

-----------------------------------------------------------------------------
(* Steps that leave the machine alone.                                     *)

\* The countdown and the grace stand while the agent hears nothing.
LEMMA AgentStays ==
    ASSUME SeatInv, UNCHANGED <<m, polledAt, told>>, granted' \in Nat, granted <= granted'
    PROVE  AgentIsGranted'
<1>1. Held \in Nat /\ Held' = Held
  BY SeatTypes DEF SeatInv, Held
<1>2. AgentIsGranted
  BY DEF SeatInv
<1>3. ASSUME m'.mode = "active" PROVE CountdownIsGranted'
  <2>1. CountdownIsGranted
    BY <1>2, <1>3 DEF AgentIsGranted
  <2>2. QED BY <1>1, <2>1, SeatTypes DEF SeatInv, CountdownIsGranted
<1>4. ASSUME m'.mode = "grace" PROVE GraceIsGranted'
  <2>1. GraceIsGranted
    BY <1>2, <1>4 DEF AgentIsGranted
  <2>2. QED BY <1>1, <2>1, SeatTypes DEF SeatInv, GraceIsGranted
<1>5. QED BY <1>2, <1>3, <1>4 DEF AgentIsGranted

\* So does what a poll in flight carries.
LEMMA PollStays ==
    ASSUME SeatInv, UNCHANGED <<poll, polledAt>>, now' \in Nat, now <= now',
           granted' \in Nat, granted <= granted'
    PROVE  /\ poll'.at = "format" => ReadIsGranted'
           /\ poll'.at = "deliver" => AnswerIsGranted'
<1>1. ASSUME poll'.at = "format" PROVE ReadIsGranted'
  <2>1. ReadIsGranted /\ poll.row \in SeatRow
    BY <1>1, PollTypes DEF SeatInv
  <2>2. poll.row.endAt \in Int
    BY <2>1 DEF SeatRow
  <2>3. QED BY <2>1, <2>2, SeatTypes DEF SeatInv, ReadIsGranted
<1>2. ASSUME poll'.at = "deliver" PROVE AnswerIsGranted'
  <2>1. AnswerIsGranted /\ poll.answer \in Poll /\ poll.ends \in Int
    BY <1>2, PollTypes DEF SeatInv
  <2>2. poll.answer.remaining \in Nat
    BY <2>1 DEF Poll
  <2>3. QED BY <2>1, <2>2, SeatTypes DEF SeatInv, AnswerIsGranted
<1>3. QED BY <1>1, <1>2

\* Without a race the seat stays its player's while no booking takes it.
LEMMA SeatStays ==
    ASSUME SeatInv, SeatIsOnes, UNCHANGED <<challenge, scan, m, told>>,
           rows' \in [Bookings -> SeatRow],
           \A b \in SeatedIds(rows)' : b \in SeatedIds(rows) /\ rows[b].endAt <= rows'[b].endAt
    PROVE  /\ \A b, c \in SeatedIds(rows)' : b = c
           /\ CodeMeansFree' /\ ScanIsAlone'
           /\ m'.mode # "locked" => \A b \in SeatedIds(rows)' : told' <= rows'[b].endAt
<1>1. \A b \in Bookings : rows[b].endAt \in Int /\ rows'[b].endAt \in Int
  BY SeatTypes DEF SeatInv, SeatRow
<1>2. \A b \in SeatedIds(rows)' : b \in Bookings
  BY DEF SeatedIds
<1>3. SeatedIds(rows) = {} => SeatedIds(rows)' = {}
  OBVIOUS
<1>4. Scanning' = Scanning /\ told \in Nat
  BY SeatTypes DEF Scanning, SeatInv
<1>5. (\A b, c \in SeatedIds(rows)' : b = c) /\ CodeMeansFree' /\ ScanIsAlone'
  BY <1>3, <1>4 DEF SeatIsOnes, CodeMeansFree, ScanIsAlone
<1>6. m'.mode # "locked" => \A b \in SeatedIds(rows)' : told' <= rows'[b].endAt
  BY <1>1, <1>2, <1>4 DEF SeatIsOnes
<1>7. QED BY <1>5, <1>6

LEMMA OnesStay ==
    ASSUME SeatInv, SeatIsOnes, UNCHANGED <<challenge, poll, scan, m, told>>,
           now' \in Nat, now <= now',
           rows' \in [Bookings -> SeatRow],
           \A b \in SeatedIds(rows)' : b \in SeatedIds(rows) /\ rows[b].endAt <= rows'[b].endAt
    PROVE  SeatIsOnes'
<1>1. \A b \in Bookings : rows[b].endAt \in Int /\ rows'[b].endAt \in Int
  BY SeatTypes DEF SeatInv, SeatRow
<1>2. \A b \in SeatedIds(rows)' : b \in Bookings
  BY DEF SeatedIds
<1>3. SeatedIds(rows) = {} => SeatedIds(rows)' = {}
  OBVIOUS
<1>4. Scanning' = Scanning /\ told \in Nat /\ now \in Nat
  BY SeatTypes DEF Scanning, SeatInv
<1>5. ASSUME poll'.at = "format" PROVE ReadIsAlone'
  <2>1. ReadIsAlone /\ poll.row \in SeatRow
    BY <1>5, PollTypes DEF SeatInv, SeatIsOnes
  <2>2. poll.row.endAt \in Int
    BY <2>1 DEF SeatRow
  <2>3. \A b \in SeatedIds(rows)' : poll.row.endAt <= rows'[b].endAt
    BY <1>1, <1>2, <2>1, <2>2 DEF ReadIsAlone
  <2>4. QED BY <1>4, <2>1, <2>3 DEF ReadIsAlone
<1>6. ASSUME poll'.at = "deliver" PROVE AnswerIsAlone'
  <2>1. AnswerIsAlone /\ poll.ends \in Int
    BY <1>6, PollTypes DEF SeatInv, SeatIsOnes
  <2>2. CASE poll.answer.kind = "locked"
    BY <1>3, <2>1, <2>2 DEF AnswerIsAlone
  <2>3. CASE poll.answer.kind # "locked"
    <3>1. \A b \in SeatedIds(rows)' : poll.ends <= rows'[b].endAt
      BY <1>1, <1>2, <2>1, <2>3 DEF AnswerIsAlone
    <3>2. poll.answer.remaining = 0 /\ m.mode # "locked" => told <= now'
      BY <1>4, <2>1, <2>3 DEF AnswerIsAlone
    <3>3. QED BY <1>4, <2>1, <2>3, <3>1, <3>2 DEF AnswerIsAlone
  <2>4. QED BY <2>2, <2>3
<1>7. QED BY <1>5, <1>6, SeatStays DEF SeatIsOnes

\* The bookings change: no booking is seated that was not, and none of those
\* ends earlier.
LEMMA RowsStep ==
    ASSUME SeatInv,
           UNCHANGED <<now, challenge, poll, scan, adrift, m, polledAt, faults, told, raced>>,
           rows' \in [Bookings -> SeatRow], granted' \in Nat, granted <= granted',
           RowsAreGranted',
           \A b \in SeatedIds(rows)' : b \in SeatedIds(rows) /\ rows[b].endAt <= rows'[b].endAt
    PROVE  SeatInv'
<1>1. TypeOK'
  BY DEF SeatInv, TypeOK
<1>2. now' \in Nat /\ now <= now'
  BY SeatTypes DEF SeatInv
<1>3. AgentIsGranted'
  BY AgentStays
<1>4. /\ poll'.at = "format" => ReadIsGranted'
      /\ poll'.at = "deliver" => AnswerIsGranted'
  BY <1>2, PollStays
<1>5. raced' \/ SeatIsOnes'
  BY <1>2, OnesStay DEF SeatInv
<1>6. QED BY <1>1, <1>3, <1>4, <1>5 DEF SeatInv

LEMMA GrantIsKept ==
    ASSUME NEW r \in SeatRow, NEW q, Kept(r, q), NEW end \in Nat, RowIsGranted(r, end)
    PROVE  RowIsGranted(q, end)
BY DEF Kept, RowIsGranted, SeatRow

\* A handler that unlocks nothing and extends nothing grants what was granted.
LEMMA KeptGranted ==
    ASSUME SeatInv, rows' \in [Bookings -> SeatRow], UNCHANGED <<now, granted>>,
           \A b \in Bookings : Kept(rows[b], rows'[b])
    PROVE  /\ RowsAreGranted'
           /\ \A b \in SeatedIds(rows)' : b \in SeatedIds(rows) /\ rows[b].endAt <= rows'[b].endAt
<1>1. rows \in [Bookings -> SeatRow] /\ now \in Nat /\ granted \in Nat
  BY SeatTypes DEF SeatInv
<1>2. \A b \in Bookings : rows[b] \in SeatRow /\ RowIsGranted(rows[b], granted)
  BY <1>1 DEF SeatInv, RowsAreGranted
<1>3. RowsAreGranted'
  <2>1. \A b \in Bookings : RowIsGranted(rows'[b], granted)
    BY <1>1, <1>2, GrantIsKept
  <2>2. QED BY <2>1 DEF RowsAreGranted, RowIsGranted
<1>4. ASSUME NEW b \in SeatedIds(rows)'
      PROVE  b \in SeatedIds(rows) /\ rows[b].endAt <= rows'[b].endAt
  <2>1. b \in Bookings /\ Seated(rows'[b], now)
    BY <1>4 DEF SeatedIds
  <2>2. rows[b] \in SeatRow /\ Kept(rows[b], rows'[b]) /\ rows[b].endAt \in Int
    BY <1>2, <2>1 DEF SeatRow
  <2>3. Seated(rows[b], now) /\ rows'[b].endAt = rows[b].endAt
    BY <1>1, <2>1, <2>2, KeptSeated
  <2>4. QED BY <2>1, <2>2, <2>3 DEF SeatedIds
<1>5. QED BY <1>3, <1>4

LEMMA KeptStep ==
    ASSUME SeatInv,
           UNCHANGED <<now, challenge, poll, scan, adrift, m, polledAt, faults, granted, told, raced>>,
           rows' \in [Bookings -> SeatRow], \A b \in Bookings : Kept(rows[b], rows'[b])
    PROVE  SeatInv'
<1>1. granted' \in Nat /\ granted <= granted'
  BY SeatTypes DEF SeatInv
<1>2. /\ RowsAreGranted'
      /\ \A b \in SeatedIds(rows)' : b \in SeatedIds(rows) /\ rows[b].endAt <= rows'[b].endAt
  BY KeptGranted
<1>3. QED BY <1>1, <1>2, RowsStep

LEMMA EndSessionStep ==
    ASSUME SeatInv, NEW b \in Bookings, EndSession(b)
    PROVE  SeatInv'
<1>1. rows[b] \in SeatRow /\ now \in Nat /\ rows \in [Bookings -> SeatRow]
  BY SeatTypes DEF SeatInv
<1>2. rows[b].status = "active" /\ rows[b].endAt > now /\ rows[b].endAt \in Int
  BY <1>1 DEF EndSession, Ongoing, SeatRow
<1>3. PICK q : q = Release([rows[b] EXCEPT !.endAt = now], "completed")
  OBVIOUS
<1>4. [rows[b] EXCEPT !.endAt = now] \in SeatRow
  BY <1>1 DEF SeatRow
<1>5. /\ q \in SeatRow /\ q.status = "completed" /\ q.endAt = now
      /\ q.unlockedAt = rows[b].unlockedAt
  BY <1>1, <1>2, <1>3, <1>4 DEF Release, SeatRow, Statuses
<1>6. Kept(rows[b], q)
  BY <1>2, <1>5, <1>1 DEF Kept
<1>7. rows' = [rows EXCEPT ![b] = q]
  BY <1>3 DEF EndSession
<1>8. \A c \in Bookings : rows[c].endAt \in Int
  BY <1>1 DEF SeatRow
<1>9. rows' \in [Bookings -> SeatRow] /\ \A c \in Bookings : Kept(rows[c], rows'[c])
  BY <1>1, <1>5, <1>6, <1>7, <1>8 DEF Kept
<1>10. QED BY <1>9, KeptStep DEF EndSession, phones, agent, history

LEMMA CancelStep ==
    ASSUME SeatInv, NEW b \in Bookings, Cancel(b)
    PROVE  SeatInv'
<1>1. rows[b] \in SeatRow /\ now \in Nat /\ rows \in [Bookings -> SeatRow]
  BY SeatTypes DEF SeatInv
<1>2. PICK q : q = [rows[b] EXCEPT !.status = "cancelled"]
  OBVIOUS
<1>3. q \in SeatRow /\ q.status = "cancelled" /\ q.endAt = rows[b].endAt
      /\ q.unlockedAt = rows[b].unlockedAt
  BY <1>1, <1>2 DEF SeatRow, Statuses
<1>4. rows' = [rows EXCEPT ![b] = q]
  BY <1>2 DEF Cancel
<1>5. \A c \in Bookings : rows[c].endAt \in Int
  BY <1>1 DEF SeatRow
<1>6. rows' \in [Bookings -> SeatRow] /\ \A c \in Bookings : Kept(rows[c], rows'[c])
  BY <1>1, <1>3, <1>4, <1>5 DEF Kept
<1>7. QED BY <1>6, KeptStep DEF Cancel, phones, agent, history

\* Sync, then the no-shows: still nothing unlocked and nothing extended.
LEMMA SchedulerTickStep ==
    ASSUME SeatInv, SchedulerTick
    PROVE  SeatInv'
<1>1. rows \in [Bookings -> SeatRow] /\ now \in Nat
  BY SeatTypes DEF SeatInv
<1>2. PICK s : s = Synced(rows, now)
  OBVIOUS
<1>3. s \in [Bookings -> SeatRow] /\ \A b \in Bookings : Kept(rows[b], s[b])
  BY <1>1, <1>2, SyncedKeeps
<1>4. rows' = [b \in Bookings |-> IF NoShowDue(s[b], now) THEN Release(s[b], "no_show") ELSE s[b]]
  BY <1>2 DEF SchedulerTick
<1>5. ASSUME NEW b \in Bookings PROVE Kept(rows[b], rows'[b])
  <2>1. s[b] \in SeatRow /\ rows[b].endAt \in Int /\ s[b].endAt \in Int
    BY <1>1, <1>3, <1>5 DEF SeatRow
  <2>2. CASE NoShowDue(s[b], now)
    <3>1. rows'[b] = Release(s[b], "no_show")
      BY <1>4, <1>5, <2>2
    <3>2. Kept(s[b], rows'[b]) /\ rows'[b].status \notin {"paid", "active"}
      BY <2>1, <3>1, ReleaseKeeps
    <3>3. rows'[b].endAt \in Int
      BY <3>2 DEF Kept, SeatRow
    <3>4. QED BY <1>3, <1>5, <2>1, <3>2, <3>3 DEF Kept
  <2>3. CASE ~NoShowDue(s[b], now)
    BY <1>3, <1>4, <1>5, <2>3
  <2>4. QED BY <2>2, <2>3
<1>6. rows' \in [Bookings -> SeatRow]
  BY <1>4, <1>5 DEF Kept
<1>7. QED BY <1>5, <1>6, KeptStep DEF SchedulerTick, phones, agent, history

LEMMA EndSeatSessionStep ==
    ASSUME SeatInv, EndSeatSession
    PROVE  SeatInv'
<1>1. rows \in [Bookings -> SeatRow] /\ now \in Nat
  BY SeatTypes DEF SeatInv
<1>2. PICK s : s = Synced(rows, now)
  OBVIOUS
<1>3. s \in [Bookings -> SeatRow] /\ \A c \in Bookings : Kept(rows[c], s[c])
  BY <1>1, <1>2, SyncedKeeps
<1>4. CASE SeatedIds(s) = {}
  <2>1. rows' = s
    BY <1>2, <1>4 DEF EndSeatSession
  <2>2. QED BY <1>3, <2>1, KeptStep DEF EndSeatSession, phones, agent, history
<1>5. CASE SeatedIds(s) # {}
  <2>1. PICK b \in Latest(s, now) :
           rows' = IF s[b].status = "active"
                   THEN [s EXCEPT ![b] = Release([s[b] EXCEPT !.endAt = now], "completed")]
                   ELSE [s EXCEPT ![b].unlockedAt = None]
    BY <1>2, <1>5 DEF EndSeatSession
  <2>2. b \in SeatedIds(s)
    BY <2>1 DEF Latest, SeatedIds
  <2>3. b \in Bookings /\ s[b].endAt > now /\ s[b] \in SeatRow /\ s[b].endAt \in Int
    BY <1>3, <2>2 DEF SeatedIds, Seated, SeatRow
  <2>4. PICK q : q = IF s[b].status = "active"
                     THEN Release([s[b] EXCEPT !.endAt = now], "completed")
                     ELSE [s[b] EXCEPT !.unlockedAt = None]
    OBVIOUS
  <2>5. rows' = [s EXCEPT ![b] = q]
    BY <2>1, <2>4
  <2>6. Kept(rows[b], q)
    <3>1. Kept(rows[b], s[b]) /\ rows[b].endAt \in Int
      BY <1>1, <1>3, <2>3 DEF SeatRow
    <3>2. CASE s[b].status = "active"
      <4>1. PICK w : w = [s[b] EXCEPT !.endAt = now]
        OBVIOUS
      <4>2. w \in SeatRow /\ w.status = "active" /\ w.endAt = now /\ w.unlockedAt = s[b].unlockedAt
        BY <1>1, <2>3, <3>2, <4>1 DEF SeatRow
      <4>3. q = Release(w, "completed")
        BY <2>4, <3>2, <4>1
      <4>4. /\ q \in SeatRow /\ q.status = "completed" /\ q.endAt = now
            /\ q.unlockedAt = s[b].unlockedAt
        BY <4>2, <4>3 DEF Release, SeatRow, Statuses
      <4>5. QED BY <1>1, <2>3, <3>1, <4>4 DEF Kept
    <3>3. CASE s[b].status # "active"
      <4>1. q = [s[b] EXCEPT !.unlockedAt = None]
        BY <2>4, <3>3
      <4>2. /\ q \in SeatRow /\ q.status = s[b].status /\ q.endAt = s[b].endAt
            /\ q.startAt = s[b].startAt /\ q.unlockedAt = None
        BY <2>3, <4>1, NoneIsNoTime DEF SeatRow
      <4>3. QED BY <3>1, <4>2 DEF Kept
    <3>4. QED BY <3>2, <3>3
  <2>7. rows' \in [Bookings -> SeatRow] /\ \A c \in Bookings : Kept(rows[c], rows'[c])
    BY <1>3, <2>3, <2>5, <2>6 DEF Kept
  <2>8. QED BY <2>7, KeptStep DEF EndSeatSession, phones, agent, history
<1>6. QED BY <1>4, <1>5

LEMMA ExtendSessionStep ==
    ASSUME SeatInv, NEW b \in Bookings, ExtendSession(b)
    PROVE  SeatInv'
<1>1. rows[b] \in SeatRow /\ now \in Nat /\ rows \in [Bookings -> SeatRow] /\ granted \in Nat
  BY SeatTypes DEF SeatInv
<1>2. PICK q : q = [rows[b] EXCEPT !.endAt = @ + Addition]
  OBVIOUS
<1>3. /\ q \in SeatRow /\ q.endAt = rows[b].endAt + Addition /\ q.startAt = rows[b].startAt
      /\ q.status = rows[b].status /\ q.unlockedAt = rows[b].unlockedAt
      /\ rows[b].endAt \in Int /\ rows[b].startAt \in Int
  BY <1>1, <1>2 DEF SeatRow
<1>4. rows' = [rows EXCEPT ![b] = q]
  BY <1>2 DEF ExtendSession
<1>5. rows[b].status = "active" /\ rows[b].endAt > now
  BY DEF ExtendSession, Ongoing
<1>6. rows'[b] = q /\ \A c \in Bookings \ {b} : rows'[c] = rows[c]
  BY <1>1, <1>4
<1>7. rows' \in [Bookings -> SeatRow]
  BY <1>1, <1>3, <1>4
<1>8. /\ granted' \in Nat /\ granted <= granted'
      /\ rows[b].unlockedAt # None => q.endAt <= granted'
  BY <1>1, <1>3, <1>5, <1>6 DEF ExtendSession, UpTo
<1>9. RowsAreGranted'
  <2>1. SUFFICES ASSUME NEW c \in Bookings
                 PROVE  RowIsGranted(rows'[c], granted')
    BY DEF RowsAreGranted, RowIsGranted
  <2>2. /\ rows[c].status \in {"paid", "active"} => rows[c].startAt < rows[c].endAt
        /\ rows[c].status \in {"paid", "active"} /\ rows[c].unlockedAt # None
              => rows[c].endAt <= granted
        /\ rows[c].endAt \in Int
    BY <1>1 DEF SeatInv, RowsAreGranted, RowIsGranted, SeatRow
  <2>3. CASE c = b
    BY <1>3, <1>5, <1>6, <1>8, <2>2, <2>3 DEF RowIsGranted
  <2>4. CASE c # b
    BY <1>1, <1>6, <1>8, <2>2, <2>4 DEF RowIsGranted
  <2>5. QED BY <2>3, <2>4
<1>10. ASSUME NEW c \in SeatedIds(rows)'
       PROVE  c \in SeatedIds(rows) /\ rows[c].endAt <= rows'[c].endAt
  <2>1. c \in Bookings /\ Seated(rows'[c], now) /\ rows[c].endAt \in Int
    BY <1>1, <1>10 DEF SeatedIds, ExtendSession, SeatRow
  <2>2. CASE c = b
    BY <1>3, <1>5, <1>6, <2>1, <2>2 DEF SeatedIds, Seated
  <2>3. CASE c # b
    BY <1>6, <2>1, <2>3 DEF SeatedIds
  <2>4. QED BY <2>2, <2>3
<1>11. QED BY <1>7, <1>8, <1>9, <1>10, RowsStep DEF ExtendSession, phones, agent

\* unlockBooking begins a game and keeps the rest.
LEMMA BegunKeeps ==
    ASSUME NEW r \in SeatRow, NEW t \in Nat
    PROVE  Kept(r, Begun(r, t))
<1>1. r.endAt \in Int
  BY DEF SeatRow
<1>2. CASE r.status = "paid" /\ t >= r.startAt
  BY <1>1, <1>2, ActivateKeeps DEF Begun, Kept
<1>3. CASE ~(r.status = "paid" /\ t >= r.startAt)
  BY <1>1, <1>3 DEF Begun, Kept
<1>4. QED BY <1>2, <1>3

\* While a code can be scanned or is being confirmed no other answer is on its way.
LEMMA ScanIsQuiet ==
    ASSUME SeatIsOnes, challenge # NoChallenge \/ Scanning # {}, m.mode = "locked",
           UNCHANGED <<poll, m>>
    PROVE  /\ poll'.at = "format" => ReadIsAlone'
           /\ poll'.at = "deliver" => AnswerIsAlone'
<1>1. poll.at # "format"
  BY DEF SeatIsOnes, ReadIsAlone
<1>2. poll.at = "deliver" => poll.answer.kind = "locked"
  BY DEF SeatIsOnes, AnswerIsAlone
<1>3. QED BY <1>1, <1>2 DEF AnswerIsAlone

LEMMA ConfirmQrStep ==
    ASSUME SeatInv, NEW b \in Bookings, ConfirmQr(b)
    PROVE  SeatInv'
<1>1. /\ now \in Nat /\ rows \in [Bookings -> SeatRow] /\ granted \in Nat /\ TypeOK
      /\ scan \in [Bookings -> ScanState] /\ m.last.qr \in Int
  BY SeatTypes DEF SeatInv
<1>2. /\ rows' = Synced(rows, now)
      /\ UNCHANGED <<now, challenge, poll, adrift, m, polledAt, faults, granted, told>>
  BY DEF ConfirmQr, agent
<1>3. rows' \in [Bookings -> SeatRow] /\ \A c \in Bookings : Kept(rows[c], rows'[c])
  BY <1>1, <1>2, SyncedKeeps
<1>4. CASE UNCHANGED <<scan, raced>>
  BY <1>2, <1>3, <1>4, KeptStep
<1>5. CASE /\ Valid(challenge, m.last.qr, now)
           /\ scan' = [scan EXCEPT ![b] = [at |-> "take", qr |-> m.last.qr]]
           /\ raced' = (raced \/ Scanning # {})
  <2>1. PICK x : x = [at |-> "take", qr |-> m.last.qr]
    OBVIOUS
  <2>2. scan' = [scan EXCEPT ![b] = x] /\ x \in ScanState
    BY <1>1, <1>5, <2>1 DEF ScanState
  <2>3. TypeOK'
    BY <1>1, <1>2, <1>3, <1>5, <2>2 DEF TypeOK
  <2>4. /\ RowsAreGranted'
        /\ \A c \in SeatedIds(rows)' : c \in SeatedIds(rows) /\ rows[c].endAt <= rows'[c].endAt
    BY <1>2, <1>3, KeptGranted
  <2>5. AgentIsGranted'
    BY <1>1, <1>2, AgentStays
  <2>6. /\ poll'.at = "format" => ReadIsGranted'
        /\ poll'.at = "deliver" => AnswerIsGranted'
    BY <1>1, <1>2, PollStays
  <2>7. ASSUME ~raced' PROVE SeatIsOnes'
    <3>1. SeatIsOnes /\ Scanning = {}
      BY <1>5, <2>7 DEF SeatInv
    <3>2. m.mode = "locked" /\ challenge # NoChallenge /\ challenge.id = m.last.qr
      BY <1>5 DEF ConfirmQr, Scans, Valid, NoChallenge
    <3>3. SeatedIds(rows)' = {}
      BY <2>4, <3>1, <3>2 DEF SeatIsOnes, CodeMeansFree
    <3>4. \A c \in Scanning' : c = b
      BY <1>1, <2>2, <3>1 DEF Scanning
    <3>5. scan'[b].at = "take" /\ scan'[b].qr = challenge'.id
      BY <1>1, <1>2, <2>1, <2>2, <3>2
    <3>6. ScanIsAlone'
      BY <1>2, <3>2, <3>3, <3>4, <3>5 DEF ScanIsAlone
    <3>7. QED BY <1>2, <3>1, <3>2, <3>3, <3>6, ScanIsQuiet DEF SeatIsOnes, CodeMeansFree
  <2>8. QED BY <1>2, <2>3, <2>4, <2>5, <2>6, <2>7 DEF SeatInv
<1>6. QED BY <1>4, <1>5 DEF ConfirmQr

\* A confirmation goes on: it is the one there is, on a free seat, without a race.
LEMMA ScanAlone ==
    ASSUME SeatIsOnes, NEW b \in Bookings, scan[b].at # "idle"
    PROVE  /\ Scanning = {b} /\ SeatedIds(rows) = {} /\ m.mode = "locked"
           /\ challenge = NoChallenge \/ (scan[b].at = "take" /\ challenge.id = scan[b].qr)
<1>1. b \in Scanning
  BY DEF Scanning
<1>2. QED BY <1>1 DEF SeatIsOnes, ScanIsAlone

LEMMA TakeQrStep ==
    ASSUME SeatInv, NEW b \in Bookings, TakeQr(b)
    PROVE  SeatInv'
<1>1. /\ now \in Nat /\ rows \in [Bookings -> SeatRow] /\ granted \in Nat /\ TypeOK
      /\ scan \in [Bookings -> ScanState] /\ challenge \in Challenge
      /\ \A c \in Bookings : rows[c] \in SeatRow
  BY SeatTypes DEF SeatInv
<1>2. /\ UNCHANGED <<now, poll, adrift, m, polledAt, faults, granted, told, raced>>
      /\ scan[b].at = "take"
      /\ challenge' = IF challenge.id = scan[b].qr THEN NoChallenge ELSE challenge
  BY DEF TakeQr, agent, history
<1>3. \A c \in Bookings : Kept(rows[c], rows[c])
  BY <1>1 DEF Kept, SeatRow
<1>4. rows' \in [Bookings -> SeatRow] /\ \A c \in Bookings : Kept(rows[c], rows'[c])
  <2>1. CASE UNCHANGED rows
    BY <1>1, <1>3, <2>1
  <2>2. CASE rows' = [rows EXCEPT ![b] = Begun(rows[b], now)]
    <3>1. PICK q : q = Begun(rows[b], now)
      OBVIOUS
    <3>2. Kept(rows[b], q) /\ q \in SeatRow
      BY <1>1, <3>1, BegunKeeps DEF Kept
    <3>3. QED BY <1>1, <1>3, <2>2, <3>1, <3>2
  <2>3. QED BY <2>1, <2>2 DEF TakeQr
<1>5. PICK x : x \in ScanState /\ scan' = [scan EXCEPT ![b] = x]
  <2>1. Idle \in ScanState /\ [at |-> "write"] \in ScanState
    BY DEF Idle, ScanState
  <2>2. QED BY <2>1 DEF TakeQr
<1>6. x.at # "take"
  <2>1. scan'[b].at # "take"
    BY <1>1 DEF TakeQr, Idle
  <2>2. QED BY <1>1, <1>5, <2>1
<1>7. TypeOK'
  <2>1. NoChallenge \in Challenge
    BY NoneIsNoTime DEF NoChallenge, Challenge
  <2>2. QED BY <1>1, <1>2, <1>4, <1>5, <2>1 DEF TypeOK
<1>8. /\ RowsAreGranted'
      /\ \A c \in SeatedIds(rows)' : c \in SeatedIds(rows) /\ rows[c].endAt <= rows'[c].endAt
  BY <1>2, <1>4, KeptGranted
<1>9. AgentIsGranted'
  BY <1>1, <1>2, AgentStays
<1>10. /\ poll'.at = "format" => ReadIsGranted'
       /\ poll'.at = "deliver" => AnswerIsGranted'
  BY <1>1, <1>2, PollStays
<1>11. ASSUME ~raced' PROVE SeatIsOnes'
  <2>1. SeatIsOnes
    BY <1>2, <1>11 DEF SeatInv
  <2>2. /\ Scanning = {b} /\ SeatedIds(rows) = {} /\ m.mode = "locked"
        /\ challenge = NoChallenge \/ challenge.id = scan[b].qr
    BY <1>2, <2>1, ScanAlone
  <2>3. challenge' = NoChallenge /\ SeatedIds(rows)' = {}
    BY <1>2, <1>8, <2>2
  <2>4. \A c \in Scanning' : c = b
    BY <1>1, <1>5, <2>2 DEF Scanning
  <2>5. ScanIsAlone'
    BY <1>2, <2>2, <2>3, <2>4 DEF ScanIsAlone
  <2>6. QED BY <1>2, <2>1, <2>2, <2>3, <2>5, ScanIsQuiet DEF SeatIsOnes, CodeMeansFree
<1>12. QED BY <1>2, <1>7, <1>8, <1>9, <1>10, <1>11 DEF SeatInv

LEMMA WriteUnlockStep ==
    ASSUME SeatInv, NEW b \in Bookings, WriteUnlock(b)
    PROVE  SeatInv'
<1>1. /\ now \in Nat /\ rows \in [Bookings -> SeatRow] /\ granted \in Nat /\ TypeOK
      /\ scan \in [Bookings -> ScanState] /\ rows[b] \in SeatRow
      /\ rows[b].endAt \in Int
  BY SeatTypes DEF SeatInv, SeatRow
<1>2. PICK q : q = [rows[b] EXCEPT !.unlockedAt = now]
  OBVIOUS
<1>3. PICK w : w = [rows EXCEPT ![b] = q]
  OBVIOUS
<1>4. /\ UNCHANGED <<now, challenge, poll, m, polledAt, faults, told, raced>>
      /\ rows' = Synced(w, now) /\ adrift' \in BOOLEAN
      /\ scan[b].at = "write" /\ scan' = [scan EXCEPT ![b] = Idle]
  BY <1>1, <1>2, <1>3, SeatTypes DEF WriteUnlock, agent, SeatInv
<1>5. /\ q \in SeatRow /\ q.status = rows[b].status
      /\ q.startAt = rows[b].startAt /\ q.endAt = rows[b].endAt
  BY <1>1, <1>2 DEF SeatRow
<1>6. /\ w \in [Bookings -> SeatRow] /\ w[b] = q
      /\ \A c \in Bookings \ {b} : w[c] = rows[c]
  BY <1>1, <1>3, <1>5
<1>7. rows' \in [Bookings -> SeatRow] /\ \A c \in Bookings : Kept(w[c], rows'[c])
  BY <1>1, <1>4, <1>6, SyncedKeeps
<1>8. /\ granted' \in Nat /\ granted <= granted'
      /\ rows[b].status \in {"paid", "active"} => rows[b].endAt <= granted'
  <2>1. CASE rows[b].status \in {"paid", "active"}
    BY <1>1, <2>1 DEF WriteUnlock, UpTo
  <2>2. CASE rows[b].status \notin {"paid", "active"}
    BY <1>1, <2>2 DEF WriteUnlock
  <2>3. QED BY <2>1, <2>2
<1>9. TypeOK'
  <2>1. Idle \in ScanState
    BY DEF Idle, ScanState
  <2>2. QED BY <1>1, <1>4, <1>7, <1>8, <2>1 DEF TypeOK
<1>10. RowsAreGranted'
  <2>1. ASSUME NEW c \in Bookings PROVE RowIsGranted(w[c], granted')
    <3>1. RowIsGranted(rows[c], granted) /\ rows[c] \in SeatRow /\ rows[c].endAt \in Int
      BY <1>1 DEF SeatInv, RowsAreGranted, SeatRow
    <3>2. CASE c = b
      BY <1>5, <1>6, <1>8, <3>1, <3>2 DEF RowIsGranted
    <3>3. CASE c # b
      BY <1>1, <1>6, <1>8, <3>1, <3>3 DEF RowIsGranted
    <3>4. QED BY <3>2, <3>3
  <2>2. \A c \in Bookings : RowIsGranted(rows'[c], granted')
    BY <1>6, <1>7, <1>8, <2>1, GrantIsKept
  <2>3. QED BY <2>2 DEF RowsAreGranted, RowIsGranted
<1>11. AgentIsGranted'
  BY <1>4, <1>8, AgentStays
<1>12. /\ poll'.at = "format" => ReadIsGranted'
       /\ poll'.at = "deliver" => AnswerIsGranted'
  BY <1>1, <1>4, <1>8, PollStays
\* without a race the code is gone, and no other booking is on the seat
<1>13. ASSUME ~raced' PROVE SeatIsOnes'
  <2>1. SeatIsOnes
    BY <1>4, <1>13 DEF SeatInv
  <2>2. /\ Scanning = {b} /\ SeatedIds(rows) = {} /\ m.mode = "locked"
        /\ challenge = NoChallenge
    BY <1>4, <2>1, ScanAlone
  <2>3. ASSUME NEW c \in SeatedIds(rows)' PROVE c = b
    <3>1. SUFFICES ASSUME c # b PROVE FALSE
      OBVIOUS
    <3>2. c \in Bookings /\ Seated(rows'[c], now)
      BY <1>4, <2>3 DEF SeatedIds
    <3>3. w[c] = rows[c] /\ rows[c] \in SeatRow /\ Kept(rows[c], rows'[c])
      BY <1>1, <1>6, <1>7, <3>1, <3>2
    <3>4. Seated(rows[c], now)
      BY <1>1, <3>2, <3>3, KeptSeated
    <3>5. QED BY <2>2, <3>2, <3>4 DEF SeatedIds
  <2>4. Scanning' = {}
    BY <1>1, <1>4, <2>2 DEF Scanning, Idle
  <2>5. QED BY <1>4, <2>1, <2>2, <2>3, <2>4, ScanIsQuiet
            DEF SeatIsOnes, CodeMeansFree, ScanIsAlone
<1>14. QED BY <1>4, <1>9, <1>10, <1>11, <1>12, <1>13 DEF SeatInv

-----------------------------------------------------------------------------
(* Time and faults.                                                        *)

LEMMA TickStep ==
    ASSUME SeatInv, Tick
    PROVE  SeatInv'
<1>1. /\ now' = now + 1 /\ now < polledAt + MaxGap
      /\ faults' \in {faults, faults + 1} /\ faults' <= MaxFaults
      /\ UNCHANGED <<rows, challenge, poll, scan, adrift, m, polledAt, granted, told, raced>>
  BY DEF Tick, server, phones, agent, history
<1>2. /\ TypeOK' /\ now \in Nat /\ polledAt \in Nat /\ granted \in Nat
      /\ rows \in [Bookings -> SeatRow]
  <2>1. polledAt \in 0..now' /\ faults' \in 0..MaxFaults
    BY <1>1, SeatTypes DEF SeatInv
  <2>2. QED BY <1>1, <2>1, SeatTypes DEF SeatInv, TypeOK
<1>3. \A b \in SeatedIds(rows)' : b \in SeatedIds(rows) /\ rows[b].endAt <= rows'[b].endAt
  <2>1. \A b \in Bookings : rows[b].endAt \in Int
    BY <1>2 DEF SeatRow
  <2>2. QED BY <1>1, <1>2, <2>1 DEF SeatedIds, Seated
<1>4. RowsAreGranted'
  BY <1>1 DEF SeatInv, RowsAreGranted, RowIsGranted
<1>5. AgentIsGranted'
  BY <1>1, <1>2, AgentStays
<1>6. /\ poll'.at = "format" => ReadIsGranted'
      /\ poll'.at = "deliver" => AnswerIsGranted'
  BY <1>1, <1>2, PollStays
<1>7. raced' \/ SeatIsOnes'
  BY <1>1, <1>2, <1>3, OnesStay DEF SeatInv
<1>8. now' <= polledAt' + MaxGap
  BY <1>1, <1>2
<1>9. QED BY <1>1, <1>2, <1>4, <1>5, <1>6, <1>7, <1>8 DEF SeatInv

LEMMA RestartApiStep ==
    ASSUME SeatInv, RestartApi
    PROVE  SeatInv'
<1>1. /\ challenge' = NoChallenge /\ faults' = faults + 1 /\ faults < MaxFaults
      /\ scan' = [b \in Bookings |-> Idle] /\ adrift' = FALSE
      /\ UNCHANGED <<now, rows, m, polledAt, granted, told, raced>>
      /\ (poll' = poll /\ poll.at = "idle") \/ poll' = [at |-> "lost"]
  BY DEF RestartApi, agent, history
<1>2. TypeOK'
  <2>1. NoChallenge \in Challenge
    BY NoneIsNoTime DEF NoChallenge, Challenge
  <2>2. faults' \in 0..MaxFaults
    BY <1>1, SeatTypes DEF SeatInv, TypeOK
  <2>3. [at |-> "lost"] \in PollState
    BY DEF PollState
  <2>4. scan' \in [Bookings -> ScanState]
    BY <1>1 DEF Idle, ScanState
  <2>5. QED BY <1>1, <2>1, <2>2, <2>3, <2>4 DEF SeatInv, TypeOK
<1>3. SeatedIds(rows)' = SeatedIds(rows) /\ Scanning' = {}
  BY <1>1 DEF SeatedIds, Scanning, Idle
<1>4. RowsAreGranted'
  BY <1>1 DEF SeatInv, RowsAreGranted, RowIsGranted
<1>5. poll'.at # "format" /\ poll'.at # "deliver"
  BY <1>1
<1>6. AgentIsGranted'
  BY <1>1, SeatTypes, AgentStays DEF SeatInv
<1>7. raced' \/ SeatIsOnes'
  BY <1>1, <1>3, <1>5 DEF SeatInv, SeatIsOnes, CodeMeansFree, ScanIsAlone
<1>8. QED BY <1>1, <1>2, <1>4, <1>5, <1>6, <1>7 DEF SeatInv

LEMMA NewMachineType ==
    NewMachine \in Machine /\ NewMachine.mode = "locked" /\ NewMachine.deadline = None
BY NoneIsNoTime DEF NewMachine, Machine, View, Modes, LockView

LEMMA RebootStep ==
    ASSUME SeatInv, Reboot
    PROVE  SeatInv'
<1>1. /\ m' = NewMachine /\ polledAt' = now /\ poll' = Idle /\ told' = 0
      /\ faults' = faults + 1 /\ faults < MaxFaults
      /\ UNCHANGED <<now, rows, challenge, scan, adrift, granted, raced>>
  BY DEF Reboot, server, phones
<1>2. TypeOK'
  <2>1. Idle \in PollState
    BY DEF Idle, PollState
  <2>2. faults' \in 0..MaxFaults /\ polledAt' \in 0..now'
    BY <1>1, SeatTypes DEF SeatInv, TypeOK
  <2>3. QED BY <1>1, <2>1, <2>2, NewMachineType DEF SeatInv, TypeOK
<1>3. SeatedIds(rows)' = SeatedIds(rows) /\ Scanning' = Scanning
  BY <1>1 DEF SeatedIds, Scanning
<1>4. RowsAreGranted'
  BY <1>1 DEF SeatInv, RowsAreGranted, RowIsGranted
<1>5. poll'.at # "format" /\ poll'.at # "deliver"
  BY <1>1 DEF Idle
<1>6. now' <= polledAt' + MaxGap
  BY <1>1, SeatTypes DEF SeatInv
<1>7. m'.mode = "locked" /\ AgentIsGranted'
  BY <1>1, NewMachineType DEF AgentIsGranted
<1>8. raced' \/ SeatIsOnes'
  BY <1>1, <1>3, <1>5, <1>7 DEF SeatInv, SeatIsOnes, CodeMeansFree, ScanIsAlone
<1>9. QED BY <1>1, <1>2, <1>4, <1>5, <1>6, <1>7, <1>8 DEF SeatInv

-----------------------------------------------------------------------------
(* The poll on the server's side.                                          *)

\* Two codes are enough for one that no screen shows.
LEMMA FreshCodeType == ASSUME NEW shown PROVE FreshCode(shown) \in QrCodes
<1>1. \E c \in QrCodes : c # shown
  <2>1. SUFFICES ASSUME \A c \in QrCodes : c = shown PROVE FALSE
    OBVIOUS
  <2>2. CASE QrCodes = {}
    BY <2>2, FS_EmptySet
  <2>3. CASE QrCodes # {}
    <3>1. QrCodes = {shown}
      BY <2>1, <2>3
    <3>2. Cardinality(QrCodes) = 1
      BY <3>1, FS_Singleton
    <3>3. QED BY <3>2
  <2>4. QED BY <2>2, <2>3
<1>2. QED BY <1>1 DEF FreshCode

LEMMA OfferedType ==
    ASSUME challenge \in Challenge, NEW shown, NEW t \in Nat
    PROVE  Offered(challenge, shown, t) \in Challenge
<1>1. FreshCode(shown) \in QrCodes
  BY FreshCodeType, Zenon
<1>2. QrCodes \subseteq Int /\ t + ChallengeTtl \in Int
  OBVIOUS
<1>3. QED BY <1>1, <1>2 DEF Offered, Challenge

\* An offered code is a code.
LEMMA OfferedIsCode ==
    ASSUME TypeOK, Offer
    PROVE  challenge' \in Challenge /\ challenge' # NoChallenge
<1>1. now \in Nat /\ challenge \in Challenge
  BY DEF TypeOK
<1>2. challenge' \in Challenge
  BY <1>1, OfferedType DEF Offer
<1>3. challenge'.exp > now
  BY <1>1 DEF Offer, Offered, Challenge
<1>4. QED BY <1>1, <1>2, <1>3, NoneIsNoTime DEF NoChallenge, None

LEMMA PollReadStep ==
    ASSUME SeatInv, PollRead
    PROVE  SeatInv'
<1>1. /\ now \in Nat /\ rows \in [Bookings -> SeatRow] /\ granted \in Nat /\ TypeOK
      /\ polledAt \in Nat /\ polledAt <= now /\ told \in Nat
  BY SeatTypes DEF SeatInv
<1>2. /\ rows' = Synced(rows, now)
      /\ UNCHANGED <<now, challenge, scan, adrift, m, polledAt, faults, granted, told, raced>>
  BY DEF PollRead, phones, agent, history
<1>3. rows' \in [Bookings -> SeatRow] /\ \A b \in Bookings : Kept(rows[b], rows'[b])
  BY <1>1, <1>2, SyncedKeeps
<1>4. /\ RowsAreGranted'
      /\ \A c \in SeatedIds(rows)' : c \in SeatedIds(rows) /\ rows[c].endAt <= rows'[c].endAt
  BY <1>2, <1>3, KeptGranted
<1>5. AgentIsGranted'
  BY <1>1, <1>2, AgentStays
<1>6. ASSUME SeatIsOnes
      PROVE  /\ \A b, c \in SeatedIds(rows)' : b = c
             /\ CodeMeansFree' /\ ScanIsAlone'
             /\ m'.mode # "locked" => \A b \in SeatedIds(rows)' : told' <= rows'[b].endAt
  BY <1>2, <1>3, <1>4, <1>6, SeatStays
<1>7. SeatedIds(rows)' = SeatedIds(rows')
  BY <1>2 DEF SeatedIds
<1>8. CASE SeatedIds(rows') = {}
  <2>1. poll' = [at |-> "offer"]
    BY <1>8 DEF PollRead
  <2>2. TypeOK'
    <3>1. poll' \in PollState
      BY <2>1 DEF PollState
    <3>2. QED BY <1>1, <1>2, <1>3, <3>1 DEF TypeOK
  <2>3. raced' \/ SeatIsOnes'
    BY <1>2, <1>6, <2>1 DEF SeatInv, SeatIsOnes
  <2>4. QED BY <1>2, <1>4, <1>5, <2>1, <2>2, <2>3 DEF SeatInv
<1>9. CASE SeatedIds(rows') # {}
  <2>1. PICK b \in Latest(rows', now) : poll' = [at |-> "format", row |-> rows'[b]]
    BY <1>9 DEF PollRead
  <2>2. /\ b \in Bookings /\ rows'[b] \in SeatRow /\ Seated(rows'[b], now)
        /\ rows'[b].endAt \in Int /\ rows'[b].startAt \in Int
    BY <1>3, <2>1 DEF Latest, SeatRow
  <2>3. b \in SeatedIds(rows)' /\ b \in SeatedIds(rows)
    BY <1>4, <1>7, <2>2 DEF SeatedIds
  <2>4. TypeOK'
    <3>1. poll' \in PollState
      BY <2>1, <2>2 DEF PollState
    <3>2. QED BY <1>1, <1>2, <1>3, <3>1 DEF TypeOK
  <2>5. ReadIsGranted' /\ poll'.at = "format" /\ poll'.row = rows'[b]
    <3>1. poll'.row = rows'[b]
      BY <2>1
    <3>2. RowIsGranted(rows'[b], granted)
      BY <1>2, <1>4, <2>2 DEF RowsAreGranted, RowIsGranted
    <3>3. /\ rows'[b].startAt < rows'[b].endAt /\ rows'[b].endAt <= granted'
          /\ polledAt' < rows'[b].endAt
      BY <1>1, <1>2, <2>2, <3>2 DEF RowIsGranted, Seated
    <3>4. QED BY <2>1, <3>1, <3>3 DEF ReadIsGranted
  <2>6. ASSUME ~raced' PROVE SeatIsOnes'
    <3>1. SeatIsOnes
      BY <1>2, <2>6 DEF SeatInv
    <3>2. challenge' = NoChallenge
      BY <1>2, <2>3, <3>1 DEF SeatIsOnes, CodeMeansFree
    <3>3. Scanning' = {}
      <4>1. Scanning = {}
        BY <2>3, <3>1 DEF SeatIsOnes, ScanIsAlone
      <4>2. QED BY <1>2, <4>1 DEF Scanning
    <3>4. m'.mode # "locked" => told' <= rows'[b].endAt
      BY <1>6, <2>3, <3>1
    <3>5. \A c \in SeatedIds(rows)' : rows'[b].endAt <= rows'[c].endAt
      <4>1. \A c \in SeatedIds(rows)' : c = b
        BY <1>6, <2>3, <3>1
      <4>2. QED BY <2>2, <4>1
    <3>6. ReadIsAlone'
      BY <2>5, <3>2, <3>3, <3>4, <3>5 DEF ReadIsAlone
    <3>7. QED BY <1>6, <2>5, <3>1, <3>6 DEF SeatIsOnes
  <2>7. QED BY <1>2, <1>4, <1>5, <2>4, <2>5, <2>6 DEF SeatInv
<1>10. QED BY <1>8, <1>9

\* A new code on a free seat begins anew; any other tells of a race or was there.
LEMMA PollOfferStep ==
    ASSUME SeatInv, PollOffer
    PROVE  SeatInv'
<1>1. /\ now \in Nat /\ rows \in [Bookings -> SeatRow] /\ granted \in Nat /\ TypeOK
  BY SeatTypes DEF SeatInv
<1>2. /\ Offer /\ raced' = IF challenge' = challenge THEN raced ELSE SeatTaken
      /\ poll' = [at |-> "deliver", answer |-> LockedAnswer(challenge'.id), ends |-> 0]
      /\ UNCHANGED <<now, rows, scan, adrift, m, polledAt, faults, granted, told>>
  BY DEF PollOffer, phones, agent
<1>3. challenge' \in Challenge /\ challenge' # NoChallenge
  BY <1>1, <1>2, OfferedIsCode
<1>4. TypeOK'
  <2>1. challenge'.id \in Int
    BY <1>3 DEF Challenge
  <2>2. LockedAnswer(challenge'.id) \in Poll
    BY <2>1 DEF LockedAnswer, Poll, Kinds
  <2>3. poll' \in PollState
    BY <1>2, <2>2 DEF PollState
  <2>4. raced' \in BOOLEAN
    BY <1>1, <1>2 DEF TypeOK, SeatTaken
  <2>5. QED BY <1>1, <1>2, <1>3, <2>3, <2>4 DEF TypeOK
<1>5. RowsAreGranted'
  BY <1>2 DEF SeatInv, RowsAreGranted, RowIsGranted
<1>6. AgentIsGranted'
  BY <1>1, <1>2, AgentStays
<1>7. /\ poll'.at = "deliver" /\ poll'.answer.kind = "locked" /\ AnswerIsGranted'
  BY <1>2 DEF AnswerIsGranted, LockedAnswer
<1>8. SeatedIds(rows)' = SeatedIds(rows) /\ Scanning' = Scanning
  BY <1>2 DEF SeatedIds, Scanning
<1>9. ASSUME ~raced' PROVE SeatIsOnes'
  <2>1. CASE challenge' = challenge
    <3>1. SeatIsOnes
      BY <1>2, <1>9, <2>1 DEF SeatInv
    <3>2. SeatedIds(rows) = {}
      BY <1>3, <2>1, <3>1 DEF SeatIsOnes, CodeMeansFree
    <3>3. CodeMeansFree' /\ AnswerIsAlone'
      BY <1>7, <1>8, <3>2 DEF CodeMeansFree, AnswerIsAlone
    <3>4. ScanIsAlone'
      BY <1>2, <1>8, <2>1, <3>1 DEF SeatIsOnes, ScanIsAlone
    <3>5. QED BY <1>7, <1>8, <3>2, <3>3, <3>4 DEF SeatIsOnes
  <2>2. CASE challenge' # challenge
    <3>1. SeatedIds(rows)' = {} /\ Scanning' = {}
      BY <1>2, <1>8, <1>9, <2>2 DEF SeatTaken
    <3>2. QED BY <1>7, <3>1
              DEF SeatIsOnes, CodeMeansFree, ScanIsAlone, AnswerIsAlone
  <2>3. QED BY <2>1, <2>2
<1>10. QED BY <1>2, <1>4, <1>5, <1>6, <1>7, <1>9 DEF SeatInv

LEMMA AdriftOfferStep ==
    ASSUME SeatInv, AdriftOffer
    PROVE  SeatInv'
<1>1. /\ now \in Nat /\ rows \in [Bookings -> SeatRow] /\ granted \in Nat /\ TypeOK
  BY SeatTypes DEF SeatInv
<1>2. /\ Offer /\ raced' = IF challenge' = challenge THEN raced ELSE TRUE
      /\ adrift' = FALSE
      /\ UNCHANGED <<now, rows, poll, scan, m, polledAt, faults, granted, told>>
  BY DEF AdriftOffer, agent
<1>3. TypeOK'
  <2>1. challenge' \in Challenge /\ raced' \in BOOLEAN
    BY <1>1, <1>2, OfferedIsCode DEF TypeOK
  <2>2. QED BY <1>1, <1>2, <2>1 DEF TypeOK
<1>4. RowsAreGranted'
  BY <1>2 DEF SeatInv, RowsAreGranted, RowIsGranted
<1>5. AgentIsGranted'
  BY <1>1, <1>2, AgentStays
<1>6. /\ poll'.at = "format" => ReadIsGranted'
      /\ poll'.at = "deliver" => AnswerIsGranted'
  BY <1>1, <1>2, PollStays
<1>7. ASSUME ~raced' PROVE SeatIsOnes'
  <2>1. challenge' = challenge /\ SeatIsOnes
    BY <1>2, <1>7 DEF SeatInv
  <2>2. \A b \in SeatedIds(rows)' : b \in SeatedIds(rows) /\ rows[b].endAt <= rows'[b].endAt
    BY <1>1, <1>2 DEF SeatedIds, SeatRow
  <2>3. QED BY <1>1, <1>2, <2>1, <2>2, OnesStay
<1>8. QED BY <1>2, <1>3, <1>4, <1>5, <1>6, <1>7 DEF SeatInv

LEMMA PollFormatStep ==
    ASSUME SeatInv, PollFormat
    PROVE  SeatInv'
<1>1. /\ now \in Nat /\ TypeOK /\ polledAt \in Nat /\ polledAt <= now /\ told \in Nat
      /\ rows \in [Bookings -> SeatRow] /\ granted \in Nat
  BY SeatTypes DEF SeatInv
<1>2. /\ UNCHANGED <<now, rows, challenge, scan, adrift, m, polledAt>>
      /\ UNCHANGED <<faults, granted, told, raced>>
      /\ poll.at = "format"
  BY DEF PollFormat, server, phones, agent, history
<1>3. PICK r : r = poll.row
  OBVIOUS
<1>4. r \in SeatRow /\ ReadIsGranted /\ r.endAt \in Int /\ r.startAt < r.endAt
  BY <1>1, <1>2, <1>3, PollTypes DEF SeatInv, ReadIsGranted, SeatRow
<1>5. PICK left : left = DisplayRemaining(r, now)
  OBVIOUS
<1>6. /\ left \in Nat
      /\ r.endAt > now => now + left <= r.endAt
      /\ left = 0 <=> r.endAt <= now
      /\ GameRunning(r, now) => r.endAt <= now + left
  BY <1>1, <1>4, <1>5, CountdownOfRow
<1>7. PICK a, e : a = SeatAnswer(r, now) /\ e = IF GameRunning(r, now) THEN r.endAt ELSE 0
  OBVIOUS
<1>8. /\ poll' = [at |-> "deliver", answer |-> a, ends |-> e]
      /\ poll'.at = "deliver" /\ poll'.answer = a /\ poll'.ends = e
  BY <1>3, <1>7 DEF PollFormat
<1>9. /\ a.kind \in {"active", "expired"} /\ a.remaining = left
      /\ a.kind = "expired" => left = 0
      /\ a \in Poll
  BY <1>4, <1>5, <1>6, <1>7, NoneIsNoTime DEF SeatAnswer, Poll, Kinds
<1>10. e \in Nat
  BY <1>1, <1>3, <1>4, <1>7 DEF ReadIsGranted
<1>11. TypeOK'
  <2>1. poll' \in PollState
    BY <1>8, <1>9, <1>10 DEF PollState
  <2>2. QED BY <1>1, <1>2, <2>1 DEF TypeOK
<1>12. SeatedIds(rows)' = SeatedIds(rows) /\ Scanning' = Scanning
  BY <1>2 DEF SeatedIds, Scanning
<1>13. AnswerIsGranted'
  <2>1. polledAt + left <= granted /\ polledAt < granted /\ e <= now + left
    BY <1>1, <1>3, <1>4, <1>6, <1>7 DEF ReadIsGranted
  <2>2. QED BY <1>2, <1>8, <1>9, <2>1 DEF AnswerIsGranted
<1>14. ASSUME ~raced' PROVE SeatIsOnes'
  <2>1. SeatIsOnes /\ ReadIsAlone
    BY <1>2, <1>14 DEF SeatInv, SeatIsOnes
  <2>2. left = 0 /\ m.mode # "locked" => told <= now
    BY <1>1, <1>3, <1>4, <1>6, <2>1 DEF ReadIsAlone
  <2>3. \A b \in SeatedIds(rows) : e <= rows[b].endAt
    <3>1. SUFFICES ASSUME NEW b \in SeatedIds(rows) PROVE e <= rows[b].endAt
      OBVIOUS
    <3>2. r.endAt <= rows[b].endAt /\ rows[b].endAt \in Int /\ rows[b].endAt > now
      BY <1>1, <1>3, <1>4, <2>1 DEF ReadIsAlone, SeatedIds, Seated, SeatRow
    <3>3. QED BY <1>1, <1>4, <1>7, <3>2
  <2>4. AnswerIsAlone'
    BY <1>2, <1>8, <1>9, <1>12, <2>1, <2>2, <2>3 DEF AnswerIsAlone, ReadIsAlone
  <2>5. /\ \A b, c \in SeatedIds(rows)' : b = c
        /\ CodeMeansFree' /\ ScanIsAlone'
        /\ m'.mode # "locked" => \A b \in SeatedIds(rows)' : told' <= rows'[b].endAt
    BY <1>2, <1>12, <2>1 DEF SeatIsOnes, CodeMeansFree, ScanIsAlone
  <2>6. QED BY <1>8, <2>4, <2>5 DEF SeatIsOnes
<1>15. RowsAreGranted'
  BY <1>2 DEF SeatInv, RowsAreGranted, RowIsGranted
<1>16. AgentIsGranted'
  BY <1>1, <1>2, AgentStays
<1>17. QED BY <1>2, <1>8, <1>11, <1>13, <1>14, <1>15, <1>16 DEF SeatInv

-----------------------------------------------------------------------------
(* The poll on the agent's side.                                           *)

\* The agent has applied an outcome: what is left to show is the machine's.
LEMMA AppliedStep ==
    ASSUME SeatInv, UNCHANGED <<now, rows, challenge, scan, granted, raced>>,
           adrift' \in BOOLEAN, faults' \in 0..MaxFaults,
           poll' = Idle, polledAt' = now, m' \in Machine, told' \in Nat, AgentIsGranted',
           ~raced /\ m'.mode # "locked" =>
              Scanning = {} /\ \A b \in SeatedIds(rows) : told' <= rows[b].endAt
    PROVE  SeatInv'
<1>1. TypeOK'
  <2>1. Idle \in PollState
    BY DEF Idle, PollState
  <2>2. polledAt' \in 0..now'
    BY SeatTypes DEF SeatInv
  <2>3. QED BY <2>1, <2>2 DEF SeatInv, TypeOK
<1>2. SeatedIds(rows)' = SeatedIds(rows) /\ Scanning' = Scanning
  BY DEF SeatedIds, Scanning
<1>3. RowsAreGranted'
  BY DEF SeatInv, RowsAreGranted, RowIsGranted
<1>4. now' <= polledAt' + MaxGap
  BY SeatTypes DEF SeatInv
<1>5. poll'.at # "format" /\ poll'.at # "deliver"
  BY DEF Idle
<1>6. ASSUME ~raced' PROVE SeatIsOnes'
  <2>1. SeatIsOnes
    BY <1>6 DEF SeatInv
  <2>2. ScanIsAlone'
    BY <1>2, <1>6, <2>1 DEF SeatIsOnes, ScanIsAlone
  <2>3. QED BY <1>2, <1>5, <1>6, <2>1, <2>2 DEF SeatIsOnes, CodeMeansFree
<1>7. QED BY <1>1, <1>3, <1>4, <1>5, <1>6 DEF SeatInv

\* A PC in play has no confirmation under way, without a race.
LEMMA PlayMeansNoScan ==
    ASSUME SeatIsOnes, m.mode # "locked"
    PROVE  Scanning = {}
BY DEF SeatIsOnes, ScanIsAlone

\* No game whose end the agent was told of is still running.
NobodyEvicted == ~\E b \in Bookings : Seated(rows[b], now) /\ rows[b].endAt = told

LEMMA ToldIsOver ==
    ASSUME SeatInv, told <= now
    PROVE  NobodyEvicted
BY SeatTypes DEF SeatInv, NobodyEvicted, Seated

\* An answer about a session: its end is told, and a value of 0 begins grace.
LEMMA ActiveDelivered ==
    ASSUME SeatInv, PollDeliver, poll.answer.kind = "active"
    PROVE  SeatInv' /\ (m.mode # "locked" /\ m'.mode = "locked" /\ ~raced => NobodyEvicted)
<1>1. /\ now \in Nat /\ TypeOK /\ polledAt \in Nat /\ polledAt <= now /\ told \in Nat
      /\ now <= polledAt + MaxGap /\ granted \in Nat /\ m \in Machine /\ MaxGap \in Nat
  BY SeatTypes DEF SeatInv
<1>2. poll.answer \in Poll /\ poll.ends \in Nat /\ AnswerIsGranted
  BY <1>1, PollTypes DEF PollDeliver, SeatInv
<1>3. PICK a : a = poll.answer
  OBVIOUS
<1>4. a \in Poll /\ a.kind = "active" /\ a.remaining \in Nat
  BY <1>2, <1>3 DEF Poll
<1>5. /\ polledAt + a.remaining <= granted /\ polledAt < granted
      /\ poll.ends <= now + a.remaining
  BY <1>2, <1>3, <1>4 DEF AnswerIsGranted
<1>6. /\ UNCHANGED <<now, rows, challenge, scan, adrift, faults, granted, raced>>
      /\ poll' = Idle /\ polledAt' = now /\ poll.at = "deliver"
      /\ told' = IF m'.mode = "locked" THEN 0 ELSE poll.ends
      /\ m' = EnterActive(m, a, now)
  BY <1>3, <1>4 DEF PollDeliver, server, phones, Apply
<1>7. m' \in Machine /\ ActiveOutcome(m', a, now)
  BY <1>1, <1>4, <1>6, EnterActiveFields
<1>8. m'.mode = "locked" => m'.deadline = None
  BY <1>7 DEF ActiveOutcome
<1>9. m'.mode # "locked" => m'.streak = 0
  BY <1>7 DEF ActiveOutcome
<1>10. ASSUME m'.mode = "active" PROVE CountdownIsGranted'
  <2>1. /\ m'.deadline = None /\ m'.streak = 0 /\ m'.anchor = a.remaining
        /\ m'.anchoredAt = now
    BY <1>7, <1>10 DEF ActiveOutcome
  <2>2. Held' = 0
    BY <2>1 DEF Held
  <2>3. QED BY <1>1, <1>4, <1>5, <1>6, <2>1, <2>2, NoneIsNoTime DEF CountdownIsGranted
<1>11. ASSUME m'.mode = "grace" PROVE GraceIsGranted'
  <2>1. m'.deadline = now + Grace /\ m'.streak = 0 /\ Grace > 0 /\ a.remaining = 0
    BY <1>7, <1>11 DEF ActiveOutcome
  <2>2. Held' = 0
    BY <2>1 DEF Held
  <2>3. QED BY <1>1, <1>2, <1>5, <1>6, <2>1, <2>2, NoneIsNoTime DEF GraceIsGranted
<1>12. ASSUME ~raced
       PROVE  /\ Scanning = {} /\ \A b \in SeatedIds(rows) : poll.ends <= rows[b].endAt
              /\ a.remaining = 0 /\ m.mode # "locked" => told <= now
  BY <1>3, <1>4, <1>6, <1>12 DEF SeatInv, SeatIsOnes, AnswerIsAlone
<1>13. AgentIsGranted'
  BY <1>8, <1>9, <1>10, <1>11 DEF AgentIsGranted, LockHysteresis
<1>14. SeatInv'
  <2>1. told' \in Nat /\ adrift' \in BOOLEAN /\ faults' \in 0..MaxFaults
    BY <1>1, <1>2, <1>6 DEF TypeOK
  <2>2. ASSUME ~raced, m'.mode # "locked"
        PROVE  Scanning = {} /\ \A b \in SeatedIds(rows) : told' <= rows[b].endAt
    BY <1>6, <1>12, <2>2
  <2>3. QED BY <1>6, <1>7, <1>13, <2>1, <2>2, AppliedStep
<1>15. ASSUME m.mode # "locked", m'.mode = "locked", ~raced PROVE NobodyEvicted
  <2>1. a.remaining = 0
    BY <1>7, <1>15 DEF ActiveOutcome
  <2>2. QED BY <1>12, <1>15, <2>1, ToldIsOver
<1>16. QED BY <1>14, <1>15

\* A session whose time is over: the grace begins, runs on or ends.
LEMMA ExpiredDelivered ==
    ASSUME SeatInv, PollDeliver, poll.answer.kind = "expired"
    PROVE  SeatInv' /\ (m.mode # "locked" /\ m'.mode = "locked" /\ ~raced => NobodyEvicted)
<1>1. /\ now \in Nat /\ TypeOK /\ polledAt \in Nat /\ polledAt <= now /\ told \in Nat
      /\ now <= polledAt + MaxGap /\ granted \in Nat /\ m \in Machine /\ MaxGap \in Nat
      /\ m.deadline \in Int /\ m.mode \in Modes
  BY SeatTypes DEF SeatInv
<1>2. poll.answer \in Poll /\ poll.ends \in Nat /\ AnswerIsGranted
  BY <1>1, PollTypes DEF PollDeliver, SeatInv
<1>3. PICK a : a = poll.answer
  OBVIOUS
<1>4. a \in Poll /\ a.kind = "expired" /\ a.remaining = 0
  BY <1>2, <1>3 DEF AnswerIsGranted
<1>5. polledAt < granted /\ poll.ends <= now
  BY <1>1, <1>2, <1>3, <1>4 DEF AnswerIsGranted
<1>6. /\ UNCHANGED <<now, rows, challenge, scan, adrift, faults, granted, raced>>
      /\ poll' = Idle /\ polledAt' = now /\ poll.at = "deliver"
      /\ told' = IF m'.mode = "locked" THEN 0 ELSE poll.ends
      /\ m' = EnterGrace(m, a, now)
  BY <1>3, <1>4 DEF PollDeliver, server, phones, Apply
<1>7. PICK d : d = GraceDeadline(m, now)
  OBVIOUS
<1>8. m' \in Machine /\ GraceOutcome(m', d, a, now)
  BY <1>1, <1>4, <1>6, <1>7, EnterGraceFields
\* the grace ends by its old deadline, or by now and a grace
<1>9. d \in Int /\ d <= now + Grace /\ d < granted + Grace + 2 * MaxGap
  <2>1. CASE m.deadline = None
    BY <1>1, <1>5, <1>7, <2>1 DEF GraceDeadline
  <2>2. CASE m.deadline # None
    <3>1. d = m.deadline
      BY <1>7, <2>2 DEF GraceDeadline
    <3>2. m.mode = "grace"
      BY <1>1, <2>2 DEF SeatInv, AgentIsGranted, CountdownIsGranted, Modes
    <3>3. m.deadline <= polledAt + Grace
      BY <3>2 DEF SeatInv, AgentIsGranted, GraceIsGranted
    <3>4. QED BY <1>1, <1>5, <3>1, <3>3
  <2>3. QED BY <2>1, <2>2
<1>10. /\ m'.mode \in {"locked", "grace"}
       /\ m'.mode = "locked" => m'.deadline = None
       /\ m'.mode # "locked" => m'.streak = 0
  BY <1>8 DEF GraceOutcome
<1>11. ASSUME m'.mode = "grace" PROVE GraceIsGranted'
  <2>1. m'.deadline = d /\ m'.streak = 0 /\ Grace > 0 /\ d > now
    BY <1>8, <1>11 DEF GraceOutcome
  <2>2. Held' = 0
    BY <2>1 DEF Held
  <2>3. m'.deadline # None
    BY <1>1, <1>9, <2>1, NoneIsNoTime
  <2>4. QED BY <1>1, <1>2, <1>5, <1>6, <1>9, <2>1, <2>2, <2>3 DEF GraceIsGranted
<1>12. ASSUME ~raced
       PROVE  /\ Scanning = {} /\ \A b \in SeatedIds(rows) : poll.ends <= rows[b].endAt
              /\ m.mode # "locked" => told <= now
  BY <1>3, <1>4, <1>6, <1>12 DEF SeatInv, SeatIsOnes, AnswerIsAlone
<1>13. AgentIsGranted'
  BY <1>10, <1>11 DEF AgentIsGranted, LockHysteresis
<1>14. SeatInv'
  <2>1. told' \in Nat /\ adrift' \in BOOLEAN /\ faults' \in 0..MaxFaults
    BY <1>1, <1>2, <1>6 DEF TypeOK
  <2>2. ASSUME ~raced, m'.mode # "locked"
        PROVE  Scanning = {} /\ \A b \in SeatedIds(rows) : told' <= rows[b].endAt
    BY <1>6, <1>12, <2>2
  <2>3. QED BY <1>6, <1>8, <1>13, <2>1, <2>2, AppliedStep
<1>15. ASSUME m.mode # "locked", ~raced PROVE NobodyEvicted
  BY <1>12, <1>15, ToldIsOver
<1>16. QED BY <1>14, <1>15

\* The lock: one such answer is held and, without a race, true of a PC in play.
LEMMA LockedDelivered ==
    ASSUME SeatInv, PollDeliver, poll.answer.kind = "locked"
    PROVE  SeatInv' /\ (m.mode # "locked" /\ m'.mode = "locked" /\ ~raced => NobodyEvicted)
<1>1. /\ now \in Nat /\ TypeOK /\ polledAt \in Nat /\ polledAt <= now /\ told \in Nat
      /\ now <= polledAt + MaxGap /\ granted \in Nat /\ m \in Machine /\ MaxGap \in Nat
      /\ m.deadline \in Int /\ m.mode \in Modes /\ m.streak \in Nat
      /\ m.anchor \in Nat /\ m.anchoredAt \in Int
  BY SeatTypes DEF SeatInv
<1>2. poll.answer \in Poll /\ AnswerIsGranted
  BY <1>1, PollTypes DEF PollDeliver, SeatInv
<1>3. PICK a : a = poll.answer
  OBVIOUS
<1>4. a \in Poll /\ a.kind = "locked"
  BY <1>2, <1>3
<1>5. /\ UNCHANGED <<now, rows, challenge, scan, adrift, faults, granted, raced>>
      /\ poll' = Idle /\ polledAt' = now /\ poll.at = "deliver"
      /\ told' = IF m'.mode = "locked" THEN 0 ELSE told
      /\ m' = EnterLocked(m, a, now)
  BY <1>3, <1>4 DEF PollDeliver, server, phones, Apply
<1>6. /\ m' \in Machine
      /\ \/ /\ m'.mode = m.mode /\ m'.anchor = m.anchor /\ m'.anchoredAt = m.anchoredAt
            /\ m'.deadline = m.deadline /\ m'.streak = m.streak + 1
            /\ m.mode # "locked" /\ m.streak + 1 < 2
         \/ /\ m'.mode = "locked" /\ m'.deadline = None
  <2>1. m' = EnterLocked(m, a, now) /\ m \in Machine /\ a \in Poll /\ now \in Nat
    BY <1>1, <1>4, <1>5
  <2>2. QED BY <2>1, EnterLockedFields
<1>7. m'.mode = "locked" => m'.deadline = None
  BY <1>6 DEF SeatInv
<1>8. m'.mode # "locked" =>
        /\ m'.mode = m.mode /\ m'.anchor = m.anchor /\ m'.anchoredAt = m.anchoredAt
        /\ m'.deadline = m.deadline /\ m.streak = 0 /\ m'.streak = 1
  BY <1>1, <1>6
<1>9. m'.mode # "locked" => Held = 0 /\ Held' = MaxGap
  BY <1>8 DEF Held
<1>10. ASSUME m'.mode = "active" PROVE CountdownIsGranted'
  BY <1>1, <1>5, <1>8, <1>9, <1>10 DEF SeatInv, AgentIsGranted, CountdownIsGranted
<1>11. ASSUME m'.mode = "grace" PROVE GraceIsGranted'
  BY <1>1, <1>5, <1>8, <1>9, <1>11 DEF SeatInv, AgentIsGranted, GraceIsGranted
<1>12. ASSUME ~raced, m.mode # "locked"
       PROVE  /\ Scanning = {} /\ SeatedIds(rows) = {}
              /\ \A b \in SeatedIds(rows) : told <= rows[b].endAt
  <2>1. SeatIsOnes
    BY <1>12 DEF SeatInv
  <2>2. SeatedIds(rows) = {}
    BY <1>5, <1>12, <2>1 DEF SeatIsOnes, AnswerIsAlone
  <2>3. QED BY <1>12, <2>1, <2>2, PlayMeansNoScan
<1>13. AgentIsGranted'
  BY <1>7, <1>8, <1>10, <1>11 DEF AgentIsGranted, LockHysteresis
<1>14. SeatInv'
  <2>1. told' \in Nat /\ adrift' \in BOOLEAN /\ faults' \in 0..MaxFaults
    BY <1>1, <1>5 DEF TypeOK
  <2>2. ASSUME ~raced, m'.mode # "locked"
        PROVE  Scanning = {} /\ \A b \in SeatedIds(rows) : told' <= rows[b].endAt
    BY <1>5, <1>8, <1>12, <2>2
  <2>3. QED BY <1>5, <1>6, <1>13, <2>1, <2>2, AppliedStep
<1>15. ASSUME m.mode # "locked", ~raced PROVE NobodyEvicted
  BY <1>12, <1>15 DEF NobodyEvicted, SeatedIds
<1>16. QED BY <1>14, <1>15

\* No answer: a session runs on its countdown, and one that is over into grace.
LEMMA GiveUpStep ==
    ASSUME SeatInv, GiveUp, adrift' \in BOOLEAN, faults' \in 0..MaxFaults
    PROVE  SeatInv' /\ (m.mode # "locked" /\ m'.mode = "locked" => NobodyEvicted)
<1>1. /\ now \in Nat /\ TypeOK /\ polledAt \in Nat /\ polledAt <= now /\ told \in Nat
      /\ now <= polledAt + MaxGap /\ granted \in Nat /\ m \in Machine /\ MaxGap \in Nat
      /\ m.deadline \in Int /\ m.mode \in Modes /\ m.streak \in Nat
      /\ m.anchor \in Nat /\ m.anchoredAt \in Int
  BY SeatTypes DEF SeatInv
<1>2. /\ UNCHANGED <<now, rows, challenge, scan, granted, raced>>
      /\ poll' = Idle /\ polledAt' = now /\ told' = IF m'.mode = "locked" THEN 0 ELSE told
      /\ m' = ApplyOffline(m, now)
  BY DEF GiveUp, server, Apply
<1>3. PICK d : d = GraceDeadline(m, now)
  OBVIOUS
<1>4. m' \in Machine /\ OfflineOutcome(m', m, d, now)
  BY <1>1, <1>2, <1>3, OfflineFields
<1>5. m.mode = "locked" => m.deadline = None
  BY DEF SeatInv, AgentIsGranted
\* told only falls, so that the seat stays its player's
<1>a. ASSUME ~raced, m.mode # "locked", m'.mode # "locked"
      PROVE  Scanning = {} /\ \A b \in SeatedIds(rows) : told' <= rows[b].endAt
  <2>1. SeatIsOnes
    BY <1>a DEF SeatInv
  <2>2. QED BY <1>2, <1>a, <2>1, PlayMeansNoScan DEF SeatIsOnes
<1>b. told' \in Nat
  BY <1>1, <1>2
<1>6. CASE m.mode = "locked"
  <2>1. m'.mode = "locked" /\ m'.deadline = None
    BY <1>4, <1>5, <1>6 DEF OfflineOutcome
  <2>2. AgentIsGranted'
    BY <2>1 DEF AgentIsGranted
  <2>3. SeatInv'
    BY <1>2, <1>4, <1>b, <2>1, <2>2, AppliedStep
  <2>4. QED BY <1>6, <2>3
<1>7. CASE m.mode = "active" /\ m'.mode = "active"
  <2>1. CountdownIsGranted /\ m.streak < LockHysteresis /\ told' = told
    BY <1>2, <1>7 DEF SeatInv, AgentIsGranted
  <2>2. /\ now < m.anchoredAt + m.anchor
        /\ m'.anchor = m.anchor /\ m'.anchoredAt = m.anchoredAt /\ m'.streak = m.streak
        /\ m'.deadline = m.deadline
    BY <1>4, <1>7 DEF OfflineOutcome
  <2>3. Held \in Nat /\ Held' = Held
    BY <1>1, <2>2 DEF Held
  <2>4. CountdownIsGranted'
    BY <1>1, <1>2, <2>1, <2>2, <2>3 DEF CountdownIsGranted
  <2>5. AgentIsGranted'
    BY <1>7, <2>1, <2>2, <2>4 DEF AgentIsGranted
  <2>6. SeatInv'
    BY <1>2, <1>4, <1>7, <1>a, <1>b, <2>5, AppliedStep
  <2>7. QED BY <1>7, <2>6
<1>8. CASE m.mode = "active" /\ m'.mode # "active"
  <2>1. CountdownIsGranted /\ m.streak < LockHysteresis
    BY <1>8 DEF SeatInv, AgentIsGranted
  <2>2. /\ m.anchoredAt = None \/ now >= m.anchoredAt + m.anchor
        /\ \/ m'.mode = "locked" /\ m'.deadline \in {None, m.deadline}
           \/ m'.mode = "grace" /\ Grace # 0 /\ d > now /\ m'.deadline = d /\ m'.streak = m.streak
    BY <1>4, <1>8 DEF OfflineOutcome
  <2>3. m.deadline = None /\ d = now + Grace /\ told <= now
    BY <1>1, <1>3, <2>1, <2>2 DEF CountdownIsGranted, GraceDeadline
  <2>4. ASSUME m'.mode = "grace" PROVE GraceIsGranted'
    <3>1. Held \in Nat /\ Held' = Held
      BY <1>1, <2>2, <2>4 DEF Held
    <3>2. m'.deadline # None
      BY <1>1, <2>2, <2>3, <2>4, NoneIsNoTime
    <3>3. QED BY <1>1, <1>2, <2>1, <2>2, <2>3, <2>4, <3>1, <3>2
              DEF CountdownIsGranted, GraceIsGranted
  <2>5. AgentIsGranted'
    BY <1>8, <2>1, <2>2, <2>3, <2>4 DEF AgentIsGranted
  <2>6. SeatInv'
    BY <1>2, <1>4, <1>8, <1>a, <1>b, <2>5, AppliedStep
  <2>7. QED BY <2>3, <2>6, ToldIsOver
<1>9. CASE m.mode = "grace"
  <2>1. GraceIsGranted /\ m.streak < LockHysteresis
    BY <1>9 DEF SeatInv, AgentIsGranted
  <2>2. d = m.deadline /\ Grace # 0 /\ told <= now
    BY <1>1, <1>3, <2>1 DEF GraceDeadline, GraceIsGranted
  <2>3. \/ m'.mode = "locked" /\ m'.deadline = None
        \/ m'.mode = "grace" /\ d > now /\ m'.deadline = d /\ m'.streak = m.streak
    BY <1>4, <1>9, <2>2 DEF OfflineOutcome
  <2>4. ASSUME m'.mode = "grace" PROVE GraceIsGranted'
    <3>1. Held \in Nat /\ Held' = Held
      BY <1>1, <2>3, <2>4 DEF Held
    <3>2. QED BY <1>1, <1>2, <2>1, <2>2, <2>3, <2>4, <3>1 DEF GraceIsGranted
  <2>5. AgentIsGranted'
    BY <1>9, <2>1, <2>3, <2>4 DEF AgentIsGranted
  <2>6. SeatInv'
    BY <1>2, <1>4, <1>9, <1>a, <1>b, <2>5, AppliedStep
  <2>7. QED BY <2>2, <2>6, ToldIsOver
<1>10. QED BY <1>1, <1>6, <1>7, <1>8, <1>9 DEF Modes

\* So it is of a poll that is given up with its handler still at work.
LEMMA PollLostStep ==
    ASSUME SeatInv, PollLost \/ PollAdrift
    PROVE  SeatInv' /\ (m.mode # "locked" /\ m'.mode = "locked" => NobodyEvicted)
<1>1. GiveUp
  BY DEF PollLost, PollAdrift
<1>2. faults \in 0..MaxFaults /\ MaxFaults \in Nat /\ adrift \in BOOLEAN
  BY SeatAssumption DEF SeatInv, TypeOK
<1>3. adrift' \in BOOLEAN /\ faults' \in 0..MaxFaults
  <2>1. CASE PollLost
    <3>1. adrift' = adrift /\ faults' = faults
      BY <2>1 DEF PollLost
    <3>2. QED BY <1>2, <3>1
  <2>2. CASE PollAdrift
    <3>1. adrift' = TRUE /\ faults' = faults + 1 /\ faults < MaxFaults
      BY <2>2 DEF PollAdrift
    <3>2. QED BY <1>2, <3>1
  <2>3. QED BY <2>1, <2>2
<1>4. QED BY <1>1, <1>3, GiveUpStep

-----------------------------------------------------------------------------

LEMMA InitSeatInv == Init => SeatInv
<1> SUFFICES ASSUME Init PROVE SeatInv
  OBVIOUS
<1>1. PICK plan \in Plans :
         /\ now = plan.now /\ faults = plan.faults
         /\ rows = [b \in Bookings |-> Booked(plan.slots[b])]
  BY DEF Init
<1>2. /\ plan.now \in Nat /\ plan.faults \in 0..MaxFaults
      /\ plan.slots \in [Bookings -> [startAt : Nat, endAt : Nat]]
  BY <1>1, SeatAssumption
<1>3. ASSUME NEW b \in Bookings
      PROVE  /\ rows[b] \in SeatRow /\ rows[b].unlockedAt = None
             /\ rows[b].status \in {"paid", "active"} => rows[b].startAt < rows[b].endAt
  <2>1. PICK slot : slot = plan.slots[b]
    OBVIOUS
  <2>2. slot \in [startAt : Nat, endAt : Nat]
    BY <1>2, <2>1
  <2>3. slot.startAt \in Int /\ slot.endAt \in Int
    BY <2>2
  <2>4. rows[b] = Booked(slot)
    BY <1>1, <2>1
  <2>5. QED BY <2>3, <2>4, NoneIsNoTime DEF Booked, SeatRow, Statuses, Phases
<1>4. rows \in [Bookings -> SeatRow]
  BY <1>1, <1>3
<1>5. SeatedIds(rows) = {}
  BY <1>3 DEF SeatedIds, Seated
<1>6. TypeOK
  <2>1. NoChallenge \in Challenge /\ Idle \in PollState /\ Idle \in ScanState
    BY NoneIsNoTime DEF NoChallenge, Challenge, Idle, PollState, ScanState
  <2>2. scan \in [Bookings -> ScanState]
    BY <2>1 DEF Init
  <2>3. polledAt \in 0..now
    BY <1>1, <1>2 DEF Init
  <2>4. QED BY <1>1, <1>2, <1>4, <2>1, <2>2, <2>3, NewMachineType DEF Init, TypeOK
<1>7. RowsAreGranted
  BY <1>3 DEF RowsAreGranted, RowIsGranted
<1>8. poll.at = "idle" /\ m.mode = "locked" /\ m.deadline = None /\ Scanning = {}
  BY NewMachineType DEF Init, Idle, Scanning
<1>9. SeatIsOnes
  BY <1>5, <1>8 DEF SeatIsOnes, CodeMeansFree, ScanIsAlone
<1>10. now <= polledAt + MaxGap
  BY <1>1, <1>2, <1>6, SeatTypes DEF Init
<1>11. QED BY <1>6, <1>7, <1>8, <1>9, <1>10 DEF SeatInv, AgentIsGranted

\* A step keeps the invariant and, without a race, locks a PC in play only when
\* nobody is evicted.
LEMMA NextStep ==
    ASSUME SeatInv, Next
    PROVE  /\ SeatInv'
           /\ m.mode # "locked" /\ m'.mode = "locked" /\ faults' = faults /\ ~raced =>
                 NobodyEvicted
<1>1. CASE PollRead
  BY <1>1, PollReadStep DEF PollRead, agent
<1>2. CASE PollOffer
  BY <1>2, PollOfferStep DEF PollOffer, agent
<1>3. CASE AdriftOffer
  BY <1>3, AdriftOfferStep DEF AdriftOffer, agent
<1>4. CASE PollFormat
  BY <1>4, PollFormatStep DEF PollFormat, agent
<1>5. CASE PollDeliver
  <2>1. poll.answer.kind \in {"active", "expired", "locked"}
    BY <1>5 DEF SeatInv, PollDeliver, AnswerIsGranted
  <2>2. QED BY <1>5, <2>1, ActiveDelivered, ExpiredDelivered, LockedDelivered
<1>6. CASE PollLost \/ PollAdrift
  BY <1>6, PollLostStep
<1>7. CASE \E b \in Bookings : ConfirmQr(b) \/ TakeQr(b) \/ WriteUnlock(b)
  <2>1. PICK b \in Bookings : ConfirmQr(b) \/ TakeQr(b) \/ WriteUnlock(b)
    BY <1>7
  <2>2. SeatInv'
    BY <2>1, ConfirmQrStep, TakeQrStep, WriteUnlockStep
  <2>3. m' = m
    BY <2>1 DEF ConfirmQr, TakeQr, WriteUnlock, agent
  <2>4. QED BY <2>2, <2>3
<1>8. CASE \E b \in Bookings : EndSession(b) \/ ExtendSession(b) \/ Cancel(b)
  <2>1. PICK b \in Bookings : EndSession(b) \/ ExtendSession(b) \/ Cancel(b)
    BY <1>8
  <2>2. SeatInv'
    BY <2>1, EndSessionStep, ExtendSessionStep, CancelStep
  <2>3. m' = m
    BY <2>1 DEF EndSession, ExtendSession, Cancel, agent
  <2>4. QED BY <2>2, <2>3
<1>9. CASE EndSeatSession
  BY <1>9, EndSeatSessionStep DEF EndSeatSession, agent
<1>10. CASE SchedulerTick
  BY <1>10, SchedulerTickStep DEF SchedulerTick, agent
<1>11. CASE Tick
  BY <1>11, TickStep DEF Tick, agent
<1>12. CASE RestartApi
  BY <1>12, RestartApiStep DEF RestartApi, agent
<1>13. CASE Reboot
  <2>1. faults' # faults
    BY <1>13, SeatTypes DEF SeatInv, Reboot
  <2>2. QED BY <1>13, <2>1, RebootStep
<1>14. QED BY <1>1, <1>2, <1>3, <1>4, <1>5, <1>6, <1>7, <1>8, <1>9, <1>10, <1>11, <1>12,
             <1>13 DEF Next

\* Rows, code, poll, countdown and grace stand as SeatInv says, whatever is
\* lost, late, cancelled, extended, restarted or rebooted.
THEOREM SeatInductive == Spec => []SeatInv
<1>1. SeatInv /\ [Next]_vars => SeatInv'
  <2>1. ASSUME SeatInv, UNCHANGED vars PROVE SeatInv'
    <3>1. /\ UNCHANGED <<now, rows, challenge, poll, scan, adrift, m, polledAt, faults>>
          /\ UNCHANGED <<granted, told, raced>>
      BY <2>1 DEF vars
    <3>2. SeatedIds(rows)' = SeatedIds(rows) /\ Scanning' = Scanning
      BY <3>1 DEF SeatedIds, Scanning
    <3>3. TypeOK' /\ RowsAreGranted'
      BY <2>1, <3>1 DEF SeatInv, TypeOK, RowsAreGranted, RowIsGranted
    <3>4. now \in Nat /\ granted \in Nat
      BY <2>1, SeatTypes DEF SeatInv
    <3>5. /\ poll'.at = "format" => ReadIsGranted'
          /\ poll'.at = "deliver" => AnswerIsGranted'
      BY <2>1, <3>1, <3>4, PollStays
    <3>6. AgentIsGranted'
      BY <2>1, <3>1, <3>4, AgentStays
    <3>7. ASSUME SeatIsOnes PROVE SeatIsOnes'
      <4>1. /\ CodeMeansFree' /\ ScanIsAlone'
            /\ \A b, c \in SeatedIds(rows)' : b = c
            /\ m'.mode # "locked" => \A b \in SeatedIds(rows)' : told' <= rows'[b].endAt
        BY <3>1, <3>2, <3>7 DEF SeatIsOnes, CodeMeansFree, ScanIsAlone
      <4>2. /\ poll'.at = "format" => ReadIsAlone'
            /\ poll'.at = "deliver" => AnswerIsAlone'
        BY <3>1, <3>2, <3>7 DEF SeatIsOnes, ReadIsAlone, AnswerIsAlone
      <4>3. QED BY <4>1, <4>2 DEF SeatIsOnes
    <3>8. QED BY <2>1, <3>1, <3>3, <3>5, <3>6, <3>7 DEF SeatInv
  <2>2. QED BY <2>1, NextStep
<1>2. QED BY <1>1, InitSeatInv, PTL DEF Spec

\* No free play from end to end: for every grace, poll gap, length of a booking
\* and number of extensions, a PC is locked a grace and four polls after the
\* end of what it was unlocked for.
THEOREM NobodyPlaysForNothing == Spec => []NoFreePlay
<1>1. SeatInv => NoFreePlay
  <2>1. SUFFICES ASSUME SeatInv, m.mode # "locked" PROVE now < granted + Grace + 4 * MaxGap
    BY DEF NoFreePlay
  <2>2. /\ now \in Nat /\ polledAt \in Nat /\ granted \in Nat /\ MaxGap \in Nat \ {0}
        /\ m.mode \in Modes /\ now <= polledAt + MaxGap
    BY <2>1, SeatTypes DEF SeatInv
  <2>3. Held \in Nat /\ Held <= MaxGap
    BY DEF Held
  <2>4. CASE m.mode = "active"
    BY <2>1, <2>2, <2>3, <2>4 DEF SeatInv, AgentIsGranted, CountdownIsGranted
  <2>5. CASE m.mode = "grace"
    <3>1. m.deadline \in Int /\ m.streak \in Nat
      BY <2>1, SeatTypes DEF SeatInv
    <3>2. GraceIsGranted
      BY <2>1, <2>5 DEF SeatInv, AgentIsGranted
    <3>3. QED BY <2>2, <2>3, <3>1, <3>2 DEF GraceIsGranted
  <2>6. QED BY <2>1, <2>2, <2>4, <2>5 DEF Modes
<1>2. QED BY <1>1, SeatInductive, PTL

\* However many bookings a seat has, two of them play on it only after a race for
\* its code: confirmations of one code overlapped, or the code was offered late, to
\* a seat that was no longer free or by an answer nobody waited for.
THEOREM OnePlayerOnASeat == Spec => []OneSeated
<1>1. SeatInv => OneSeated
  BY DEF SeatInv, SeatIsOnes, OneSeated
<1>2. QED BY <1>1, SeatInductive, PTL

\* Without such a race a PC never locks in the middle of a game whose end it was
\* told of, but by a reboot.
THEOREM NobodyThrownOut == Spec => NoEviction
<1>1. SeatInv /\ [Next]_vars =>
        [m.mode # "locked" /\ m'.mode = "locked" /\ faults' = faults /\ ~raced =>
           ~\E b \in Bookings : Seated(rows[b], now) /\ rows[b].endAt = told]_vars
  BY NextStep DEF NobodyEvicted
<1>2. QED BY <1>1, SeatInductive, PTL DEF Spec, NoEviction
=============================================================================
