------------------------- MODULE AgentShell_proofs -------------------------
(***************************************************************************)
(* Proofs about AgentShell, for every grace, gap and capacity: the types,  *)
(* and that an armed watchdog acts in time on a lost shell.                *)
(***************************************************************************)
EXTENDS AgentShell, SequenceTheorems, TLAPS

USE ShellAssumption

\* The time since the pipe was lost, as far as the watchdog can know it: it
\* was lost after the last round, or a round has seen it and counts.
Counted ==
    armed /\ ~maintenance /\ conn = "down" =>
        \/ goneFor <= sinceRound
        \/ /\ downFor # None /\ goneFor <= downFor + MaxGap
           /\ downFor < DownGrace + sinceRound

IInv == TypeOK /\ Counted

-----------------------------------------------------------------------------
(* The outbound channel.                                                   *)

LEMMA EnqueueType ==
    ASSUME NEW q \in Seq(Modes), Len(q) <= OutCap, NEW view \in Modes
    PROVE  Enqueue(q, view) \in Seq(Modes) /\ Len(Enqueue(q, view)) <= OutCap
<1> DEFINE longer == Append(q, view)
<1>1. longer \in Seq(Modes) /\ Len(longer) = Len(q) + 1 /\ longer # <<>>
  BY AppendProperties
<1>2. Tail(longer) \in Seq(Modes) /\ Len(Tail(longer)) = Len(longer) - 1
  BY <1>1, HeadTailProperties
<1>3. Len(q) \in Nat
  OBVIOUS
<1>4. QED BY <1>1, <1>2, <1>3 DEF Enqueue

LEMMA ModeTypes == Modes \ {"maintenance"} \subseteq Modes /\ "locked" \in Modes
                   /\ "maintenance" \in Modes /\ GameModes \subseteq Modes
BY DEF Modes

\* The records of the loop.
LEMMA LoopTypes ==
    /\ \A at \in {"boot", "top", "poll", "watch", "sleep"} :
           [at |-> at, view |-> None] \in [at : {"boot", "top", "poll", "watch", "sleep"}, view : {None}]
    /\ \A at \in {"bootWrite", "pollWrite", "serviceWrite"}, view \in Modes :
           [at |-> at, view |-> view] \in [at : {"bootWrite", "pollWrite", "serviceWrite"}, view : Modes]
OBVIOUS

-----------------------------------------------------------------------------
(* Types, action by action.                                                *)

LEMMA InitInv == Init => IInv
<1> SUFFICES ASSUME Init PROVE IInv
  OBVIOUS
<1>1. <<>> \in Seq(Modes) /\ Len(<<>>) = 0 /\ <<>> \in Seq({"hello", "pin"})
  OBVIOUS
<1>2. "locked" \in Modes \ {"maintenance"}
  BY DEF Modes
<1>3. 0 \in 0..MaxGap /\ 0 \in 0..Horizon /\ 0 \in 0..MaxFaults
  BY DEF Horizon
<1>4. loop \in [at : {"boot", "top", "poll", "watch", "sleep"}, view : {None}]
  BY LoopTypes DEF Init
<1>5. outbound \in Seq(Modes) /\ Len(outbound) <= OutCap
      /\ toShell \in Seq(Modes) /\ toAgent \in Seq({"hello", "pin"})
  BY <1>1 DEF Init
<1>6. TypeOK
  BY <1>2, <1>3, <1>4, <1>5 DEF Init, TypeOK
<1>7. Counted
  BY DEF Init, Counted
<1>8. QED BY <1>6, <1>7 DEF IInv

\* The agent's loop.
LEMMA LoopKeeps == ASSUME IInv, Loop PROVE IInv'
<1> USE DEF agent, pipe, dog, player
<1>1. CASE Boot
  <2>1. loop' \in [at : {"bootWrite", "pollWrite", "serviceWrite"}, view : Modes]
        /\ latest' \in Modes
    BY <1>1, ModeTypes DEF Boot, Publish, IInv, TypeOK
  <2>2. QED BY <1>1, <2>1 DEF Boot, IInv, TypeOK, Counted
<1>2. CASE Round
  <2>1. CASE maintenance
    <3>1. loop' \in [at : {"bootWrite", "pollWrite", "serviceWrite"}, view : Modes]
          /\ latest' \in Modes
      BY <1>2, <2>1, ModeTypes DEF Round, Publish
    <3>2. QED BY <1>2, <2>1, <3>1 DEF Round, IInv, TypeOK, Counted
  <2>2. CASE ~maintenance
    <3>1. loop' \in [at : {"boot", "top", "poll", "watch", "sleep"}, view : {None}]
      BY <1>2, <2>2 DEF Round, GoTo
    <3>2. QED BY <1>2, <2>2, <3>1 DEF Round, IInv, TypeOK, Counted
  <2>3. QED BY <2>1, <2>2
<1>3. CASE PollAnswered
  <2>1. PICK mode \in {"locked"} \cup GameModes : machine' = mode /\ Publish("pollWrite", mode)
    BY <1>3 DEF PollAnswered
  <2>2. mode \in Modes /\ mode # "maintenance"
    BY DEF Modes
  <2>3. loop' \in [at : {"bootWrite", "pollWrite", "serviceWrite"}, view : Modes]
        /\ latest' \in Modes
    BY <2>1, <2>2 DEF Publish
  <2>4. QED BY <1>3, <2>1, <2>2, <2>3 DEF PollAnswered, IInv, TypeOK, Counted
<1>4. CASE LoopWrite
  <2>1. loop.view \in Modes
    BY <1>4 DEF LoopWrite, IInv, TypeOK
  <2>2. outbound' \in Seq(Modes) /\ Len(outbound') <= OutCap
    BY <1>4, <2>1, EnqueueType DEF LoopWrite, IInv, TypeOK
  <2>3. loop' \in [at : {"boot", "top", "poll", "watch", "sleep"}, view : {None}]
    BY <1>4 DEF LoopWrite, GoTo
  <2>4. QED BY <1>4, <2>2, <2>3 DEF LoopWrite, IInv, TypeOK, Counted
<1>5. CASE Watch
  <2>1. loop' \in [at : {"boot", "top", "poll", "watch", "sleep"}, view : {None}]
    BY <1>5 DEF Watch, GoTo
  <2>2. desktop' \in BOOLEAN /\ armed' \in BOOLEAN
        /\ downFor' \in {None} \cup 0..(DownGrace + MaxGap)
    <3>1. /\ desktop \in BOOLEAN /\ armed \in BOOLEAN
          /\ downFor \in {None} \cup 0..(DownGrace + MaxGap)
      BY DEF IInv, TypeOK
    <3>2. CASE conn # "down"
      BY <1>5, <3>1, <3>2 DEF Watch, Tick
    <3>3. CASE conn = "down" /\ (~armed \/ (downFor # None /\ downFor < DownGrace))
      BY <1>5, <3>1, <3>3 DEF Watch, Tick
    <3>4. CASE conn = "down" /\ armed /\ downFor = None
      BY <1>5, <3>1, <3>4 DEF Watch, Tick
    <3>5. CASE conn = "down" /\ armed /\ downFor # None /\ ~(downFor < DownGrace)
      <4>1. armed' = FALSE /\ downFor' = None /\ SecureSeat
        BY <1>5, <3>5 DEF Watch, Tick
      <4>2. desktop' \in BOOLEAN
        BY <4>1, Zenon DEF SecureSeat
      <4>3. QED BY <4>1, <4>2
    <3>6. QED BY <3>2, <3>3, <3>4, <3>5
  <2>3. TypeOK'
    BY <1>5, <2>1, <2>2 DEF Watch, IInv, TypeOK
  <2>4. Counted'
    <3> SUFFICES ASSUME armed', ~maintenance', conn' = "down" PROVE Counted'
      BY DEF Counted
    <3>1. armed /\ ~maintenance /\ conn = "down"
      BY <1>5 DEF Watch, Tick
    <3>2. goneFor' = goneFor /\ goneFor \in Nat /\ sinceRound \in Nat /\ sinceRound <= MaxGap
          /\ sinceRound' = 0
      BY <1>5 DEF Watch, IInv, TypeOK
    <3>3. CASE downFor = None
      <4>1. downFor' = 0
        BY <1>5, <3>1, <3>3 DEF Watch, Tick
      <4>2. goneFor <= sinceRound
        BY <3>1, <3>3 DEF IInv, Counted
      <4>3. QED BY <3>2, <4>1, <4>2 DEF Counted
    <3>4. CASE downFor # None
      <4>1. downFor' = downFor /\ downFor < DownGrace /\ downFor \in Nat
        BY <1>5, <3>1, <3>4 DEF Watch, Tick, IInv, TypeOK
      <4>2. goneFor <= downFor + MaxGap
        BY <3>1, <3>2, <4>1 DEF IInv, Counted
      <4>3. QED BY <3>2, <4>1, <4>2 DEF Counted
    <3>5. QED BY <3>3, <3>4
  <2>5. QED BY <2>3, <2>4 DEF IInv
<1>6. CASE Wake
  <2>1. loop' \in [at : {"boot", "top", "poll", "watch", "sleep"}, view : {None}]
    BY <1>6 DEF Wake, GoTo
  <2>2. QED BY <1>6, <2>1 DEF Wake, IInv, TypeOK, Counted
<1>7. QED BY <1>1, <1>2, <1>3, <1>4, <1>5, <1>6 DEF Loop

\* The pipe.
LEMMA PipeKeeps ==
    ASSUME IInv, Connect \/ Greet \/ Pump \/ Hangup \/ Handle \/ HandlerWrite
    PROVE  IInv'
<1> USE DEF agent, pipe, dog, player
<1>1. CASE Connect
  <2>1. <<"hello">> \in Seq({"hello", "pin"})
    OBVIOUS
  <2>2. QED BY <1>1, <2>1 DEF Connect, IInv, TypeOK, Counted
<1>2. CASE Greet
  <2>1. outbound' \in Seq(Modes) /\ Len(outbound') <= OutCap
    BY <1>2, EnqueueType DEF Greet, IInv, TypeOK
  <2>2. QED BY <1>2, <2>1 DEF Greet, IInv, TypeOK, Counted
<1>3. CASE Pump
  <2>1. /\ outbound' \in Seq(Modes) /\ Len(outbound') <= OutCap
        /\ Head(outbound) \in Modes
    BY <1>3, HeadTailProperties DEF Pump, IInv, TypeOK
  <2>2. /\ toShell' \in Seq(Modes) /\ conn' \in {"down", "greet", "up"}
        /\ toAgent' \in Seq({"hello", "pin"}) /\ goneFor' \in 0..Horizon
        /\ conn' = "down" => goneFor' = 0
    <3>1. /\ toShell \in Seq(Modes) /\ toAgent \in Seq({"hello", "pin"})
          /\ goneFor \in 0..Horizon /\ 0 \in 0..Horizon /\ <<>> \in Seq({"hello", "pin"})
          /\ conn = "up"
      BY <1>3 DEF Pump, IInv, TypeOK, Horizon
    <3>2. CASE shell = "linked"
      <4>1. toShell' = Append(toShell, Head(outbound)) /\ UNCHANGED <<conn, toAgent, goneFor>>
        BY <1>3, <3>2 DEF Pump
      <4>2. toShell' \in Seq(Modes)
        BY <2>1, <3>1, <4>1, AppendProperties
      <4>3. QED BY <3>1, <4>1, <4>2
    <3>3. CASE shell # "linked"
      BY <1>3, <3>1, <3>3 DEF Pump, Drop
    <3>4. QED BY <3>2, <3>3
  <2>4. TypeOK'
    BY <1>3, <2>1, <2>2 DEF Pump, IInv, TypeOK
  <2>5. Counted'
    BY <2>2, <2>4 DEF Counted, TypeOK
  <2>6. QED BY <2>4, <2>5 DEF IInv
<1>4. CASE Hangup
  <2>1. <<>> \in Seq({"hello", "pin"}) /\ 0 \in 0..Horizon
    BY DEF Horizon
  <2>2. TypeOK'
    BY <1>4, <2>1 DEF Hangup, Drop, IInv, TypeOK
  <2>3. Counted'
    BY <1>4, <2>2 DEF Hangup, Drop, Counted, TypeOK
  <2>4. QED BY <2>2, <2>3 DEF IInv
<1>5. CASE Handle
  <2>1. toAgent' \in Seq({"hello", "pin"})
    BY <1>5, HeadTailProperties DEF Handle, IInv, TypeOK
  <2>2. maintenance' \in BOOLEAN /\ latest' \in Modes /\ handler' \in Modes
    BY <1>5, ModeTypes DEF Handle, Hello, AdminExit, IInv, TypeOK
  <2>3. conn' = "up"
    BY <1>5 DEF Handle
  <2>4. QED BY <1>5, <2>1, <2>2, <2>3 DEF Handle, IInv, TypeOK, Counted
<1>6. CASE HandlerWrite
  <2>1. outbound' \in Seq(Modes) /\ Len(outbound') <= OutCap
    BY <1>6, EnqueueType DEF HandlerWrite, IInv, TypeOK
  <2>2. QED BY <1>6, <2>1 DEF HandlerWrite, IInv, TypeOK, Counted
<1>7. QED BY <1>1, <1>2, <1>3, <1>4, <1>5, <1>6

\* The clock: what has been counted goes on being counted.
LEMMA ClockKeeps == ASSUME IInv, Clock PROVE IInv'
<1> USE DEF agent, pipe, dog, player
<1>1. /\ sinceRound \in Nat /\ sinceRound' = sinceRound + 1 /\ sinceRound < MaxGap
      /\ goneFor \in Nat /\ goneFor <= Horizon
      /\ downFor \in {None} \cup 0..(DownGrace + MaxGap)
      /\ armed' = armed /\ maintenance' = maintenance /\ conn' = conn
  BY DEF Clock, IInv, TypeOK
<1>2. downFor' \in {None} \cup 0..(DownGrace + MaxGap)
  <2>1. CASE downFor = None
    BY <2>1 DEF Clock
  <2>2. CASE downFor # None
    BY <1>1, <2>2 DEF Clock
  <2>3. QED BY <2>1, <2>2
<1>3. goneFor' \in 0..Horizon
  BY <1>1 DEF Clock, Horizon
<1>4. TypeOK'
  BY <1>1, <1>2, <1>3 DEF Clock, IInv, TypeOK
<1>5. Counted'
  <2> SUFFICES ASSUME armed, ~maintenance, conn = "down" PROVE Counted'
    BY <1>1 DEF Counted
  <2>1. goneFor' \in {goneFor, goneFor + 1}
    BY DEF Clock
  <2>2. CASE goneFor <= sinceRound
    BY <1>1, <2>1, <2>2 DEF Counted
  <2>3. CASE downFor # None /\ goneFor <= downFor + MaxGap /\ downFor < DownGrace + sinceRound
    <3>1. downFor \in Nat /\ downFor # DownGrace + MaxGap
      BY <1>1, <2>3
    <3>2. downFor' = downFor + 1
      BY <2>3, <3>1 DEF Clock
    <3>3. downFor' # None
      BY <1>2, <3>1, <3>2
    <3>4. QED BY <1>1, <2>1, <2>3, <3>1, <3>2, <3>3 DEF Counted
  <2>4. QED BY <2>2, <2>3 DEF IInv, Counted
<1>6. QED BY <1>4, <1>5 DEF IInv

\* The shell, the people and a restarted agent.
LEMMA PeopleKeep ==
    ASSUME IInv,
           \/ Apply \/ EnterPin \/ SignIn \/ RestartShell \/ RestartAgent
           \/ \E signsOut \in BOOLEAN : EndShell(signsOut)
    PROVE  IInv'
<1> USE DEF agent, pipe, dog, player
<1>1. CASE Apply
  <2>1. Head(toShell) \in Modes /\ Tail(toShell) \in Seq(Modes)
    BY <1>1, HeadTailProperties DEF Apply, IInv, TypeOK
  <2>2. QED BY <1>1, <2>1 DEF Apply, IInv, TypeOK, Counted
<1>2. CASE EnterPin
  <2>1. toAgent' \in Seq({"hello", "pin"})
    BY <1>2, AppendProperties DEF EnterPin, IInv, TypeOK
  <2>2. QED BY <1>2, <2>1 DEF EnterPin, IInv, TypeOK, Counted
<1>3. CASE SignIn \/ RestartShell
  <2>1. shell' \in {"off", "alone", "linked"} /\ desktop' \in BOOLEAN
    BY <1>3 DEF SignIn, RestartShell, IInv, TypeOK
  <2>2. UNCHANGED <<agent, handler, latest, outbound, conn, pipe, dog, screen, faults>>
    BY <1>3 DEF SignIn, RestartShell
  <2>3. QED BY <2>1, <2>2 DEF IInv, TypeOK, Counted
<1>4. CASE RestartAgent
  <2>1. toShell' \in Seq(Modes)
    BY <1>4, SubSeqProperties DEF RestartAgent, IInv, TypeOK
  <2>2. <<>> \in Seq(Modes) /\ Len(<<>>) = 0 /\ <<>> \in Seq({"hello", "pin"})
    OBVIOUS
  <2>3. loop' \in [at : {"boot", "top", "poll", "watch", "sleep"}, view : {None}]
    BY <1>4 DEF RestartAgent, GoTo
  <2>4. "locked" \in Modes \ {"maintenance"} /\ 0 \in 0..Horizon
    BY DEF Modes, Horizon
  <2>5. shell' \in {"off", "alone", "linked"} /\ faults' \in 0..MaxFaults
    BY <1>4 DEF RestartAgent, IInv, TypeOK
  <2>6. outbound' \in Seq(Modes) /\ Len(outbound') <= OutCap /\ toAgent' \in Seq({"hello", "pin"})
    BY <1>4, <2>2 DEF RestartAgent
  <2>7. 0 \in 0..MaxGap /\ screen' \in Modes \cup {None} /\ desktop' \in BOOLEAN
    BY <1>4 DEF RestartAgent, IInv, TypeOK
  <2>8. TypeOK'
    BY <1>4, <2>1, <2>3, <2>4, <2>5, <2>6, <2>7 DEF RestartAgent, TypeOK
  <2>9. Counted'
    BY <1>4 DEF RestartAgent, Counted
  <2>10. QED BY <2>8, <2>9 DEF IInv
<1>5. CASE \E signsOut \in BOOLEAN : EndShell(signsOut)
  <2>1. <<>> \in Seq(Modes)
    OBVIOUS
  <2>2. QED BY <1>5, <2>1 DEF EndShell, IInv, TypeOK, Counted
<1>6. QED BY <1>1, <1>2, <1>3, <1>4, <1>5

LEMMA NextInv == IInv /\ [Next]_vars => IInv'
<1> SUFFICES ASSUME IInv, [Next]_vars PROVE IInv'
  OBVIOUS
<1>1. CASE UNCHANGED vars
  BY <1>1 DEF vars, IInv, TypeOK, Counted
<1>2. CASE Next
  BY <1>2, LoopKeeps, PipeKeeps, ClockKeeps, PeopleKeep DEF Next
<1>3. QED BY <1>1, <1>2

-----------------------------------------------------------------------------
(* Theorems.                                                               *)

\* The inductive invariant: types, and how far the loss of the pipe is counted.
THEOREM Inductive == Spec => []IInv
BY InitInv, NextInv, PTL DEF Spec

\* Every reachable state is well typed; the outbound channel keeps its capacity.
THEOREM TypeCorrect == Spec => []TypeOK
<1>1. IInv => TypeOK
  BY DEF IInv
<1>2. QED BY <1>1, Inductive, PTL

\* However shells and agents die, reconnect and go into service, a watchdog that
\* is armed acts within its grace and two rounds of the loop (ShellWatchdog.Tick).
THEOREM DesktopIsGuarded == Spec => []GuardedDesktop
<1>1. IInv => GuardedDesktop
  <2> SUFFICES ASSUME IInv, armed, ~maintenance, conn = "down" PROVE goneFor < Horizon
    BY DEF GuardedDesktop
  <2>1. sinceRound \in 0..MaxGap /\ goneFor \in Nat
    BY DEF IInv, TypeOK
  <2>2. CASE goneFor <= sinceRound
    BY <2>1, <2>2 DEF Horizon
  <2>3. CASE downFor # None /\ goneFor <= downFor + MaxGap /\ downFor < DownGrace + sinceRound
    <3>1. downFor \in Nat
      BY <2>3 DEF IInv, TypeOK
    <3>2. QED BY <2>1, <2>3, <3>1 DEF Horizon
  <2>4. QED BY <2>2, <2>3 DEF IInv, Counted
<1>2. QED BY <1>1, Inductive, PTL

=============================================================================
