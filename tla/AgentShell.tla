----------------------------- MODULE AgentShell -----------------------------
(***************************************************************************)
(* The two programs on a PC.  The agent runs as SYSTEM: its loop polls the *)
(* server, runs the session machine (SessionStateMachine; here any outcome *)
(* of a poll), publishes a view and ticks the watchdog, while a second     *)
(* thread serves the pipe.  The shell runs in the player's session: it     *)
(* reads views from the pipe and raises or drops the lock windows.  The    *)
(* shell may be killed, the agent may crash, the player may sign out, and  *)
(* an administrator may enter the service PIN on the lock screen.          *)
(***************************************************************************)
EXTENDS Integers, Sequences

CONSTANTS
    None,
    GameModes,      \* modes in which the player plays: active, grace
    OutCap,         \* capacity of the outbound channel
    DownGrace,      \* ShellWatchdog.DownGrace
    MaxGap,         \* the longest time between two rounds of the loop
    MaxFaults       \* bound: shells killed, agents crashed, PINs entered

ASSUME ShellAssumption ==
    /\ OutCap \in Nat \ {0} /\ DownGrace \in Nat \ {0} /\ MaxGap \in Nat \ {0}
    /\ MaxFaults \in Nat /\ GameModes \subseteq {"active", "grace"}
    /\ None \notin Nat

VARIABLES
    machine,        \* mode of SessionStateMachine.Current
    maintenance,
    loop,           \* the main loop: where it is and the view it is about to write
    handler,        \* the pipe thread: a view it is about to write, or None
    latest,         \* IpcServer._latestView
    outbound,       \* IpcServer._outbound
    conn,           \* the pipe as the agent sees it
    toShell,        \* views written and not yet applied by the shell
    toAgent,        \* commands written and not yet read by the agent
    armed,
    downFor,        \* time since the watchdog's _downSince, None while that is unset
    shell,          \* the shell process: off, on without a pipe, on with one
    screen,         \* ShellController._mode: the locks are up exactly when it is "locked"
    desktop,        \* is the player's Windows session on the monitor?
    sinceRound,     \* time since the loop's last round
    goneFor,        \* history: time since the agent lost a connection
    faults

vars == <<machine, maintenance, loop, handler, latest, outbound, conn, toShell, toAgent,
          armed, downFor, shell, screen, desktop, sinceRound, goneFor, faults>>

agent  == <<machine, maintenance, loop>>
pipe   == <<toShell, toAgent>>
dog    == <<armed, downFor, sinceRound, goneFor>>
player == <<shell, screen, desktop>>

Modes == {"locked", "maintenance"} \cup GameModes

\* How long the watchdog may take once the pipe is lost: two rounds and the grace.
Horizon == DownGrace + 2 * MaxGap

TypeOK ==
    /\ machine \in Modes \ {"maintenance"} /\ maintenance \in BOOLEAN
    /\ loop \in [at : {"boot", "top", "poll", "watch", "sleep"}, view : {None}]
           \cup [at : {"bootWrite", "pollWrite", "serviceWrite"}, view : Modes]
    /\ handler \in Modes \cup {None}
    /\ latest \in Modes \cup {None}
    /\ outbound \in Seq(Modes) /\ Len(outbound) <= OutCap
    /\ conn \in {"down", "greet", "up"}
    /\ toShell \in Seq(Modes) /\ toAgent \in Seq({"hello", "pin"})
    /\ armed \in BOOLEAN /\ downFor \in {None} \cup 0..(DownGrace + MaxGap)
    /\ shell \in {"off", "alone", "linked"} /\ screen \in Modes \cup {None}
    /\ desktop \in BOOLEAN
    /\ sinceRound \in 0..MaxGap /\ goneFor \in 0..Horizon /\ faults \in 0..MaxFaults

Init ==
    /\ machine = "locked" /\ maintenance = FALSE
    /\ loop = [at |-> "boot", view |-> None] /\ handler = None
    /\ latest = None /\ outbound = <<>> /\ conn = "down" /\ toAgent = <<>>
    /\ armed = FALSE /\ downFor = None /\ sinceRound = 0 /\ goneFor = 0
    /\ toShell = <<>> /\ shell = "off" /\ screen = None /\ desktop = FALSE
    /\ faults = 0

-----------------------------------------------------------------------------
(* The agent's main loop.                                                  *)

\* A bounded channel that drops its oldest message.
Enqueue(queue, view) ==
    LET longer == Append(queue, view) IN
    IF Len(longer) > OutCap THEN Tail(longer) ELSE longer

GoTo(at) == loop' = [at |-> at, view |-> None]

\* Publish, first half: the view is stored.  The other thread may run between
\* this and the write of what was stored.
Publish(at, view) == latest' = view /\ loop' = [at |-> at, view |-> view]

\* Publish, second half.
LoopWrite ==
    /\ loop.at \in {"bootWrite", "pollWrite", "serviceWrite"}
    /\ outbound' = Enqueue(outbound, loop.view)
    /\ GoTo(CASE loop.at = "bootWrite" -> "top"
              [] loop.at = "pollWrite" -> "watch"
              [] OTHER                 -> "sleep")
    /\ UNCHANGED <<machine, maintenance, handler, latest, conn, pipe, dog, player, faults>>

\* The fail-secure view of a new agent.
Boot ==
    /\ loop.at = "boot" /\ Publish("bootWrite", machine)
    /\ UNCHANGED <<machine, maintenance, handler, outbound, conn, pipe, dog, player, faults>>

\* Round, of a loop that says the service view once (a fault the runs must notice).
RoundSilent ==
    /\ loop.at = "top"
    /\ IF maintenance THEN GoTo("sleep") /\ sinceRound' = 0
       ELSE GoTo("poll") /\ UNCHANGED sinceRound
    /\ UNCHANGED <<machine, maintenance, handler, latest, outbound, conn, pipe, armed, downFor,
                   player, goneFor, faults>>

\* In service the loop only repeats that view; otherwise it polls.
Round ==
    /\ loop.at = "top"
    /\ IF maintenance
       THEN Publish("serviceWrite", "maintenance") /\ sinceRound' = 0
       ELSE GoTo("poll") /\ UNCHANGED <<latest, sinceRound>>
    /\ UNCHANGED <<machine, maintenance, handler, outbound, conn, pipe, armed, downFor,
                   player, goneFor, faults>>

\* The poll's outcome is applied and published, whatever became of maintenance
\* in the meantime.
PollAnswered ==
    /\ loop.at = "poll"
    /\ \E mode \in {"locked"} \cup GameModes : machine' = mode /\ Publish("pollWrite", mode)
    /\ UNCHANGED <<maintenance, handler, outbound, conn, pipe, dog, player, faults>>

\* SecureSeat: disconnects the Windows session, or fails.
SecureSeat == \E ok \in BOOLEAN : desktop' = (desktop /\ ~ok)

\* ShellWatchdog.Tick, of a watchdog whose clock every tick starts over (a fault
\* the runs must notice).
TickAnew ==
    IF conn # "down" THEN armed' = TRUE /\ downFor' = None /\ UNCHANGED desktop
    ELSE downFor' = 0 /\ UNCHANGED <<armed, desktop>>

\* ShellWatchdog.Tick.  It disarms whether or not the seat was secured.
Tick ==
    IF conn # "down" THEN armed' = TRUE /\ downFor' = None /\ UNCHANGED desktop
    ELSE IF ~armed THEN UNCHANGED <<armed, downFor, desktop>>
    ELSE IF downFor = None THEN downFor' = 0 /\ UNCHANGED <<armed, desktop>>
    ELSE IF downFor < DownGrace THEN UNCHANGED <<armed, downFor, desktop>>
    ELSE armed' = FALSE /\ downFor' = None /\ SecureSeat

Watch ==
    /\ loop.at = "watch" /\ GoTo("sleep") /\ Tick
    /\ sinceRound' = 0
    /\ UNCHANGED <<machine, maintenance, handler, latest, outbound, conn, pipe,
                   shell, screen, goneFor, faults>>

\* The sleep between two polls is over.
Wake ==
    /\ loop.at = "sleep" /\ sinceRound > 0 /\ GoTo("top")
    /\ UNCHANGED <<machine, maintenance, handler, latest, outbound, conn, pipe, dog, player, faults>>

-----------------------------------------------------------------------------
(* The pipe's thread of the agent.                                         *)

\* A shell connects; the first command it sends is hello.
Connect ==
    /\ shell = "alone" /\ conn = "down"
    /\ shell' = "linked" /\ conn' = "greet" /\ toAgent' = <<"hello">>
    /\ UNCHANGED <<agent, handler, latest, outbound, toShell, dog, screen, desktop, faults>>

\* ServeClientAsync: the latest view goes out behind what is still queued.
Greet ==
    /\ conn = "greet" /\ conn' = "up"
    /\ outbound' = IF latest = None THEN outbound ELSE Enqueue(outbound, latest)
    /\ UNCHANGED <<agent, handler, latest, pipe, dog, player, faults>>

\* The connection is gone, with the commands not read yet.
Drop == conn' = "down" /\ toAgent' = <<>> /\ goneFor' = 0

\* WritePumpAsync: a message taken for a shell that is gone is lost.
Pump ==
    /\ conn = "up" /\ outbound # <<>> /\ outbound' = Tail(outbound)
    /\ IF shell = "linked"
       THEN toShell' = Append(toShell, Head(outbound)) /\ UNCHANGED <<conn, toAgent, goneFor>>
       ELSE Drop /\ UNCHANGED toShell
    /\ UNCHANGED <<agent, handler, latest, armed, downFor, sinceRound, player, faults>>

\* ReadPumpAsync at the end of the stream, with every command read.
Hangup ==
    /\ conn = "up" /\ shell # "linked" /\ toAgent = <<>> /\ handler = None /\ Drop
    /\ UNCHANGED <<agent, handler, latest, outbound, toShell, armed, downFor, sinceRound, player, faults>>

\* Hello, of an agent that stays in service (a fault the runs must notice).
HelloInService ==
    /\ latest' = IF maintenance THEN "maintenance" ELSE machine
    /\ handler' = latest' /\ UNCHANGED maintenance

\* HandleCommandAsync: hello ends the service mode and publishes the current view.
Hello ==
    /\ maintenance' = FALSE
    /\ latest' = machine /\ handler' = latest'

\* HandleAdminExit, with the right PIN; a wrong one changes nothing.
AdminExit ==
    /\ maintenance' = TRUE
    /\ latest' = "maintenance" /\ handler' = latest'

Handle ==
    /\ conn = "up" /\ toAgent # <<>> /\ handler = None
    /\ toAgent' = Tail(toAgent)
    /\ IF Head(toAgent) = "hello" THEN Hello ELSE AdminExit
    /\ UNCHANGED <<machine, loop, outbound, conn, toShell, dog, player, faults>>

HandlerWrite ==
    /\ handler # None /\ handler' = None
    /\ outbound' = Enqueue(outbound, handler)
    /\ UNCHANGED <<agent, latest, conn, pipe, dog, player, faults>>

-----------------------------------------------------------------------------
(* The shell and the people.                                               *)

\* Apply on the UI thread: the screen follows the view.
Apply ==
    /\ toShell # <<>> /\ shell # "off"
    /\ screen' = Head(toShell) /\ toShell' = Tail(toShell)
    /\ UNCHANGED <<agent, handler, latest, outbound, conn, toAgent, dog, shell, desktop, faults>>

\* The keypad of the lock screen: the PIN of an administrator.
EnterPin ==
    /\ screen = "locked" /\ desktop /\ faults < MaxFaults /\ faults' = faults + 1
    /\ shell = "linked" /\ toAgent' = Append(toAgent, "pin")
    /\ UNCHANGED <<agent, handler, latest, outbound, conn, toShell, dog, player>>

\* The logon task starts a shell when the player signs in, unless one runs.
SignIn ==
    /\ ~desktop /\ desktop' = TRUE
    /\ shell' = IF shell = "off" THEN "alone" ELSE shell
    /\ UNCHANGED <<agent, handler, latest, outbound, conn, pipe, dog, screen, faults>>

\* The shell ends, killed or with the player's sign-out.
EndShell(signsOut) ==
    /\ shell # "off" /\ desktop
    /\ faults < MaxFaults /\ faults' = faults + 1
    /\ shell' = "off" /\ screen' = None /\ toShell' = <<>>
    /\ desktop' = ~signsOut
    /\ UNCHANGED <<agent, handler, latest, outbound, conn, toAgent, dog>>

\* The task starts it again after a failure.
RestartShell ==
    /\ shell = "off" /\ desktop /\ shell' = "alone"
    /\ UNCHANGED <<agent, handler, latest, outbound, conn, pipe, dog, screen, desktop, faults>>

\* The agent's task starts again with nothing; the shell keeps what it shows
\* and what it has read, and will connect again.
RestartAgent ==
    /\ faults < MaxFaults /\ faults' = faults + 1
    /\ machine' = "locked" /\ maintenance' = FALSE /\ GoTo("boot")
    /\ handler' = None /\ latest' = None /\ outbound' = <<>>
    /\ conn' = "down" /\ toAgent' = <<>>
    /\ armed' = FALSE /\ downFor' = None /\ sinceRound' = 0 /\ goneFor' = 0
    /\ shell' = IF shell = "linked" THEN "alone" ELSE shell
    /\ \E read \in 0..Len(toShell) : toShell' = SubSeq(toShell, 1, read)
    /\ UNCHANGED <<screen, desktop>>

\* Rounds are one to MaxGap apart; the pipe and the screen are local, and take no
\* time.  The two counters stop where they no longer matter.
Clock ==
    /\ sinceRound < MaxGap
    /\ conn # "greet" /\ handler = None /\ loop.view = None
    /\ conn = "up" => outbound = <<>> /\ toAgent = <<>> /\ shell = "linked"
    /\ shell = "off" \/ toShell = <<>>
    /\ sinceRound' = sinceRound + 1
    /\ downFor' = IF downFor = None \/ downFor = DownGrace + MaxGap THEN downFor ELSE downFor + 1
    /\ goneFor' = IF conn # "down" \/ ~armed THEN 0
                  ELSE IF goneFor = Horizon THEN goneFor ELSE goneFor + 1
    /\ UNCHANGED <<agent, handler, latest, outbound, conn, pipe, armed, player, faults>>

Loop == Boot \/ Round \/ PollAnswered \/ LoopWrite \/ Watch \/ Wake

Next ==
    \/ Loop \/ Connect \/ Greet \/ Pump \/ Hangup \/ Handle \/ HandlerWrite
    \/ Apply \/ Clock
    \/ EnterPin \/ SignIn \/ RestartShell \/ RestartAgent
    \/ \E signsOut \in BOOLEAN : EndShell(signsOut)

Spec == Init /\ [][Next]_vars

\* The clock, the agent's threads and the shell's go on; people do as they like.
FairSpec ==
    /\ Spec
    /\ WF_vars(Loop) /\ WF_vars(Clock) /\ WF_vars(Greet \/ Hangup) /\ WF_vars(Pump) /\ WF_vars(Handle)
    /\ WF_vars(HandlerWrite) /\ WF_vars(Connect) /\ WF_vars(Apply)

-----------------------------------------------------------------------------
(* Properties.                                                             *)

Settled(mode) ==
    /\ shell = "linked" /\ desktop
    /\ IF maintenance THEN mode = "maintenance" ELSE mode = machine

\* The shell is a renderer of the agent: whatever was queued, dropped, published
\* twice or out of order by two threads, a shell that stays connected to an agent
\* that stays in one mode ends up showing that mode.
ScreenFollowsAgent ==
    \A mode \in Modes : <>[]Settled(mode) => <>[](screen = mode)

\* Service mode belongs to one sign-in: a shell that connects afterwards, and
\* stays, ends it, unless the PIN is entered again.
ProtectionResumes == [](conn = "greet" => <>(~maintenance \/ conn = "down"))

\* No unattended desktop: a watchdog that is armed acts within its grace and two
\* rounds of the loop after the shell's pipe was lost.
GuardedDesktop == armed /\ ~maintenance /\ conn = "down" => goneFor < Horizon
=============================================================================
