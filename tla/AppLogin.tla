------------------------------ MODULE AppLogin ------------------------------
(***************************************************************************)
(* A player's phone and its account.  To log in the app asks the server    *)
(* for a number to call (callcheck), the player calls it, and the app      *)
(* polls until the server hands it a pair of tokens.  Signed in, it asks   *)
(* who it is every ten seconds and trades the refresh token for a new pair *)
(* when the access token has run out.  Requests overlap: an answer may     *)
(* arrive after the player has signed out, deleted the account or logged   *)
(* in as somebody else, or never.                                          *)
(***************************************************************************)
EXTENDS Integers, Sequences, FiniteSets

CONSTANTS
    None,
    Phones,
    MaxCalls,       \* bound: requests for the profile in flight
    MaxChecks,      \* bound: numbers asked for when the player begins a log-in
    MaxActs,        \* bound: log-ins given up, sign-outs, deletions, app restarts
    MaxFaults       \* bound: answers lost, API restarts, checks expired

ASSUME LoginAssumption ==
    /\ MaxCalls \in Nat \ {0} /\ MaxChecks \in Nat /\ MaxActs \in Nat /\ MaxFaults \in Nat
    /\ None \notin Phones

VARIABLES
    users,      \* user rows: phone, None once deleted, and whether a name was given
    checks,     \* callcheck sessions: phone, what the provider says, whether the server has it
    cooling,    \* phones that asked for a number less than a cooldown ago
    screen,
    phone,      \* the number typed in
    check,      \* the session on the verify screen
    waiting, timer,
    polls,      \* polls in flight: their session, how far they are, whether anyone listens
    mine,       \* pollInFlight of the verify screen: its poll, or 0
    authed, shown,      \* authSlice: isAuthenticated, user
    access,     \* the access token in memory: its user, and whether it is still good
    stored,     \* the pair in the secure store: its user
    refresh,    \* refreshPromise: the user whose token was sent
    calls,      \* requests for the profile: who asked, how far, with which token
    due,        \* a change of isAuthenticated whose effect has not run yet
    crossed,    \* history: an answer was under way at the last sign-out
    left,       \* history: signed out and not logged in since
    acts, faults

vars == <<users, checks, cooling, screen, phone, check, waiting, timer, polls, mine, authed, shown,
          access, stored, refresh, calls, due, crossed, left, acts, faults>>

server  == <<users, checks, cooling>>
verify  == <<phone, check, waiting, timer>>
polling == <<polls, mine>>
session == <<authed, shown, access, stored, refresh, calls, due>>
history == <<crossed, left>>
budget  == <<acts, faults>>

Callers == 1..MaxCalls
Users == 1..(MaxChecks + MaxFaults)
NoCall == [from |-> None, at |-> "idle", token |-> None]
Token(user) == [user |-> user, fresh |-> TRUE]
Tokens == [user : Users, fresh : BOOLEAN]
Pollers == 1..2
NoPoll == [check |-> 0, at |-> "idle", user |-> None, lost |-> FALSE]

TypeOK ==
    /\ users \in Seq([phone : Phones \cup {None}, named : BOOLEAN])
    /\ checks \in Seq([phone : Phones, state : {"open", "called", "expired"}, kept : BOOLEAN])
    /\ cooling \subseteq Phones
    /\ screen \in {"phone", "verify", "setup", "home"}
    /\ phone \in Phones \cup {None} /\ check \in 0..Len(checks)
    /\ waiting \in BOOLEAN /\ timer \in BOOLEAN
    /\ polls \in [Pollers -> [check : 0..Len(checks), user : Users \cup {None}, lost : BOOLEAN,
          at : {"idle", "sent", "status", "create", "confirmed", "pending", "error"}]]
    /\ mine \in {0} \cup Pollers
    /\ authed \in BOOLEAN /\ shown \in Users \cup {None}
    /\ access \in Tokens \cup {None} /\ stored \in Users \cup {None}
    /\ refresh \in Users \cup {None}
    /\ calls \in [Callers -> [from : {None, "home", "data", "boot"},
                              at : {"idle", "sent", "refresh", "first", "again"},
                              token : Tokens \cup {None}]]
    /\ due \in BOOLEAN /\ crossed \in BOOLEAN /\ left \in BOOLEAN
    /\ acts \in 0..MaxActs /\ faults \in 0..MaxFaults

Init ==
    /\ users = <<>> /\ checks = <<>> /\ cooling = {}
    /\ screen = "phone" /\ phone = None /\ check = 0 /\ waiting = FALSE /\ timer = FALSE
    /\ polls = [r \in Pollers |-> NoPoll] /\ mine = 0
    /\ authed = FALSE /\ shown = None /\ access = None /\ stored = None /\ refresh = None
    /\ calls = [c \in Callers |-> NoCall] /\ due = FALSE
    /\ crossed = FALSE /\ left = FALSE
    /\ acts = 0 /\ faults = 0

\* The first free place.
IsFirst(i, table, free) ==
    table[i] = free /\ \A j \in DOMAIN table : j < i => table[j] # free

Choose == acts < MaxActs /\ acts' = acts + 1
Fail == faults < MaxFaults /\ faults' = faults + 1
Act == Choose /\ UNCHANGED faults
Fault == Fail /\ UNCHANGED acts

-----------------------------------------------------------------------------
(* The server: callcheck.                                                  *)

Forget(c) == checks' = [checks EXCEPT ![c].kept = FALSE]

\* callcheckAdd: the provider gives no number, or cannot be asked.
Refused == Fail /\ waiting' = FALSE /\ UNCHANGED <<checks, cooling, check, timer>>

\* callcheckStatus: what the provider says of a session.
Heard(c) == checks[c].state

\* doRequestCallcheck, behind the map of requests in flight: a phone that asked
\* a moment ago is refused, and nothing is kept of a request the provider refuses.
Request(p) ==
    \/ /\ p \notin cooling /\ UNCHANGED faults
       /\ checks' = Append(checks, [phone |-> p, state |-> "open", kept |-> TRUE])
       /\ cooling' = cooling \cup {p}
       /\ check' = Len(checks') /\ waiting' = TRUE /\ timer' = TRUE
    \/ /\ p \in cooling /\ UNCHANGED faults
       /\ waiting' = FALSE /\ UNCHANGED <<checks, cooling, check, timer>>
    \/ p \notin cooling /\ Refused

\* The state of the verify screen goes with it.
Unmounted == phone' = None /\ check' = 0 /\ waiting' = FALSE /\ timer' = FALSE /\ mine' = 0

UnmountedIfLeft ==
    IF screen = "verify" /\ screen' # "verify" THEN Unmounted ELSE UNCHANGED <<verify, mine>>

CooldownOver ==
    /\ \E p \in cooling : cooling' = cooling \ {p}
    /\ UNCHANGED <<users, checks, screen, verify, polling, session, history, budget>>

\* The player calls the number on the screen; the provider hears it.
Dial ==
    /\ screen = "verify" /\ check # 0 /\ checks[check].state = "open"
    /\ checks' = [checks EXCEPT ![check].state = "called"]
    /\ UNCHANGED <<users, cooling, screen, verify, polling, session, history, budget>>

\* The time of a session is over, here or at the provider.
Expire ==
    /\ Fault
    /\ \E c \in 1..Len(checks) :
          \/ checks[c].kept /\ Forget(c)
          \/ checks[c].state = "open" /\ checks' = [checks EXCEPT ![c].state = "expired"]
    /\ UNCHANGED <<users, cooling, screen, verify, polling, session, history>>

\* Sessions and cooldowns live in memory, and so do the polls being answered.
RestartApi ==
    /\ Fault
    /\ checks' = [c \in DOMAIN checks |-> [checks[c] EXCEPT !.kept = FALSE]]
    /\ cooling' = {}
    /\ polls' = [r \in Pollers |-> IF polls[r].at \in {"status", "create"}
                                   THEN [polls[r] EXCEPT !.at = "error"] ELSE polls[r]]
    /\ UNCHANGED <<users, screen, verify, mine, session, history>>

Advance(r, at) == polls' = [polls EXCEPT ![r].at = at]

LogIn(r, user) == polls' = [polls EXCEPT ![r].at = "confirmed", ![r].user = user]

PollArrives(r) ==
    /\ polls[r].at = "sent"
    /\ Advance(r, IF checks[polls[r].check].kept THEN "status" ELSE "error")
    /\ UNCHANGED <<server, screen, verify, mine, session, history, budget>>

Owner(p) == {u \in DOMAIN users : users[u].phone = p}

\* callcheckStatus has answered; whoever sees the call confirmed forgets the
\* session and logs its phone in, though another poll may be doing so already:
\* finishLogin looks for the account of the phone ...
PollStatus(r) ==
    /\ polls[r].at = "status"
    /\ LET c == polls[r].check
           owner == Owner(checks[c].phone) IN
       CASE Heard(c) = "open" -> Advance(r, "pending") /\ UNCHANGED checks
         [] Heard(c) = "expired" -> Advance(r, "error") /\ Forget(c)
         [] Heard(c) = "called" ->
              /\ Forget(c)
              /\ IF owner = {} THEN Advance(r, "create") ELSE \E u \in owner : LogIn(r, u)
    /\ UNCHANGED <<users, cooling, screen, verify, mine, session, history, budget>>

NewUser(p) == [phone |-> p, named |-> FALSE]

\* PollCreate without the unique column (a fault the runs must notice).
PollCreateTwice(r) ==
    /\ polls[r].at = "create"
    /\ users' = Append(users, NewUser(checks[polls[r].check].phone))
    /\ LogIn(r, Len(users'))
    /\ UNCHANGED <<checks, cooling, screen, verify, mine, session, history, budget>>

\* ... and makes one if there was none; the column is unique, so the slower of two
\* log-ins of a new phone fails.
PollCreate(r) ==
    /\ polls[r].at = "create"
    /\ LET p == checks[polls[r].check].phone IN
       IF Owner(p) = {} THEN users' = Append(users, NewUser(p)) /\ LogIn(r, Len(users'))
       ELSE Advance(r, "error") /\ UNCHANGED users
    /\ UNCHANGED <<checks, cooling, screen, verify, mine, session, history, budget>>

-----------------------------------------------------------------------------
(* The app: logging in.                                                    *)

\* phone.tsx: a number is typed in and a check requested.
Submit ==
    /\ screen = "phone" /\ Len(checks) < MaxChecks
    /\ \E p \in Phones :
          /\ Request(p)
          /\ IF check' # check THEN screen' = "verify" /\ phone' = p ELSE UNCHANGED <<screen, phone>>
    /\ UNCHANGED <<users, polling, session, history, acts>>

\* "Get a number again": there is no way out of waiting but an error.
Again ==
    /\ screen = "verify" /\ ~waiting
    /\ Request(phone)
    /\ UNCHANGED <<users, screen, phone, polling, session, history, acts>>

\* "Change the number" leaves the screen, not the poll in flight.
Back ==
    /\ screen = "verify" /\ Act
    /\ screen' = "phone" /\ Unmounted
    /\ UNCHANGED <<server, polls, session, history>>

\* doPoll: every few seconds, and when the player comes back to the app after the call.
StartPoll ==
    /\ screen = "verify" /\ mine = 0
    /\ timer \/ checks[check].state = "called"
    /\ \E r \in Pollers :
          /\ IsFirst(r, polls, NoPoll) /\ mine' = r
          /\ polls' = [polls EXCEPT ![r] = [NoPoll EXCEPT !.check = check, !.at = "sent"]]
    /\ UNCHANGED <<server, screen, verify, session, history, budget>>

Answered(r) == polls' = [polls EXCEPT ![r] = NoPoll] /\ mine' = IF mine = r THEN 0 ELSE mine

\* LoginSuccess that is a mere update of the user (a fault the runs must notice).
LoginUpdate(user) == shown' = user /\ UNCHANGED <<authed, due>>

LoginSuccess(user) == authed' = TRUE /\ shown' = user /\ due' = (due \/ ~authed)

\* finishLogin of the app: the tokens are kept and the user is shown.
Confirmed(r) ==
    /\ polls[r].at = "confirmed" /\ ~polls[r].lost
    /\ polls' = [polls EXCEPT ![r] = NoPoll] /\ Unmounted
    /\ LET user == polls[r].user IN
       /\ access' = Token(user) /\ stored' = user
       /\ LoginSuccess(user)
       /\ screen' = IF users[user].named THEN "home" ELSE "setup"
    /\ left' = FALSE /\ crossed' = FALSE
    /\ UNCHANGED <<server, refresh, calls, budget>>

Pending(r) ==
    /\ polls[r].at = "pending" \/ (polls[r].lost /\ polls[r].at \in {"confirmed", "error"})
    /\ Answered(r)
    /\ UNCHANGED <<server, screen, verify, session, history, budget>>

\* StopPolling that leaves the screen waiting (a fault the runs must notice).
StopTimer(r) == UNCHANGED waiting /\ timer' = (timer /\ mine # r)

\* An error ends the screen's polling, whichever session that is for by now.
StopPolling(r) ==
    IF mine = r THEN waiting' = FALSE /\ timer' = FALSE ELSE UNCHANGED <<waiting, timer>>

PollFails(r) ==
    /\ polls[r].at = "error" /\ ~polls[r].lost
    /\ Answered(r) /\ StopPolling(r)
    /\ UNCHANGED <<server, screen, phone, check, session, history, budget>>

\* The connection breaks: an error for the app, and the server goes on with a poll
\* that has reached it.
PollLost(r) ==
    /\ polls[r] # NoPoll /\ ~polls[r].lost /\ Fault
    /\ polls' = [polls EXCEPT ![r].lost = TRUE] /\ mine' = IF mine = r THEN 0 ELSE mine
    /\ StopPolling(r)
    /\ UNCHANGED <<server, screen, phone, check, session, history>>

-----------------------------------------------------------------------------
(* The app: signed in.                                                     *)

\* SignedOut that keeps the token in memory (a fault the runs must notice).
SignedOutOnDisk == stored' = None /\ authed' = FALSE /\ shown' = None /\ UNCHANGED access

SignedOut == access' = None /\ stored' = None /\ authed' = FALSE /\ shown' = None

\* GET /users/me with a token that is missing, too old or of a deleted user is a 401.
Accepted(token) == token # None /\ token.fresh /\ users[token.user].phone # None

UpdateProfile(user) == users' = [users EXCEPT ![user].named = TRUE]

\* The row is kept and the phone set free.
DeleteAccount(user) == users' = [users EXCEPT ![user].phone = None]

\* A name is given on the set-up screen.
SetName ==
    /\ screen = "setup" /\ access # None /\ Accepted(access)
    /\ UpdateProfile(access.user)
    /\ shown' = access.user /\ screen' = "home"
    /\ UNCHANGED <<checks, cooling, verify, polling, authed, access, stored, refresh, calls, due,
                   history, budget>>

Start(c, from, at) ==
    calls' = [calls EXCEPT ![c] = [from |-> from, at |-> at, token |-> access]]

\* The home screen asks every ten seconds.
HomePoll ==
    /\ screen = "home" /\ authed
    /\ \A c \in Callers : calls[c].from # "home"
    /\ \E c \in Callers : IsFirst(c, calls, NoCall) /\ Start(c, "home", "sent")
    /\ UNCHANGED <<server, screen, verify, polling, authed, shown, access, stored, refresh, due,
                   history, budget>>

\* The effect of having signed in: refreshAppData.
AppData ==
    /\ due /\ authed /\ due' = FALSE
    /\ \E c \in Callers : IsFirst(c, calls, NoCall) /\ Start(c, "data", "sent")
    /\ UNCHANGED <<server, screen, verify, polling, authed, shown, access, stored, refresh,
                   history, budget>>

Done(c) == [calls EXCEPT ![c] = NoCall]

\* The profile arrives.  The home screen only shows it; the other two log in.
MeArrives(c) ==
    /\ calls[c].at \in {"sent", "again"} /\ Accepted(calls[c].token)
    /\ calls' = Done(c)
    /\ IF calls[c].from = "home" THEN shown' = calls[c].token.user /\ UNCHANGED <<authed, due>>
                                ELSE LoginSuccess(calls[c].token.user)
    /\ screen' = IF calls[c].from # "boot" THEN screen
                 ELSE IF users[calls[c].token.user].named THEN "home" ELSE "setup"
    /\ UnmountedIfLeft
    /\ UNCHANGED <<server, polls, access, stored, refresh, history, budget>>

\* A 401 asks for new tokens, the second one ends the session.
MeRefused(c) ==
    /\ calls[c].at \in {"sent", "again"} /\ ~Accepted(calls[c].token)
    /\ IF calls[c].at = "sent"
       THEN /\ calls' = [calls EXCEPT ![c].at = "refresh"]
            /\ UNCHANGED <<access, stored, authed, shown, screen>>
       ELSE calls' = Done(c) /\ SignedOut /\ screen' = "phone"
    /\ UNCHANGED <<server, verify, polling, refresh, due, history, budget>>

\* No answer: nothing is done.
MeLost(c) ==
    /\ calls[c].at \in {"sent", "again"} /\ Fault
    /\ calls' = Done(c)
    /\ UNCHANGED <<server, screen, verify, polling, authed, shown, access, stored, refresh, due, history>>

Waiting == {c \in Callers : calls[c].at \in {"refresh", "first"}}

\* refreshSession: one for all who wait.  Without a stored token there is nothing to send.
StartRefresh ==
    /\ Waiting # {} /\ refresh = None /\ stored # None
    /\ refresh' = stored
    /\ UNCHANGED <<server, screen, verify, polling, authed, shown, access, stored, calls, due,
                   history, budget>>

\* New tokens are kept, whoever is signed in by now, and everybody asks again.
Refreshed ==
    /\ refresh # None /\ users[refresh].phone # None
    /\ refresh' = None /\ access' = Token(refresh) /\ stored' = refresh
    /\ calls' = [c \in Callers |->
          CASE calls[c].at = "refresh" -> [calls[c] EXCEPT !.at = "again", !.token = access']
            [] calls[c].at = "first"   -> [calls[c] EXCEPT !.at = "sent", !.token = access']
            [] OTHER                   -> calls[c]]
    /\ UNCHANGED <<server, screen, verify, polling, authed, shown, due, history, budget>>

\* No new tokens: the calls fail with their 401, except that the start of the app
\* still tries the token it has.
RefreshFails ==
    /\ \/ refresh # None /\ users[refresh].phone = None /\ UNCHANGED budget
       \/ refresh # None /\ Fault
       \/ refresh = None /\ Waiting # {} /\ stored = None /\ UNCHANGED budget
    /\ refresh' = None
    /\ calls' = [c \in Callers |->
          CASE calls[c].at = "refresh" -> NoCall
            [] calls[c].at = "first"   -> [calls[c] EXCEPT !.at = "sent", !.token = access]
            [] OTHER                   -> calls[c]]
    /\ IF \E c \in Callers : calls[c].at = "refresh"
       THEN SignedOut /\ screen' = "phone"
       ELSE UNCHANGED <<access, stored, authed, shown, screen>>
    /\ UnmountedIfLeft
    /\ UNCHANGED <<server, polls, due, history>>

\* What an answer that arrives from now on may bring back.
UnderWay ==
    refresh # None \/ (\E c \in Callers : calls[c] # NoCall) \/ (\E r \in Pollers : polls[r] # NoPoll)

Leave == SignedOut /\ screen' = "phone" /\ left' = TRUE /\ crossed' = UnderWay

SignOut ==
    /\ screen = "home" /\ Act /\ Leave
    /\ UNCHANGED <<server, verify, polling, refresh, calls, due>>

\* The account is deleted.  Without an answer the app goes on as before.
Delete ==
    /\ screen = "home" /\ access # None /\ Accepted(access)
    /\ DeleteAccount(access.user)
    /\ \/ Act /\ Leave
       \/ Fault /\ UNCHANGED <<access, stored, authed, shown, screen, history>>
    /\ UNCHANGED <<checks, cooling, verify, polling, refresh, calls, due>>

\* Fifteen minutes are over.
AccessExpires ==
    /\ access # None /\ access.fresh /\ access' = [access EXCEPT !.fresh = FALSE]
    /\ UNCHANGED <<server, screen, verify, polling, authed, shown, stored, refresh, calls, due,
                   history, budget>>

\* The app is started anew: useAppBootstrap.
RestartApp ==
    /\ Act
    /\ screen' = "phone" /\ Unmounted
    /\ polls' = [r \in Pollers |-> NoPoll]
    /\ authed' = FALSE /\ shown' = None /\ refresh' = None /\ due' = FALSE
    /\ access' = IF stored = None THEN None ELSE [user |-> stored, fresh |-> FALSE]
    /\ calls' = [c \in Callers |->
          IF c = 1 /\ stored # None
          THEN [from |-> "boot", at |-> "first", token |-> access'] ELSE NoCall]
    /\ UNCHANGED <<server, stored, history>>

Poll(r) ==
    \/ PollArrives(r) \/ PollStatus(r) \/ PollCreate(r)
    \/ Confirmed(r) \/ Pending(r) \/ PollFails(r)

Answers == \E c \in Callers : MeArrives(c) \/ MeRefused(c)

Tokening == StartRefresh \/ Refreshed \/ (RefreshFails /\ UNCHANGED faults)

Next ==
    \/ CooldownOver \/ Dial \/ Expire \/ RestartApi
    \/ Submit \/ Again \/ Back \/ StartPoll
    \/ \E r \in Pollers : Poll(r) \/ PollLost(r)
    \/ SetName \/ HomePoll \/ AppData
    \/ \E c \in Callers : MeArrives(c) \/ MeRefused(c) \/ MeLost(c)
    \/ StartRefresh \/ Refreshed \/ RefreshFails
    \/ SignOut \/ Delete \/ AccessExpires \/ RestartApp

Spec == Init /\ [][Next]_vars

\* The app's timers and requests and the server go on, and a player who is shown a
\* number calls it, comes back, and asks for another when told of an error.
FairSpec ==
    /\ Spec
    /\ \A r \in Pollers : WF_vars(Poll(r))
    /\ WF_vars(StartPoll)/\ WF_vars(CooldownOver) /\ WF_vars(Dial) /\ WF_vars(Again)
    /\ WF_vars(HomePoll) /\ WF_vars(AppData) /\ WF_vars(Answers) /\ WF_vars(Tokening)

-----------------------------------------------------------------------------
(* Properties.                                                             *)

\* Who has signed out stays signed out, unless an answer was under way at that
\* moment: then the app may hold tokens, or show a user, that nobody asked for.
SignedOutStaysOut == left /\ (authed \/ stored # None \/ access # None) => crossed

\* A living phone number has one account, through deletions and log-ins that were
\* under way meanwhile.
OneAccount == \A p \in Phones : Cardinality(Owner(p)) <= 1

\* The home screen comes to show the user its token is good for.
AppComesToAgree ==
    <>[](screen = "home" => /\ authed /\ access # None /\ access.user = shown
                            /\ users[shown].phone # None)

\* A player who keeps calling the number on the screen gets in, whatever was
\* lost, expired or restarted on the way.
LoginCompletes == []((screen = "verify") => <>(screen # "verify"))
=============================================================================
