# Stopkek in TLA+

Formal models of *stopkek* (repository `FalkinRoman/pasha`), the software of a
computer club: players book a seat in a mobile app, pay from a wallet, scan the
QR code on the seat's monitor, play, and are locked out when the paid time is
over. TLC checks the models on small instances; TLAPS proves the results that
matter most for every value of the constants. Paths below are relative to the
repository's root, `src/` in `PROJECT.json`.

## 1. The system

| Component | State it keeps | Operations | Talks to |
|---|---|---|---|
| Bookings (`stopkek-api/src/bookings`) | `Booking`, `BookingSeat` rows, `Seat.status` | create, payFromWallet, extendSession, endSession, cancelBooking, getActive, openMainDoor, syncSeatStates, processNoShow | wallet rows, pricing, locks, notifications |
| Scheduler (`scheduler`) | none | `tick`, every minute: sync, no-shows, reminders | bookings, notifications |
| Wallet (`wallet`, `payments`) | `Wallet`, `Transaction`, `Payment` rows | createTopup, mockTopup, getTopupStatus, webhook, completePayment, creditWallet | YooKassa over HTTP, both ways |
| Kiosk endpoint (`kiosk`) | QR challenges, PC codes, toasts in memory; `pcUnlockedAt` in the booking | getSeatState (each PC polls it), confirmQr, unlock, issuePcCode, endSeatSession, enqueueToast | bookings |
| Kiosk agent (`stopkek-kiosk-v2/agent`) | the session state machine, the view, maintenance mode, the pipe's outbound channel, the watchdog | poll, apply, publish, commands from the shell, ticks | kiosk endpoint, shell over a named pipe |
| Kiosk shell (`stopkek-kiosk-v2/shell`) | the last view | draws lock, timer, toasts; the administrator's PIN | agent |
| Identity (`identity`) | `IdentityVerification` rows, `User.identityStatus` | submit, getStatus, approve, reject, auto-approval inside any of them | files |
| Authentication, users (`auth`, `users`) | callcheck and OTP sessions, cooldowns and rate limits in memory; `User` rows | ask for a number to call, poll it, refresh tokens, profile, delete the account | SMS.ru |
| Locks, locker log (`locks`, `locker`) | `LockEvent`, `LockerLog` rows | open | HTTP bridge |
| Pricing (`pricing`), club | rates, packages, time windows | quote, quoteExtend, the public price list | |
| Administration (`admin`, `stopkek-admin`) | zones, seats and their places on the map, wallets, prices | createSeat, updateSeat, deleteSeat, zones, relayout, cancelBooking, adjustWallet, edits and lists | everything |
| Mobile app (`stopkek-mobile`) | tokens, the booking draft, the screens' state | log-in, checkout, extension, top-up, scan, verification | API |
| Notifications | push tokens, `NotificationLog` | pushToUser, processRemind15 | Expo |
| Legacy kiosk (`stopkek-kiosk`) | a PC code | unlock by code | kiosk endpoint |

The API is one Node process on PostgreSQL under READ COMMITTED. A handler runs
to its next `await`, and any other handler may run there. The schema has no
exclusion constraint on slots, no unique `Transaction.externalId` and no check on
the balance, so every rule about them is a check made by a handler some awaits
before its write; it does have unique phones, unique seat numbers in a zone and
keys that keep a booked seat. Maps in memory do not outlive the process. The agent polls,
drops answers that do not come in time, and counts on its own clock in between. The app
keeps screens mounted behind each other, and their effects ask the server and do not wait
for one another.

What is hard, in short: check-then-act across awaits (double bookings, double
charges, double credits, double verdicts); a status written from a stale row; the order of
the sync pass and the no-show pass; crashes between two writes; late, lost and repeated
answers of the payment provider and of the API to the phone; an agent that must neither
throw a paying player out nor leave the PC open, with any mix of answers and failed polls;
two threads that publish views to a shell that comes and goes. `PROJECT.json` lists each
hazard at its line.

What makes each part correct:

- **bookings**: a confirmed booking has been charged; the ledger adds up; no
  two live bookings hold a seat at once; a status moves only along its lifecycle;
  an unpaid or finished booking gives its seat back;
- **wallet**: money enters a wallet only for a payment taken (or reported so), once, and it does enter;
- **agent and kiosk endpoint**: open while the paid time lasts, locked soon after
  it, one player to a seat, and the lock screen shows a code that works;
- **agent and shell**: the screen comes to show the agent's mode, service mode ends, a lost shell
  leads to a secured seat in bounded time;
- **authentication**: one account for a phone, a log-in that completes, nobody signed in again
  after signing out;
- **checkout**: what is charged was shown, the hold is for the draft, a confirmed booking stays;
- **hall**: no booked seat disappears, flags come to agree with bookings, repair stays, one
  pulse of the door in a cooldown unless one was reported as a failure;
- **identity**: one open application, one verdict, and everybody is answered.

## 2. Modules

| Module | Models | State and actions |
|---|---|---|
| `SessionRules` | pure rules of `bookings.service.ts` | windows, `Stale`/`Expired`/`DueStart` tests, `NormalizePhase`, `Activate`, `Release`, `DisplayStatus` |
| `BookingTables` | the rows and what each handler writes | `bookings`, `balance`, `ledger`, `charge` (history: what was taken for a booking), and the properties both booking modules share |
| `BookingLifecycle` | abstract: what a booking's status may do, and that it is paid at most once | one status per booking |
| `Bookings` | each handler as one action, in every order | adds `seats` (flags) and `doorLog` |
| `BookingRequests` | each handler taken apart, one database call per step | adds `req`: per process the program point and the rows it has read |
| `TopupPromise` | abstract: what a top-up promises | `paid`, `credits` |
| `WalletTopup` | payments, webhook, success and top-up screens, messages of any content to the webhook, crashes | `payment`, `remote` (the provider), `request`, `screen`, `misled` (history: payments a message called paid too early) |
| `KioskMachine` | `SessionStateMachine.Apply` as an operator on a record | the machine `m`: mode, anchors, deadline, strikes, last view |
| `SessionStateMachine` | the machine against any server | `machine`, `clock`, `until` (history: granted time) |
| `KioskService` | the kiosk endpoint's queries and answers as operators | row, challenge, `SeatAnswer`, `Unlockable` |
| `SeatSession` | one seat end to end: composition of `SessionRules`, `KioskService`, `KioskMachine` | rows, challenge, the poll and the confirmations in flight, a handler nobody waits for, machine, faults |
| `AgentShell` | `Worker`, `IpcServer`, `ShellWatchdog` and the shell, two threads and two processes | the loop's program point, the pipe thread's half-published view, channel, pipe, watchdog, shell, desktop |
| `Pricing` | `pricing.service.ts` and the phone's `bookingPricing.ts`, as operators, and the administrator's edits | lists as sets of rows with a place or an id, `Quote`, `BookingPrices` (what a binary fraction may round to) |
| `BookingApp` | the checkout of the app against server, scheduler and an administrator who edits prices; extends `Pricing` | the draft, quote, hold, payment and extension, each request in flight and the list it was priced by |
| `AppLogin` | log-in by call, tokens, profile requests, sign-out, deletion: `auth`, `users`, the app's client and screens | `users`, `checks`, polls and calls in flight, what the app keeps in memory and in its store |
| `BackOffice` | seats, zones, map, flags and door: administrators, players and the recomputing pass, one database call per step | zones, seats, who holds them, door log, requests |
| `Verification` | identity: uploads, polls, verdicts, approval by the clock, the camera and waiting screens | application rows, the user's status, requests, screen |
| `MCBookings`, `MCRequests`, `MCWallet`, `MCSeat`, `MCBookingApp`, `MCBackOffice` | instances for TLC (the other modules need only a `.cfg`) | |
| `BookingTables_proofs` | lemmas the two proofs about bookings share | |
| `Session_proofs` | theorems of `SessionStateMachine` and `SeatSession` | |
| `Administration_proofs` | theorems of `Verification` and `BackOffice` | |
| `MobileApp_proofs` | theorems of `BookingApp` (with lemmas about `Pricing`) and `AppLogin` | |
| `BookingRequests_proofs`, `Bookings_proofs`, `WalletTopup_proofs`, `AgentShell_proofs` | theorems of the module they are named after | |

Choices a reader will ask about:

- **Time** is a tick count; durations, windows and limits are constants whose
  order is the code's (door window ≤ unpaid limit ≤ no-show grace < a booking's length).
  Comparisons keep the code's strictness.
- **A serial refused request is `Sync`** in `Bookings`: a handler that refuses has
  run the sync pass and nothing else.
- **Ids follow `createdAt`**, so "the latest booking" is the largest id.
- **Prices** are a constant per length in the booking modules, where no property depends on
  the tariff; `Pricing` and `BookingApp` have the tariff.
- **Operators named `...Anyway`, `...Again`, `...Unlogged` and so on** are
  plausible mistakes in the definition they stand beside. No specification uses
  them; they exist to show that the properties notice.
- **QR ids**: an id that no screen shows may be used again, so two ids stand for
  every random one.
- **Refunds** do not exist in the code: a cancelled booking keeps its charge.
- **Histories** (`charge`, `granted`, `told`, `raced`, `misled`, `crossed`, `left`, `met`, `lost`, `twice`, `goneFor`, `shown`,
  `confirmed`, `late`, `by`) are read by properties only; each says so where it is declared.
- **`BookingApp`** has two beginnings: the map of a player without a booking, and a session that is
  being played, whose extension screen may be opened. Holds of the same player conflict, as in `create`.
- **`AgentShell`** lets a poll end in any mode: what the machine decides is `SessionStateMachine`'s
  matter, how it reaches the screen is this module's. Time passes only in `Clock`; the pipe and
  the screen take none.
- **`SeatSession`** takes `getSeatState` apart at the query of the booking and at the formatting, and `confirmQr`
  with `unlockBooking` at the test of the code, at its deletion and at the write; the query and the write
  that start a due session are one step (`BookingRequests` has them apart). A phone has one confirmation under
  way (the gate of `scan-pc.tsx`), the phones of two bookings may have one each. A handler that has found no booking may go
  on after its agent has given the poll up (`adrift`), and `unlockBooking` ends with such a `getSeatState` itself.
- **The webhook** (`payments.controller.ts:18`) acts on the status in the body and on the row, so `Webhook` has no other
  guard; who calls it is the environment: `ProviderNotifies`, and `MessageArrives` for every other message.
- **`Pulse`** of the door may fail with the door shut or after it has opened; `lost` counts the latter.
- **`BackOffice`** books and pays in one step and keeps one holder per seat; what overlapping
  bookings do to each other is `BookingRequests`' matter.

## 3. What TLC checks

Passing runs:

| Run | Instance | What it shows |
|---|---|---|
| `bookings` | 1 player, 1 seat, 2 bookings, 4 ticks, top-ups, adjustments, both seat flags, fair | With one request at a time: the balance is the ledger, play time is paid for, bookings overlap only through an extension, the status refines `BookingLifecycle`, and unpaid bookings and used slots are given back |
| `requests_overlap` | 2 processes, 1 booking, 3 moments; the first runs all nine handlers, the second pays, extends, cancels and ends (1.2 million states) | taken apart and interleaved at every await, every confirmed booking has been charged; the proof's invariant holds |
| `wallet_alone` | 2 payments, 1 request, 2 crashes | a top-up refines `TopupPromise` |
| `wallet` | 1 payment, 3 requests, 3 polls, 2 crashes, fair (143 000 states) | no credit without a payment that was taken, unless a message to the webhook said so; no settled payment disturbed; paid money arrives unless a crash came between mark and credit |
| `agent` | gap 2, grace 3, offers of 0, 1 and 4 ticks, 16 ticks | bounded overrun; a timer honest to one gap (see below); no eviction by one stray answer |
| `seat` | 1 booking, early with faults spent or late with one to come, or 2 in a row with or without an hour to extend by, fair (702 000 states) | end to end, a PC is open at most `Grace + 4 * MaxGap` after the booking; two players sit on it only after a race for its code; without one it never locks in a game whose end it knows; a scan opens it, an end locks it |
| `agent_shell` | channel of 2, grace 2, gap 2, 2 faults, fair | an armed watchdog acts within its grace and two rounds; the screen of a shell that stays comes to agree with the agent; service mode ends with the next sign-in |
| `app_login` | 1 phone, 2 numbers to call, 2 polls, 1 profile request, 1 voluntary act, 1 fault, fair | signed out stays out unless an answer was under way; one account per phone; screen and token come to agree; a caller gets in |
| `booking_app` | 2 hours to start at, 1 window, 1 package, 2 bookings, 1 change of mind, 1 upset (an edit of the list, a lost or refused request or a killed app) | charged is what was shown; quote and hold are for the draft on display; a confirmed booking is not released by the app; an extension costs what its button said; phone and server compute one price, a half ruble aside, where their lists allow it |
| `back_office` | 2 zones, 2 seats, 2 requests beside the pass, 2 orders, 1 booking per seat, fair | booked seats stay; new seats get a place; repair is not undone by a pass; flags come right; one pulse per cooldown, and one for each that was reported as a failure, unless a request came before the row of another was written |
| `verification` | 2 uploads, 1 poll, 1 request of the site (2 in a row), 2 applications, 1 lost answer, fair (406 000 states) | a second open application only after overlapping uploads, a second verdict only after overlapping decisions, and a waiting player is answered |

One run shows a disagreement between the code and what the repository says: in
`double_booking_by_extension` an active booking is extended into the hour of the next one on the seat, which another
player has paid for; `docs/TECHNICAL_SPEC.md:117` excludes that.

Other properties are stated in the modules beside the comment of the code they
come from. Each was seen violated when it was given to the run of its module; they are
no standing runs, since the true statement next to each of them is one:

| Property | How it fails | What is true and checked |
|---|---|---|
| `OverlapOnlyByExtension` (`BookingRequests`) | two creates pass the slot check before either inserts | the same property in `Bookings`: serially, overlap comes only from extensions |
| `AbsentIsNoShow` (`Bookings`) | the sync pass starts the session of a player who never came, before the no-show pass looks (`session.constants.ts:5`, `docs/SESSION_FLOW.md:25`) | `KeepsLifecycle`, `SlotIsGivenBack` |
| `EndedStaysEnded` (`BookingRequests`) | a booking cancelled during its payment becomes paid | `KeepsLifecycle` serially |
| `ChargedOnce` (`BookingRequests`) | two payments of one booking both charge it, or overdraw the wallet | `ConfirmedIsCharged` |
| `CreditedOnce` (`WalletTopup`) | webhook and poll both credit one payment | `KeepsPromise` serially, `SettledIsFinal` always |
| `PaidIsCredited` (`WalletTopup`) | a crash between mark and credit loses a paid top-up for good | `PaidIsCreditedOrLost` |
| `ShownIsCredited` (`WalletTopup`) | the app announces a top-up between mark and credit | `PaidIsCreditedOrLost` |
| `GraceBeforeLock` (`SeatSession`) | online, the grace period is never entered: the server completes the booking on the poll that would have said "expired" (`stopkek-kiosk-v2/README.md:41`, `docs/RISKS.md:39`) | `NoFreePlay`, `NoEviction` |
| `OfflinePlaysToEnd` (`SeatSession`) | unlocked before its hour and offline, a PC locks at the start of the session | `TimerIsHonest`, `NoEviction` |
| `LeavingCancelsOnlyUnpaid` (`BookingApp`) | the payment screen is left while the payment is in flight, or its answer was lost: the release cancels the paid booking (`payment.tsx:76`) | `ConfirmedStays`: once the app has confirmed the payment, it lets nothing go on its own |

Further behaviour met while modelling, which no property states: nothing calls
`assertCanBook` or links to the verification screens (`docs/TECHNICAL_SPEC.md:58`), an
auto-approval under way can overwrite a rejection, a lost answer to an upload leaves the
player on the camera screen with "already under review"; the phone is sent only the price
rows without a zone and takes the last fitting package of its list, the server the largest, so
`CustomPriceAgrees` has three premises; the phone multiplies by `1 - percent / 100` as a binary fraction, so a price that
ends in half a ruble may be shown a ruble less than it costs (150 an hour, 7 hours, 7 %: 976 on the phone; 97650 kopecks,
shown as 977, on the server); a failed quote leaves the former price on the summary, and
a failed extension quote leaves the button at a default rate; an answer to a create that arrives after its screen was left
leaves a hold until its time is over; `updateSeat` does not lay the map out again; an administrator's
cancellation and the start of a session write the flag of a seat even under repair; the
watchdog disarms even if securing the seat failed; a restarted agent shows the lock
until its first poll; a refreshed token that arrives after a sign-out is stored;
a message that calls an open payment paid is believed, since the webhook asks nobody; a top-up request
whose answer from the provider is lost writes `failed` over a row that a notification has marked meanwhile, after which it may be credited;
a bridge that answers with an error after the door has opened leaves no row in the log, so the door opens again within the
cooldown, and so does a tap after the answer but before the row, which is not awaited (`bookings.service.ts:735`);
a held `locked` answer shows the time of the last answer again (`SessionStateMachine.cs:160`), and the widget counts it anew;
two confirmations of one code that overlap, or a code made for a seat that has just been taken, seat two players, and the
PC of one may then lock in a game it was told of.

**Why the bounds suffice.** The handlers look at one booking, its seat, its
player and the bookings on the same seat: two bookings give every pair, and
overlap, succession and equality of slots all fit into four ticks. Every
race the code has is between two requests; a third repeats the role of one of them.
In `requests_overlap` one booking is enough because what its property says is about one booking
and the wallet; what a second booking adds to slots is in `bookings`.
A top-up meets its webhook and its poll, and a message or a second poll beside them: three requests of one payment; that two
payments do not mix is seen in `wallet_alone` and proved. The agent's memory is a strike count of two, an anchor and a
deadline, so a horizon of a few gaps plus grace passes through every combination.
In `seat` the bound is `4 * MaxGap`: with polls up to two ticks apart `3 * MaxGap`
fails (with one tick, as in the run, it holds and `2 * MaxGap` fails). It is one gap
for the answer on its way, two for the strikes and one for the poll that reaches zero. The plans of `MCSeat` begin where things
happen: before the door window of one booking, whose end and the bound after it come before `MaxNow`; the same with a
fault to come; and with two bookings whose door windows overlap, so that their players can race for a code, the first playing on to its end
or about to begin and be extended over the second (with the clock at its last tick). A fault is
a restart, a reboot, a handler gone adrift, or a tick in which a confirmation is under way.
In `agent_shell` a channel of two already drops and reorders, and two faults give a shell killed
and an agent restarted in either order. In `app_login` a log-in needs one number to call and a
second for another attempt; two polls overlap where one was sent before the screen was
left. In `booking_app` one upset among edit, loss, refusal and kill is what every property
survives or not. `ChargedAsShown` does not speak of a payment tapped after a quote by an older list replaced
the price of the hold (`late`): that takes an edit and a late answer, more than the run has, is seen with
two upsets, and is inside the theorem. In `verification` a second poll in flight repeats the first (and takes the run beyond five minutes).
Bounds stop the clock and the counters (`MaxNow`, `MaxEnd`, `MaxLength`, `MaxBalance`,
`MaxBookings`, `Horizon`, `MaxPolls`, `MaxCrashes`, `MaxFaults`, `MaxActs`, `MaxChecks`, `MaxOps`,
`MaxRows`, `MaxTurns`, `MaxUpsets`, `MaxAdmin`), so deadlock is not
checked: past them, the models stop where the system would go on.

**Fairness.** `Bookings`: weak fairness of the clock and of the scheduler, because cron fires
every minute; nobody has to pay, play or end. `WalletTopup`: weak
fairness of each handler's next step (Node runs it), and strong fairness of the provider's
notification of each paid payment (`ProviderNotifies`), because the provider repeats it until it is answered; no other message is fair.
`SeatSession`: weak fairness of the poll, because the agent's loop never
stops; weak fairness of the time-out of a request the API has dropped; strong
fairness of the two steps of an answer, which is "the network does not fail for ever".
`AgentShell`: weak fairness of the loop, the pipe's steps, a shell that tries to connect and its
UI thread; nobody has to sign in, and no fault is fair. `AppLogin`: weak fairness of the timers, of requests and handlers, and of a player
who is shown a number to call, calls it and asks for another one after an error; losses are bounded, which is
"the network does not fail for ever" here. `BackOffice`: a request that has begun goes on
(Node), and a pass comes every minute. `Verification`: handlers go on, the waiting screen's timer polls, and
an application becomes due; no administrator has to look.

## 4. What TLAPS proves

All for every set of users, seats, payments, phones and requests and every value of the
numbers, from the named assumptions beside the constants (`RulesAssumption`, `TablesAssumption`,
`TopupAssumption`, `ShellAssumption`, `LoginAssumption`, `VerificationAssumption`, `BookingAppAssumption` and so on: natural numbers,
positive lengths, finite or disjoint sets, a `None` that is none of the values; for prices, that hours typed in
lie between 1 and 12, that the first list is a price list and that new windows get new ids). TLC evaluates those in the runs.

**`BookingRequests_proofs`** - `TypeCorrect`, `Inductive`, `NobodyPlaysOnCredit`:
however many requests overlap, a booking that is paid, active, completed or
no-show has been charged at least its price. This is what is left of "bookings
are paid for" once double charges are possible, and it is far from obvious: the row that
confirms a booking is written from reads several awaits old. `ConfirmedIsCharged`
alone is not inductive: nothing says why a request may write `active`. `IInv`
adds `ChargeInv` (an id not yet inserted is not charged; a charge is at least the price)
and `Entitled`, what a request in flight knows at each program point: having found the
transaction row means it exists, a release to `completed` is of a charged booking, and the
price read with an uncharged booking is still its price, because only an
extension changes a price and an extension needs a charged booking. Each lemma
`...Keeps` treats a group of steps; `Stable` says that facts about charges survive every
other process's step, since charges only grow.

**`Bookings_proofs`** - `Inductive`, `WalletAddsUp`, `PlayIsPaidOnce`,
`OnlyExtensionsOverlap` and the refinement `LifecycleIsKept`. The invariant is the
type invariant, the ledger, the overlap and, row by row, `PaidUp`: a paid row has one payment and
the charges add up to its price, an unpaid one has no payment row at all, which is why a payment makes the
first. Most actions are a `Moves` of rows: slots and money stay, statuses move along the lifecycle; only
create, pay and extend need arithmetic. The sync pass is a `Moves` of all rows at once. The refinement
then needs no more than the invariant: `paid` is entered only by the action that writes the payment.

**`WalletTopup_proofs`** - `Inductive`, `CreditsWhatIsReported` (`CreditIsPaid`), `LateAnswersAreHarmless`,
`AloneKeepsPromise`. The webhook believes what it is told, so no theorem says that the provider has the money of every credit; they say
that nothing else than a test top-up, the provider and such a message can be its source. `IInv` says what a request in flight knows (`Grounded`: past
the fetch, the payment is taken or reported so; past the mark, the row says so, or a message
has misled it), and that one request at most is creating a payment. `SettledIsFinal` then follows
step by step. With one request, every step is a step or a stutter of
`TopupPromise`, crashes included; with two, it is not (`CreditedOnce`).

**`Session_proofs`**, the machine - `AgentInductive`, `LockedInTheEnd`,
`CountdownIsHonest`, `PlayersKeepTheirTime`, for every grace, gap and stream of answers.
`AgentInv` relates the machine's anchors to the granted time mode by mode: in
`active` the anchor ends at `until`, in `grace` the deadline lies at most a gap past `until + Grace`,
and a strike count never reaches the limit while open. A held `locked` answer leaves the view as it was, and the
screen counts it down anew: `TimerIsHonest` therefore allows one gap more while the count is not zero. One lemma describes
the fields each entry of the machine writes (`LockFields`, `EnterGraceFields`, ...); the step lemmas
combine them.

**`Session_proofs`**, the seat - `SeatInductive`, `NobodyPlaysForNothing` (`NoFreePlay`),
`OnePlayerOnASeat` (`OneSeated`), `NobodyThrownOut` (`NoEviction`, an action property), for any number
of bookings, any slots, restarts and lost answers. None of the three is inductive, because server and
machine do not look at each other: what connects them is the answer on its way. `SeatInv` says what a row read by a poll and an answer
under way are worth (`ReadIsGranted`, `AnswerIsGranted`): no more than was granted.
`CountdownIsGranted` and `GraceIsGranted` bound what the machine
makes of them; a held refusal costs one gap more (`Held`), which is where `4 * MaxGap` comes from.
This half (`NoFreePlay`) holds whatever races. The other, `SeatIsOnes`, is what holds until one: `CodeMeansFree` (a code is offered only of a
free seat), `ScanIsAlone` (one confirmation under way, of the code on offer or of one that is gone), `ReadIsAlone` and `AnswerIsAlone`
(a row that was read is of the player who sits there, and a "locked" for a PC in play is true). A race is recorded in `raced` where it happens: a
second confirmation that passes the test of the code, a code that is made while a player has the seat or is confirming, or made by a handler
nobody waits for; a code that is made for a free seat ends it.

**`AgentShell_proofs`** - `Inductive`, `TypeCorrect`, `DesktopIsGuarded`. The watchdog does not see the pipe go; it sees at
a tick that it is gone. `Counted` says what it can know: the loss is younger than the last
round of the loop, or a round has seen it, its count is at most a round behind, and the next tick
beyond the grace disarms. That gives the grace and two rounds. The types include that the channel never holds
more than its capacity although two threads write to it.

**`MobileApp_proofs`**, the checkout - `CheckoutInductive`, `CheckoutTyped`, `ShownIsCharged` (`ChargedAsShown`), `DraftStaysInStep`
(`DraftInStep`), `ConfirmedBookingStays` (`ConfirmedStays`), `ExtensionAsShown` (`ExtendedAsShown`), `CustomPricesAgree`
(`CustomPriceAgrees`), for any first list, any number of bookings, edits, changes of mind, lost answers and killed apps. What is
charged was computed from a list, a draft and a request that may each be
older than what is on display, so none of the five says enough about the state it holds in. `CheckoutInv` adds:
`ScreensInStep` (which screen may have what under way: a quote only while the booking screens are up with a
seat selected, a hold only on the payment screen, nothing held before the time screen was seen), `RowsExist`,
`RequestsFit` (every quote, request and hold the screen still listens for is for the draft, since each effect
that changes the draft forgets the one under way), `PricesAreCharges` (each price under way is the charge by the list it
names; the hold's is the total unless a quote came late), `ConfirmedIsLetGo` (of a confirmed booking neither the store, nor the
screen, nor a request, nor a release keeps the id) and `PackageIsOffered` (a chosen package and its hours are one
row of the quoted list). `IdsAreSpent` keeps window ids distinct under edits; without it two windows
could share an id, and the percent the server finds would not be the one it quoted.
`Steps` sorts the actions into seven classes; each conjunct has one lemma with a case per class.
The lemmas about `Pricing` say that charges and quotes are natural numbers for every list, that each edit makes a price list of a
price list, and, in `PhoneAndServer`, that the phone, which rounds rubles, a half either way, and takes the last
fitting package, and the server, which rounds kopecks, then rubles, and takes the largest, agree to the half ruble (`TierIsPackage`, `RoundOnce`, `RoundsAgree`).

**`MobileApp_proofs`**, the log-in - `LoginInductive`, `OutMeansOut`, `OnePhoneOneAccount`. Signing out with nothing under way
leaves no token, and without one no profile request starts, so nothing can come back but a new
log-in: `Out` is inductive once it says that no call is in flight. One account per phone is
`Unique`, which needs `LoginRows`: a poll in flight is about a session that was begun, hence about a phone.

**`Administration_proofs`**, verification - `ApplicationsInductive`, `ApplicationsTyped`, `OpenOnce`, `DecidedOnce`. A
handler decides by the row it read
some awaits ago: `NotStale` says that whoever is about to decide an application that has its verdict
has been marked as racing, `Marked` that it stays marked, and `Alone` that as long as uploads have
not overlapped there is one under way, and it inserts only when nothing was open.

**`Administration_proofs`**, the hall - `HallInductive`, `HallTypeCorrect`, `BookedSeatsAreKept`, `NewSeatsGetAPlace`,
`OnePulsePerCooldown` and the action property `OutOfServiceIsKept`, for any number of zones, seats, requests and bookings.
`HallInv` adds to the types what a request carries at its program point (`Shaped`), what a deletion and a layout still know
of the zone they read (`Informed`), that a seat in the corner of the map has a request that will place it
(`CornersAreTransient`), and that a pulse of the door that was not reported as a failure is in the log or in the hands of the one request
that gave it (`PulseIsLogged`). The proof found what TLC's instance is too small for: with four
overlapping requests, a seat that was moved to another zone and then deleted makes the layout of its old zone fail,
while the deletion lays out only the zone it had read, so a new seat can stay in the corner. `NewSeatsArePlaced` therefore excludes
seats that were moved and deleted (`MovedAndDeleted`).

**Only model-checked**: all liveness (the prover has no rule for fairness here), so `FlagsComeRight`, `SlotIsGivenBack`,
`PaidIsCreditedOrLost`, `AppComesToAgree` and the like; and the counterexamples.
Every invariant the passing runs check is a theorem, too.

## 5. Not modelled

- **Notifications**: `pushToUser` looks for the log row, sends, then writes it, so overlapping calls send
  twice and the later write throws; a reminder exists only in a window of two minutes. Nothing else
  reads its log, so the modules leave its calls out. It is the next module to write.
- **Kiosk endpoint**: six-digit PC codes (no client in use asks for them), toasts and warnings, the QR
  image cache. Telemetry and keys are a map nothing reads.
- **Authentication**: one-time codes by flash call or SMS and codes issued by an administrator (the app
  has no screen for them), the review and development log-ins, the check of a running booking before a deletion.
- **Locks**: the bridge's protocol beyond its outcomes, the test opening, the event list.
- **Failures of the database** in the middle of a request.
- **Wallet**: payment settings and the transaction list.
- **Administration**: administrators' own log-in and password reset, dashboards, acceptance reports, log clean-up,
  feedback, mail: reads and single-statement writes.
- **Phases the code no longer enters** (acceptance, photos, reports), formatting, wording, layout.
- **Legacy Electron kiosk** (superseded by the Windows kiosk) and **deployment files**.

## 6. Plan

1. **`Notifications`**: at most one push per booking and kind when calls do not overlap, a failing tick,
   reminders of extended bookings.
2. **`KioskToasts`**: warnings displaced by toasts and shown once.
3. One-time codes beside calls in `AppLogin`; the booking check of a deletion beside a create.
4. Proofs of what those modules will add.
5. Liveness with overlapping requests.

## 7. Running

    tlc -workers 2 -config MCSeat.cfg MCSeat.tla     # about three minutes
    tlc -workers 2 -config AgentShell.cfg AgentShell.tla
    tlapm Bookings_proofs.tla

`PROJECT.json` names the module and the configuration of each run, the source
lines of each definition, and for each property a mutated definition that violates it.
