------------------------------ MODULE BookingApp ------------------------------
(***************************************************************************)
(* A player books a seat on the phone.  The map, time, summary and payment *)
(* screens share one draft in the store; each screen's effects ask the     *)
(* server for a price, a hold on the seat or its release and do not wait   *)
(* for each other.  The hold is taken when the payment screen opens and    *)
(* given back when it closes.  Meanwhile an administrator edits the price  *)
(* list, and the scheduler frees holds nobody paid for.                    *)
(***************************************************************************)
EXTENDS Integers, FiniteSets, Pricing

CONSTANTS
    Unset,
    FirstList,      \* the price list at the start
    NewIds,         \* the id a window gets that is created by the n-th upset
    Dates,          \* hours of today the player may pick; the first is now
    CustomHours,    \* hours typed in or stepped to
    Offered,        \* bound: packages the player takes
    MaxTurns,       \* bound: changes of the draft, screens left backwards
    MaxRows,        \* bound: bookings the player creates
    MaxUpsets       \* bound: edits of the price list, requests refused or lost, apps killed

FirstIds == {w.id : w \in FirstList.wins}
WindowIds == FirstIds \cup {NewIds[n] : n \in 1..MaxUpsets}

ASSUME BookingAppAssumption ==
    /\ MaxRows \in Nat \ {0} /\ MaxUpsets \in Nat /\ MaxTurns \in Nat
    /\ CustomHours \subseteq 1..12 /\ Dates \subseteq Nat /\ Unset \notin Nat
    /\ IsPriceList(FirstList, FirstIds)
    /\ \A n \in 1..MaxUpsets : NewIds[n] \notin FirstIds
    /\ \A n, m \in 1..MaxUpsets : NewIds[n] = NewIds[m] => n = m
    /\ {"none", "night", "morning"} \cap WindowIds = {}

VARIABLES
    list,       \* the price list in the database
    rows,       \* the player's bookings of the seat
    route,
    selected,   \* the seat is selected on the map
    known,      \* clubPricing: the lists the server sent
    loading,    \* they have been asked for
    picked, hours, package, startAt,    \* the draft
    asking,     \* the quote the time screen waits for; history: the list it was priced by
    quote,      \* priceQuote: its price, and whether it is for the draft
    total,      \* calculatedPrice
    late,       \* history: a quote has replaced the price of the hold by one of another list
    pending,    \* pendingBookingId
    ref,        \* bookingIdRef of the payment screen
    creates,    \* POST /bookings in flight
    refused,    \* bookingError
    pay,        \* POST /pay: how far, its booking, the price on the screen, whether the
                \* screen is still there and the app still runs
    paid,       \* paidRef
    cancels,    \* bookings whose DELETE is in flight
    awaiting,   \* the screen waiting for one of them
    booked,       \* activeBooking: the booking and its status as the phone knows it
    ext,        \* the extension screen: its quote, the choice, whether the call is out
    turns, upsets

checkoutVars == <<list, rows, route, selected, known, loading, picked, hours, package, startAt,
          asking, quote, total, late, pending, ref, creates, refused, pay, paid, cancels, awaiting,
          booked, ext, turns, upsets>>

backend  == <<list, rows>>
draft   == <<picked, hours, package, startAt>>
pricing == <<known, loading>>
quoting == <<asking, quote, total, late>>
holding == <<pending, ref, creates, refused>>
paying  == <<pay, paid>>
leaving == <<cancels, awaiting>>
bounds  == <<turns, upsets>>
booking == <<selected, pricing, draft, quoting, holding, paying, leaving>>

Rows == 1..MaxRows
Slots == 1..2
Now == 20
NoRow == [st |-> "none", hours |-> 0, at |-> 0, price |-> 0, by |-> Unset, shown |-> 0,
          asked |-> FALSE, confirmed |-> FALSE, longer |-> Unset]
NoQuote == [at |-> "none", key |-> Unset, price |-> 0, by |-> Unset]
NoCreate == [at |-> "idle", key |-> Unset, row |-> 0, price |-> 0, live |-> FALSE]
NoPay == [at |-> "idle", row |-> 0, st |-> "none", shown |-> 0, here |-> FALSE, heard |-> FALSE]
NoWait == [who |-> "nobody", row |-> 0]
NotMine == [row |-> 0, st |-> "none"]
NoExt == [at |-> "closed", list |-> Unset, mode |-> "hours", minutes |-> 15, hours |-> 1,
          package |-> "none", sent |-> FALSE]

Holding == {"pending", "paid", "active"}
OnBooking == route \in {"time", "summary", "payment"}     \* the time screen is mounted
FirstFree(r) == rows[r].st = "none" /\ \A q \in 1..(r - 1) : rows[q].st # "none"
Ongoing == {r \in Rows : rows[r].st \in {"paid", "active"}}
OngoingRow == IF Ongoing = {} THEN NotMine
              ELSE LET r == CHOOSE r \in Ongoing : TRUE IN [row |-> r, st |-> rows[r].st]

\* the app opens with no booking, or on a session that has begun, to prolong it
CheckoutInit ==
    /\ list = FirstList /\ upsets = 0 /\ ext = NoExt
    /\ selected = FALSE /\ known = Unset /\ loading = FALSE
    /\ picked = Now /\ hours = 1 /\ package = "none" /\ startAt = Unset
    /\ asking = NoQuote /\ quote = Unset /\ total = 0 /\ late = FALSE
    /\ pending = 0 /\ ref = 0 /\ creates = [s \in Slots |-> NoCreate] /\ refused = FALSE
    /\ pay = NoPay /\ paid = FALSE /\ cancels = {} /\ awaiting = NoWait
    /\ \/ /\ route = "map" /\ booked = NotMine /\ turns = 0 /\ rows = [r \in Rows |-> NoRow]
       \/ /\ route = "active" /\ booked = [row |-> 1, st |-> "active"] /\ turns = MaxTurns
          /\ rows = [[r \in Rows |-> NoRow] EXCEPT
                 ![1] = [NoRow EXCEPT !.st = "active", !.at = Now, !.hours = 1]]

-----------------------------------------------------------------------------
(* What the screens' effects do when the draft changes.                    *)

Packages(k) == TimePackages(IF k = Unset THEN {} ELSE k.wins)
Tiers(k) == IF k = Unset THEN {} ELSE k.pkgs

Key(start, h, p) == [start |-> start, hours |-> h, package |-> p, window |-> TimeWindow(p)]
DraftKey == Key(startAt, hours, package)
Upset == upsets < MaxUpsets /\ upsets' = upsets + 1 /\ UNCHANGED turns
Turn == turns < MaxTurns /\ turns' = turns + 1 /\ UNCHANGED upsets

\* the quote in the store, which may be for another draft by now
Kept(key) == IF quote = Unset THEN Unset ELSE [quote EXCEPT !.fits = @ /\ key = DraftKey]

Ask(key) == [NoQuote EXCEPT !.at = "sent", !.key = key]

\* a new draft asks for a new quote and forgets the one under way; a new start also puts the
\* price of the last quote back
Redraft(d, h, p, k) ==
    LET start == StartDate(d, p, Packages(k), Now) IN
    /\ picked' = d /\ hours' = h /\ package' = p /\ startAt' = start
    /\ asking' = IF Key(start, h, p) # DraftKey /\ selected THEN Ask(Key(start, h, p)) ELSE asking
    /\ quote' = Kept(Key(start, h, p)) /\ UNCHANGED late
    /\ total' = IF start # startAt /\ quote # Unset THEN quote.price ELSE total

OpenTime ==
    LET start == StartDate(Now, package, Packages(known), Now) IN
    /\ route' = "time" /\ picked' = Now /\ startAt' = start
    /\ asking' = IF selected THEN Ask(Key(start, hours, package)) ELSE NoQuote
    /\ quote' = Kept(Key(start, hours, package)) /\ UNCHANGED late
    /\ total' = IF quote # Unset THEN quote.price ELSE total
    /\ loading' = TRUE

Cancelled(s) == IF ~creates[s].live THEN creates[s]
                ELSE IF creates[s].at = "sent" THEN [creates[s] EXCEPT !.live = FALSE] ELSE NoCreate

\* the payment screen asks for a hold and no longer listens for the one it asked for before
TakeHold(key) ==
    /\ \E s \in Slots :
          /\ Cancelled(s) = NoCreate /\ \A t \in 1..(s - 1) : Cancelled(t) # NoCreate
          /\ creates' = [t \in Slots |-> IF t # s THEN Cancelled(t)
                 ELSE [NoCreate EXCEPT !.at = "sent", !.key = key, !.live = TRUE]]
    /\ pending' = 0 /\ ref' = 0 /\ refused' = FALSE

\* the screen waiting for a release goes on: the map to the time screen whatever the answer,
\* the session to the map
Resume(r, ok) ==
    IF awaiting.row # r
    THEN UNCHANGED <<awaiting, pending, booked, route, picked, startAt, quoting, loading>>
    ELSE /\ awaiting' = NoWait
         /\ \/ /\ awaiting.who = "map" /\ pending' = 0 /\ OpenTime
               /\ UNCHANGED booked
            \/ /\ awaiting.who = "session"
               /\ booked' = IF ok THEN NotMine ELSE booked
               /\ route' = IF ok THEN "map" ELSE route
               /\ UNCHANGED <<pending, picked, startAt, quoting, loading>>

-----------------------------------------------------------------------------
(* The server.                                                             *)

Hours(start, length) == start..(start + length - 1)

\* as far as the player's own bookings go
Available(start, length, except) ==
    \A r \in Rows \ {except} :
        rows[r].st \in Holding => Hours(rows[r].at, rows[r].hours) \cap Hours(start, length) = {}

\* a booking that is over keeps what the properties ask about
Closed(r, st) == [NoRow EXCEPT !.st = st, !.asked = rows[r].asked, !.confirmed = rows[r].confirmed]

\* refused: the slot is one's own or another player's, a session is on, or the request was lost
ServeCreate(s) ==
    LET key == creates[s].key IN
    /\ creates[s].at = "sent"
    /\ \/ /\ creates' = [creates EXCEPT ![s] = IF @.live THEN [@ EXCEPT !.at = "no"] ELSE NoCreate]
          /\ UNCHANGED rows
          /\ IF Available(key.start, key.hours, 0) /\ Ongoing = {} THEN Upset ELSE UNCHANGED bounds
       \/ /\ Available(key.start, key.hours, 0) /\ Ongoing = {}
          /\ \E r \in Rows :
                /\ FirstFree(r)
                /\ rows' = [rows EXCEPT ![r] = [NoRow EXCEPT !.st = "pending",
                       !.hours = key.hours, !.at = key.start,
                       !.price = Charge(list, key.hours, key.window), !.by = list]]
                /\ creates' = [creates EXCEPT ![s] =
                       IF @.live THEN [@ EXCEPT !.at = "made", !.row = r,
                                                !.price = Rub(rows'[r].price)] ELSE NoCreate]
          /\ UNCHANGED bounds
    /\ UNCHANGED <<list, route, selected, pricing, draft, quoting, pending, ref, refused, paying,
                   leaving, booked, ext>>

\* refused when money is short, the hold is gone or the request was lost; a booking that begins
\* now begins at once
ServePay ==
    LET r == pay.row IN
    /\ pay.at = "sent"
    /\ \/ /\ pay' = NoPay
          /\ UNCHANGED rows
          /\ IF rows[r].st = "pending" THEN Upset ELSE UNCHANGED bounds
       \/ /\ rows[r].st = "pending" /\ Available(rows[r].at, rows[r].hours, r)
          /\ rows' = [rows EXCEPT ![r].st = IF rows[r].at <= Now THEN "active" ELSE "paid",
                                  ![r].shown = pay.shown]
          /\ pay' = IF pay.heard THEN [pay EXCEPT !.at = "yes", !.st = rows'[r].st] ELSE NoPay
          /\ UNCHANGED bounds
    /\ UNCHANGED <<list, route, selected, pricing, draft, quoting, holding, paid, leaving,
                   booked, ext>>

\* pending and paid bookings are released, any other is refused
Release(r, answered) ==
    /\ r \in cancels
    /\ cancels' = cancels \ {r}
    /\ rows' = IF rows[r].st \in {"pending", "paid"}
               THEN [rows EXCEPT ![r] = Closed(r, "cancelled")] ELSE rows
    /\ Resume(r, answered /\ rows[r].st \in {"pending", "paid"})
    /\ UNCHANGED <<list, selected, known, hours, package, ref, creates, refused, paying, ext>>

ServeCancel(r) == Release(r, TRUE) /\ UNCHANGED bounds
LoseReleased(r) == Release(r, FALSE) /\ Upset

LoseCancel(r) ==
    /\ r \in cancels /\ cancels' = cancels \ {r} /\ Upset
    /\ Resume(r, FALSE)
    /\ UNCHANGED <<backend, selected, known, hours, package, ref, creates, refused, paying, ext>>

\* the scheduler: a hold runs out, a session begins, ends, or the player never came
Scheduler(r) ==
    /\ \/ rows[r].st = "pending" /\ rows' = [rows EXCEPT ![r] = Closed(r, "cancelled")]
       \/ rows[r].st = "paid" /\ rows' = [rows EXCEPT ![r].st = "active"]
       \/ rows[r].st \in {"paid", "active"} /\ rows' = [rows EXCEPT ![r] = Closed(r, "over")]
    /\ UNCHANGED <<list, route, booking, booked, bounds, ext>>

EditedPackages ==
    {CreatePackage(list, 5, 20, zoned) : zoned \in BOOLEAN}
    \cup UNION {{UpdatePackage(list, p, 8, 10, TRUE), DeletePackage(list, p)} : p \in list.pkgs}

EditedWindows ==
    {CreateWindow(list, NewIds[upsets + 1], 14, 18, 10, TRUE)}
    \cup UNION {{UpdateWindow(list, w, 22, 6, 30, TRUE), UpdateWindow(list, w, 22, 6, 30, FALSE),
                 DeleteWindow(list, w)} : w \in list.wins}

\* what one press of the page of prices may ask for
Edited == EditedPackages \cup EditedWindows \cup {UpdateZone(list, 200)}

Edit ==
    /\ Upset /\ list' \in Edited
    /\ UNCHANGED <<rows, route, booking, booked, ext>>

\* the server prices what was asked for, or refuses; the request may be lost
ServeQuote ==
    LET key == asking.key IN
    /\ asking.at = "sent"
    /\ \/ /\ asking' = [asking EXCEPT !.at = "no"]
          /\ IF Available(key.start, key.hours, 0) THEN Upset ELSE UNCHANGED bounds
       \/ /\ Available(key.start, key.hours, 0) /\ UNCHANGED bounds
          /\ asking' = [asking EXCEPT !.at = "priced", !.by = list,
                                      !.price = Quote(list, key.hours, key.window)]
    /\ UNCHANGED <<backend, route, selected, pricing, draft, quote, total, late, holding, paying,
                   leaving, booked, ext>>

-----------------------------------------------------------------------------
(* Answers that reach the phone, or do not.                                *)

\* a new price becomes the total, whatever screen is on top; a refusal leaves the last total
QuoteAnswered ==
    /\ asking' = NoQuote
    /\ \/ asking.at = "no" /\ quote' = Unset /\ UNCHANGED <<total, late>>
       \/ /\ asking.at = "priced"
          /\ quote' = [fits |-> asking.key = DraftKey, price |-> asking.price]
          /\ IF quote # Unset /\ quote.price = asking.price THEN UNCHANGED <<total, late>>
             ELSE total' = asking.price /\ late' = (ref # 0 /\ asking.by # rows[ref].by)
    /\ UNCHANGED <<backend, route, selected, pricing, draft, holding, paying, leaving, booked,
                   bounds, ext>>

\* The payment screen keeps the hold it has. (a fault the runs must notice).
PricingArrivesAside ==
    /\ loading /\ loading' = FALSE /\ known' = Sent(list)
    /\ IF ~OnBooking THEN UNCHANGED <<draft, quoting, holding>>
       ELSE /\ Redraft(picked, hours, package, Sent(list))
            /\ UNCHANGED holding
    /\ UNCHANGED <<backend, route, selected, paying, leaving, booked, bounds, ext>>

\* the lists may move the start of the package the player has chosen, whatever screen is on top
PricingArrives ==
    /\ loading /\ loading' = FALSE /\ known' = Sent(list)
    /\ IF ~OnBooking THEN UNCHANGED <<draft, quoting, holding>>
       ELSE /\ Redraft(picked, hours, package, Sent(list))
            /\ IF route = "payment" /\ startAt' # startAt /\ selected
               THEN TakeHold(Key(startAt', hours, package))
               ELSE UNCHANGED holding
    /\ UNCHANGED <<backend, route, selected, paying, leaving, booked, bounds, ext>>

LosePricing ==
    /\ loading /\ loading' = FALSE /\ Upset
    /\ UNCHANGED <<backend, route, selected, known, draft, quoting, holding, paying, leaving,
                   booked, ext>>

\* The answer sets the id and not the price. (a fault the runs must notice).
CreateAnsweredQuietly(s) ==
    LET c == creates[s] IN
    /\ \/ /\ c.at = "made"
          /\ pending' = c.row /\ ref' = c.row
          /\ UNCHANGED <<refused, total, late>>
       \/ c.at = "no" /\ refused' = TRUE /\ UNCHANGED <<pending, ref, total, late>>
    /\ creates' = [creates EXCEPT ![s] = NoCreate]
    /\ UNCHANGED <<backend, route, selected, pricing, draft, asking, quote, paying, leaving, booked,
                   bounds, ext>>

CreateAnswered(s) ==
    LET c == creates[s] IN
    /\ \/ /\ c.at = "made"
          /\ pending' = c.row /\ ref' = c.row /\ total' = c.price /\ late' = FALSE
          /\ UNCHANGED refused
       \/ c.at = "no" /\ refused' = TRUE /\ UNCHANGED <<pending, ref, total, late>>
    /\ creates' = [creates EXCEPT ![s] = NoCreate]
    /\ UNCHANGED <<backend, route, selected, pricing, draft, asking, quote, paying, leaving, booked,
                   bounds, ext>>

LoseCreate(s) ==
    /\ creates[s].at = "made" /\ Upset
    /\ creates' = [creates EXCEPT ![s] = NoCreate] /\ refused' = TRUE
    /\ UNCHANGED <<backend, route, selected, pricing, draft, quoting, pending, ref, paying, leaving,
                   booked, ext>>

PayAnswered ==
    /\ pay.at = "yes" /\ pay' = [pay EXCEPT !.at = "profile"] /\ paid' = (paid \/ pay.here)
    /\ UNCHANGED <<backend, route, selected, pricing, draft, quoting, holding, leaving, booked,
                   bounds, ext>>

\* the answer, or the profile asked for next, is lost: an alert, and the draft stays
LosePay ==
    /\ pay.at \in {"yes", "profile"} /\ Upset /\ pay' = NoPay
    /\ UNCHANGED <<backend, route, selected, pricing, draft, quoting, holding, paid, leaving,
                   booked, ext>>

\* The draft is cleared but for the id of the booking. (a fault the runs must notice).
PaidKeepsId ==
    /\ pay.at = "profile"
    /\ rows' = [rows EXCEPT ![pay.row].confirmed =
                             rows[pay.row].st # "cancelled" /\ pay.row \notin cancels]
    /\ booked' = [row |-> pay.row, st |-> pay.st]
    /\ pay' = NoPay /\ selected' = FALSE /\ package' = "none" /\ quote' = Unset /\ total' = 0
    /\ ref' = 0 /\ UNCHANGED pending /\ refused' = FALSE
    /\ creates' = [s \in Slots |-> Cancelled(s)]
    /\ asking' = NoQuote /\ UNCHANGED late
    /\ \/ route' = "active" /\ UNCHANGED bounds
       \/ Upset /\ UNCHANGED route
    /\ UNCHANGED <<list, pricing, picked, hours, startAt, paid, leaving, ext>>

\* clearDraft leaves the screens below without a seat: the hold and the quote they wait for are
\* forgotten; if the map cannot be reloaded the screen stays
Paid ==
    /\ pay.at = "profile"
    /\ rows' = [rows EXCEPT ![pay.row].confirmed =
                             rows[pay.row].st # "cancelled" /\ pay.row \notin cancels]
    /\ booked' = [row |-> pay.row, st |-> pay.st]
    /\ pay' = NoPay /\ selected' = FALSE /\ package' = "none" /\ quote' = Unset /\ total' = 0
    /\ pending' = 0 /\ ref' = 0 /\ refused' = FALSE
    /\ creates' = [s \in Slots |-> Cancelled(s)]
    /\ asking' = NoQuote /\ UNCHANGED late
    /\ \/ route' = "active" /\ UNCHANGED bounds
       \/ Upset /\ UNCHANGED route
    /\ UNCHANGED <<list, pricing, picked, hours, startAt, paid, leaving, ext>>

-----------------------------------------------------------------------------
(* The player.                                                             *)

SelectSeat ==
    /\ route = "map" /\ awaiting = NoWait /\ selected' = ~selected
    /\ UNCHANGED <<backend, route, pricing, draft, quoting, holding, paying, leaving, booked,
                   bounds, ext>>

\* a booking still pending in the store is released first
GoTime ==
    /\ route = "map" /\ awaiting = NoWait /\ selected
    /\ \/ /\ pending = 0 /\ OpenTime
          /\ UNCHANGED leaving
       \/ /\ pending # 0 /\ cancels' = cancels \cup {pending}
          /\ awaiting' = [who |-> "map", row |-> pending]
          /\ UNCHANGED <<route, picked, startAt, quoting, loading>>
    /\ UNCHANGED <<backend, selected, known, hours, package, holding, paying, booked, bounds, ext>>

ChangeDraft(d, h, p) ==
    /\ Turn /\ route = "time" /\ Redraft(d, h, p, known)
    /\ UNCHANGED <<backend, route, selected, pricing, holding, paying, leaving, booked, ext>>

SelectHours == \E h \in PresetHours(Tiers(known)) \cup CustomHours : ChangeDraft(picked, h, "none")
PickDate == \E d \in Dates : ChangeDraft(d, hours, "none")
SelectPackage ==
    \E p \in {p \in Packages(known) : p.id \in Offered} :
        IF package = p.id THEN ChangeDraft(picked, hours, "none")
        ELSE ChangeDraft(picked, p.hours, p.id)

Continue ==
    /\ route = "time" /\ asking = NoQuote /\ route' = "summary"
    /\ UNCHANGED <<backend, booking, booked, bounds, ext>>

Checkout ==
    /\ route = "summary" /\ selected /\ route' = "payment" /\ \E r \in Rows : FirstFree(r)
    /\ TakeHold(DraftKey) /\ paid' = FALSE
    /\ UNCHANGED <<backend, selected, pricing, draft, quoting, pay, leaving, booked, bounds, ext>>

\* the button is dead until the hold is there
TapPay ==
    /\ route = "payment" /\ ref # 0 /\ ~refused /\ pay = NoPay
    /\ \A s \in Slots : ~creates[s].live
    /\ pay' = [at |-> "sent", row |-> ref, st |-> "none", shown |-> IF late THEN 0 ELSE total,
               here |-> TRUE, heard |-> TRUE]
    /\ UNCHANGED <<backend, route, selected, pricing, draft, quoting, holding, paid, leaving,
                   booked,
                   bounds, ext>>

\* the clean-up of the payment screen: what it believes unpaid is released
LeavePayment ==
    /\ Turn /\ route = "payment" /\ route' = "summary"
    /\ IF ~paid /\ ref # 0 THEN cancels' = cancels \cup {ref} /\ pending' = 0
                           ELSE UNCHANGED <<cancels, pending>>
    /\ creates' = [s \in Slots |-> Cancelled(s)] /\ ref' = 0 /\ refused' = FALSE /\ paid' = FALSE
    /\ pay' = [pay EXCEPT !.here = FALSE]
    /\ UNCHANGED <<backend, selected, pricing, draft, quoting, awaiting, booked, ext>>

BackToTime ==
    /\ route = "summary" /\ route' = "time"
    /\ loading' = TRUE
    /\ UNCHANGED <<backend, selected, known, draft, quoting, holding, paying, leaving, booked,
                   bounds, ext>>

BackToMap ==
    /\ route = "time" /\ route' = "map" /\ asking' = NoQuote
    /\ UNCHANGED <<backend, selected, pricing, draft, quote, total, late, holding, paying,
                   leaving, booked,
                   bounds, ext>>

-----------------------------------------------------------------------------
(* The session's screen.                                                    *)

OpenSession ==
    /\ route = "map" /\ awaiting = NoWait /\ booked # NotMine /\ route' = "active"
    /\ UNCHANGED <<backend, booking, booked, bounds, ext>>

CloseSession ==
    /\ Turn /\ route = "active" /\ awaiting = NoWait /\ route' = "map"
    /\ UNCHANGED <<backend, booking, booked, ext>>

Refresh ==
    /\ route \in {"map", "active"} /\ booked' = OngoingRow
    /\ UNCHANGED <<backend, route, booking, bounds, ext>>

CancelBooking ==
    /\ route = "active" /\ booked.st = "paid" /\ awaiting = NoWait
    /\ rows' = [rows EXCEPT ![booked.row].asked = TRUE]
    /\ cancels' = cancels \cup {booked.row} /\ awaiting' = [who |-> "session", row |-> booked.row]
    /\ UNCHANGED <<list, route, selected, pricing, draft, quoting, holding, paying,
                   booked, bounds, ext>>

Finish ==
    /\ route = "active" /\ booked.st = "active" /\ rows[booked.row].st = "active"
    /\ awaiting = NoWait
    /\ rows' = [rows EXCEPT ![booked.row] = Closed(booked.row, "over")]
    /\ booked' = NotMine /\ route' = "map"
    /\ UNCHANGED <<list, booking, bounds, ext>>

-----------------------------------------------------------------------------
(* The screen that prolongs the session.                                   *)

\* bound: in an app that has not been on the time screen and waits for no release
OpenExtend ==
    /\ route = "active" /\ booked.st = "active" /\ startAt = Unset /\ awaiting = NoWait
    /\ route' = "extend"
    /\ ext' = [NoExt EXCEPT !.at = "asking"]
    /\ UNCHANGED <<backend, booking, booked, bounds>>

\* a quote that fails leaves no presets and the price the screen was born with
QuoteExtend ==
    /\ ext.at = "asking"
    /\ \/ rows[booked.row].st = "active" /\ ext' = [ext EXCEPT !.at = "quoted", !.list = list]
          /\ UNCHANGED bounds
       \/ rows[booked.row].st # "active" /\ ext' = [ext EXCEPT !.at = "failed"] /\ UNCHANGED bounds
       \/ ext' = [ext EXCEPT !.at = "failed"] /\ Upset
    /\ UNCHANGED <<backend, route, booking, booked>>

Choosing(e) ==
    /\ route = "extend" /\ ~ext.sent /\ ext' = e
    /\ UNCHANGED <<backend, route, booking, booked, bounds>>

ChooseMode == \E m \in {"minutes", "hours"} : Choosing([ext EXCEPT !.mode = m])

ChooseMinutes ==
    /\ ext.at = "quoted" /\ ext.mode = "minutes"
    /\ \E m \in {15, 55} : Choosing([ext EXCEPT !.minutes = m])

\* Hours chosen beside a package (a fault the runs must notice).
ChooseHoursBeside ==
    /\ ext.at = "quoted" /\ ext.mode = "hours"
    /\ \E h \in HourPresets(ext.list) : Choosing([ext EXCEPT !.hours = h])

ChooseHours ==
    /\ ext.at = "quoted" /\ ext.mode = "hours"
    /\ \E h \in HourPresets(ext.list) : Choosing([ext EXCEPT !.hours = h, !.package = "none"])

\* a second tap on a package gives it up
ChoosePackage ==
    /\ ext.at = "quoted" /\ ext.mode = "hours"
    /\ \E w \in WindowPresets(ext.list) :
          Choosing(IF ext.package = w.id THEN [ext EXCEPT !.hours = 1, !.package = "none"]
                   ELSE [ext EXCEPT !.hours = w.hours, !.package = w.id])

\* what the server makes of the request
ExtensionCharge(l) ==
    IF ext.mode = "minutes" THEN MinuteCharge(l, ext.minutes)
    ELSE Charge(l, ext.hours, ext.package)

\* the amount on the button: of the package chosen, or of the hours
PayAmount ==
    IF ext.at = "quoted" /\ ext.mode = "minutes" THEN Rub(MinuteCharge(ext.list, ext.minutes))
    ELSE IF ext.at = "quoted" /\ ext.package # "none"
    THEN LET w == CHOOSE w \in WindowPresets(ext.list) : w.id = ext.package
         IN Quote(ext.list, w.hours, w.id)
    ELSE IF ext.at = "quoted" THEN Quote(ext.list, ext.hours, "none")
    ELSE IF ext.mode = "minutes" THEN Round(150 * ext.minutes, 60) ELSE 150 * ext.hours

PayExtend ==
    /\ route = "extend" /\ ext.at \in {"quoted", "failed"} /\ ~ext.sent
    /\ ext' = [ext EXCEPT !.sent = TRUE]
    /\ UNCHANGED <<backend, route, booking, booked, bounds>>

\* refused for lack of money, or when the session is over; no look at the seat's other bookings
ExtendSession ==
    LET r == booked.row IN
    /\ ext.sent
    /\ \/ ext' = [ext EXCEPT !.sent = FALSE] /\ UNCHANGED <<rows, route>>
       \/ /\ rows[r].st = "active" /\ rows[r].longer = Unset
          /\ rows' = [rows EXCEPT
                 ![r].hours = @ + (IF ext.mode = "minutes" THEN 1 ELSE ext.hours),
                 ![r].longer = [shown |-> PayAmount, charged |-> Rub(ExtensionCharge(list)),
                                same |-> ext.at = "quoted" /\ ext.list = list]]
          /\ ext' = NoExt /\ route' = "active"
    /\ UNCHANGED <<list, booking, booked, bounds>>

CloseExtend ==
    /\ route = "extend" /\ ~ext.sent /\ ext' = NoExt /\ route' = "active"
    /\ UNCHANGED <<backend, booking, booked, bounds>>

-----------------------------------------------------------------------------
\* The app is killed and started again: the store is empty, requests already sent live on.
Kill ==
    /\ Upset
    /\ route' = "map" /\ selected' = FALSE /\ known' = Unset /\ loading' = FALSE
    /\ picked' = Now /\ hours' = 1 /\ package' = "none" /\ startAt' = Unset
    /\ asking' = NoQuote /\ quote' = Unset /\ total' = 0 /\ late' = FALSE
    /\ pending' = 0 /\ ref' = 0 /\ creates' = [s \in Slots |-> Cancelled(s)] /\ refused' = FALSE
    /\ pay' = IF pay.at = "sent" THEN [pay EXCEPT !.here = FALSE, !.heard = FALSE] ELSE NoPay
    /\ paid' = FALSE /\ awaiting' = NoWait /\ booked' = OngoingRow /\ ext' = NoExt
    /\ UNCHANGED <<backend, cancels>>

Server ==
    \/ ServePay \/ ServeQuote \/ Edit
    \/ \E s \in Slots : ServeCreate(s)
    \/ \E r \in Rows : ServeCancel(r) \/ Scheduler(r)

Arrivals ==
    \/ QuoteAnswered \/ PricingArrives \/ PayAnswered \/ Paid
    \/ \E s \in Slots : CreateAnswered(s)

Losses ==
    \/ LosePricing \/ LosePay \/ Kill
    \/ \E s \in Slots : LoseCreate(s)
    \/ \E r \in Rows : LoseCancel(r) \/ LoseReleased(r)

Player ==
    \/ SelectSeat \/ GoTime \/ SelectHours \/ PickDate \/ SelectPackage \/ Continue
    \/ Checkout \/ TapPay \/ LeavePayment \/ BackToTime \/ BackToMap
    \/ OpenSession \/ CloseSession \/ Refresh \/ CancelBooking \/ Finish

Extension ==
    \/ OpenExtend \/ QuoteExtend \/ ChooseMode \/ ChooseMinutes \/ ChooseHours \/ ChoosePackage
    \/ PayExtend \/ ExtendSession \/ CloseExtend

CheckoutNext == Server \/ Arrivals \/ Losses \/ Player \/ Extension

CheckoutSpec == CheckoutInit /\ [][CheckoutNext]_checkoutVars

-----------------------------------------------------------------------------
(* Properties                                                              *)

BookingStatuses == {"none", "pending", "paid", "active", "over", "cancelled"}
RowTypes ==
    [st : BookingStatuses, hours : Nat, at : Nat, price : Nat, by : {Unset} \cup Lists(WindowIds),
     shown : Nat, asked : BOOLEAN, confirmed : BOOLEAN,
     longer : {Unset} \cup [shown : Nat, charged : Nat, same : BOOLEAN]]
PackageIds == WindowIds \cup {"none", "night", "morning"}
Keys == [start : Nat, hours : 1..24, package : PackageIds, window : WindowIds \cup {"none"}]
QuoteTypes == [at : {"none", "sent", "priced", "no"}, key : {Unset} \cup Keys, price : Nat,
               by : {Unset} \cup Lists(WindowIds)]
CreateTypes == [at : {"idle", "sent", "made", "no"}, key : {Unset} \cup Keys, row : {0} \cup Rows,
                price : Nat, live : BOOLEAN]
PayTypes == [at : {"idle", "sent", "yes", "profile"}, row : {0} \cup Rows, st : BookingStatuses,
             shown : Nat, here : BOOLEAN, heard : BOOLEAN]
ExtTypes == [at : {"closed", "asking", "quoted", "failed"}, list : {Unset} \cup Lists(WindowIds),
             mode : {"minutes", "hours"}, minutes : {15, 55}, hours : 1..24,
             package : WindowIds \cup {"none"}, sent : BOOLEAN]

\* Type invariant: every variable of the server and of the phone holds a value the code can hold.
CheckoutTypeOK ==
    /\ IsPriceList(list, WindowIds)
    /\ rows \in [Rows -> RowTypes]
    /\ route \in {"map", "time", "summary", "payment", "active", "extend"}
    /\ {selected, loading, refused, paid, late} \subseteq BOOLEAN
    /\ known \in {Unset} \cup [pkgs : SUBSET Packs, wins : SUBSET Windows(WindowIds)]
    /\ picked \in Nat /\ hours \in 1..24 /\ package \in PackageIds /\ startAt \in {Unset} \cup Nat
    /\ asking \in QuoteTypes /\ quote \in {Unset} \cup [fits : BOOLEAN, price : Nat]
    /\ total \in Nat /\ {pending, ref} \subseteq {0} \cup Rows /\ cancels \subseteq Rows
    /\ creates \in [Slots -> CreateTypes] /\ pay \in PayTypes
    /\ awaiting \in [who : {"nobody", "map", "session"}, row : {0} \cup Rows]
    /\ booked \in [row : {0} \cup Rows, st : BookingStatuses]
    /\ ext \in ExtTypes
    /\ turns \in 0..MaxTurns /\ upsets \in 0..MaxUpsets

\* What a player is charged is what the payment screen showed when Pay was tapped, although
\* the create answer and a late quote both write that number (time.tsx, payment.tsx), unless the
\* list was edited between the two and the quote of the old one came last.
ChargedAsShown == \A r \in Rows : rows[r].shown # 0 => Rub(rows[r].price) = rows[r].shown

\* Past the time screen the quote on display, and the hold that will be paid, are for the draft
\* on display: a late price list changes all of them or none (the effects' dependency lists).
DraftInStep ==
    /\ route \in {"summary", "payment"} /\ asking = NoQuote /\ quote # Unset /\ selected
         => quote.fits
    /\ route = "payment" /\ ref # 0 /\ rows[ref].st \in Holding
         => rows[ref].hours = hours /\ rows[ref].at = startAt

\* Once the app has confirmed a payment, and had not already let the booking go, nothing it does
\* on its own cancels the booking: clearDraft leaves no id for the map or a screen to release.
ConfirmedStays ==
    \A r \in Rows : rows[r].confirmed /\ rows[r].st = "cancelled" => rows[r].asked

\* An extension costs what its button said, when the list is still the one that was quoted.
ExtendedAsShown ==
    \A r \in Rows : rows[r].longer # Unset /\ rows[r].longer.same
        => rows[r].longer.shown = rows[r].longer.charged

\* The price the phone works out for hours typed in is the server's, when its list is current,
\* the zone has none of its own and the packages stand in the order of their hours - but for a
\* price that ends in half a ruble, which the phone's floats may round down: seven hours at 150
\* less 7 % are 976.50, and the phone says 976 where the server says 977.
CustomPriceAgrees ==
    known # Unset /\ known = Sent(list) /\ known.pkgs # {}
    /\ Chosen(list.pkgs) = Global(list.pkgs)
    /\ (\A p, q \in known.pkgs : Before(p, q) => p.min < q.min)
      => \A h \in 1..12 :
             \A price \in BookingPrices(list.rate, h, TierDiscount(known.pkgs, h)) :
                 Agrees(price, Charge(list, h, "none"))

\* "When the screen is left without payment, the booking is cancelled" (payment.tsx:76): a
\* booking that is paid is not cancelled unless the player asks for it.
LeavingCancelsOnlyUnpaid ==
    [][\A r \in Rows :
           rows[r].st = "paid" /\ rows'[r].st = "cancelled" => rows[r].asked]_checkoutVars

-----------------------------------------------------------------------------
(* The invariant that the safety properties rest on.                       *)

Live(s) == creates[s].live
Made(s) == creates[s].at = "made"

\* Where requests can be under way, and what is empty before the time screen has been seen.
QuotesOnBooking == asking = NoQuote \/ (asking.at # "none" /\ OnBooking /\ selected)
StartedOnBooking == OnBooking => startAt # Unset
NothingBeforeStart ==
    startAt = Unset => pending = 0 /\ (pay.at = "idle" \/ (pay.at = "sent" /\ ~pay.heard))
HoldsOnPayment == route # "payment" \/ ~selected => ref = 0 /\ \A s \in Slots : ~Live(s)
AnswersHeard == \A s \in Slots : creates[s].at \in {"made", "no"} => Live(s)
SlotsNamed == \A s \in Slots : creates[s].at = "sent" => creates[s].key \in Keys
WaitingScreens ==
    /\ awaiting.who = "map" => route \in {"map", "active"} /\ startAt # Unset
    /\ awaiting.who = "session" => route = "active"
ExtendScreen ==
    /\ ext.at # "closed" \/ ext.sent => route = "extend"
    /\ route = "extend" => startAt = Unset /\ awaiting = NoWait /\ booked.st = "active"
BookedExists == booked.st # "none" => booked.row \in Rows

ScreensInStep ==
    /\ QuotesOnBooking /\ StartedOnBooking /\ NothingBeforeStart /\ HoldsOnPayment
    /\ AnswersHeard /\ SlotsNamed /\ WaitingScreens /\ ExtendScreen /\ BookedExists

\* The bookings the app holds on to exist; a payment that was answered has been made.
RowsExist ==
    /\ ref # 0 => rows[ref].st # "none"
    /\ \A s \in Slots : Made(s) => creates[s].row \in Rows /\ rows[creates[s].row].st # "none"
    /\ pay.at # "idle" => pay.row \in Rows /\ rows[pay.row].st # "none"
    /\ pay.at \in {"yes", "profile"} => rows[pay.row].st # "pending"

\* The app has let go of a confirmed booking: nothing is left that could release it.
ConfirmedIsLetGo ==
    \A r \in Rows : rows[r].confirmed /\ ~rows[r].asked =>
        /\ rows[r].st \in {"paid", "active", "over"}
        /\ r \notin cancels /\ pending # r /\ ref # r
        /\ \A s \in Slots : ~(Made(s) /\ creates[s].row = r)

\* Quotes and holds under way are for the draft.
RequestsFit ==
    /\ asking # NoQuote => asking.key = DraftKey
    /\ OnBooking /\ selected /\ asking = NoQuote /\ quote # Unset => quote.fits
    /\ \A s \in Slots : Live(s) => creates[s].key = DraftKey
    /\ \A s \in Slots : Made(s) /\ rows[creates[s].row].st \in Holding =>
           /\ rows[creates[s].row].hours = creates[s].key.hours
           /\ rows[creates[s].row].at = creates[s].key.start
    /\ ref # 0 /\ rows[ref].st \in Holding => rows[ref].hours = hours /\ rows[ref].at = startAt

\* Every price under way is the charge by the list it was computed from.
PricesAreCharges ==
    /\ asking.at = "priced" => asking.price = Quote(asking.by, asking.key.hours, asking.key.window)
    /\ \A s \in Slots : Made(s) /\ rows[creates[s].row].st = "pending" =>
           LET c == creates[s] row == rows[c.row] IN
           /\ row.price = Charge(row.by, c.key.hours, c.key.window)
           /\ c.price = Rub(row.price)
    /\ ref # 0 /\ rows[ref].st = "pending" =>
           /\ rows[ref].price = Charge(rows[ref].by, hours, TimeWindow(package))
           /\ late \/ total = Rub(rows[ref].price)
    /\ pay.at = "sent" /\ pay.shown # 0 /\ rows[pay.row].st = "pending" =>
           pay.shown = Rub(rows[pay.row].price)

\* The hours of a chosen extension package are the package's.
PackageIsOffered ==
    /\ ext.at = "quoted" => IsPriceList(ext.list, WindowIds)
    /\ ext.package # "none" =>
           /\ ext.at = "quoted"
           /\ \E w \in WindowPresets(ext.list) : w.id = ext.package /\ w.hours = ext.hours

\* A window that will be created has an id of its own.
IdsAreSpent == \A w \in list.wins : w.id \in FirstIds \cup {NewIds[n] : n \in 1..upsets}

CheckoutInv ==
    /\ CheckoutTypeOK /\ ScreensInStep /\ RowsExist /\ ConfirmedIsLetGo /\ RequestsFit
    /\ PricesAreCharges /\ PackageIsOffered /\ IdsAreSpent
    /\ ChargedAsShown /\ ExtendedAsShown
=============================================================================
