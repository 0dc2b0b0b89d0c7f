--------------------------- MODULE BookingTables ----------------------------
(***************************************************************************)
(* The database rows that the booking handlers work on, the row each       *)
(* handler writes, and the properties of the tables.  Bookings runs the    *)
(* handlers one at a time on these tables; BookingRequests interleaves     *)
(* them at their awaits.                                                   *)
(***************************************************************************)
EXTENDS SessionRules, FiniteSets

CONSTANTS
    Users,
    Seats,
    Durations,      \* lengths a booking may be created with
    Additions,      \* lengths a session may be extended by
    Price,          \* quoteForSeat: the price of each length
    Adjustments,    \* signed amounts an administrator applies
    MaxBookings,    \* bound: rows ever inserted
    MaxNow,         \* bound: the last tick
    MaxEnd,         \* bound: the latest end of an extended session
    MaxBalance      \* bound: the largest balance topped up or adjusted to

ASSUME TablesAssumption ==
    /\ Users # {} /\ Seats # {}
    /\ Durations \subseteq Nat \ {0}
    /\ Additions \subseteq Nat \ {0}
    /\ Price \in [Durations \cup Additions -> Nat]
    /\ Adjustments \subseteq Int
    /\ MaxBookings \in Nat \ {0} /\ MaxNow \in Nat /\ MaxEnd \in Int /\ MaxBalance \in Int

VARIABLES
    now,
    bookings,   \* the booking table, by id; ids follow createdAt
    balance,    \* Wallet.balance
    ledger,     \* sum of the wallet's Transaction rows
    charge      \* the Transaction rows that name a booking: payments, extensions, their sum

tables == <<now, bookings, balance, ledger, charge>>

BookingIds == 1..MaxBookings

Row == [user : Users, seat : Seats, status : Statuses \cup {"none"}, phase : Phases,
        startAt : Int, endAt : Int, createdAt : Int, duration : Nat, price : Nat,
        started : BOOLEAN]

\* An id not inserted yet: only its status is ever looked at.
EmptyRow == [user |-> CHOOSE u \in Users : TRUE, seat |-> CHOOSE s \in Seats : TRUE,
             status |-> "none", phase |-> "awaiting_arrival", startAt |-> 0, endAt |-> 0,
             createdAt |-> 0, duration |-> 0, price |-> 0, started |-> FALSE]

TablesOK ==
    /\ now \in Nat
    /\ bookings \in [BookingIds -> Row]
    /\ balance \in [Users -> Int]
    /\ ledger \in [Users -> Int]
    /\ charge \in [BookingIds -> [payments : Nat, extensions : Nat, sum : Nat]]

TablesInit ==
    /\ now = 0
    /\ bookings = [b \in BookingIds |-> EmptyRow]
    /\ balance = [u \in Users |-> 0]
    /\ ledger = [u \in Users |-> 0]
    /\ charge = [b \in BookingIds |-> [payments |-> 0, extensions |-> 0, sum |-> 0]]

-----------------------------------------------------------------------------
(* Faults the runs must notice: each replaces the definition it names.      *)

\* SlotFree, with unpaid bookings overlooked.
SlotFreeOfPaid(bk, s, from, to, except) ==
    ~\E b \in BookingIds \ {except} :
        bk[b].seat = s /\ bk[b].status \in {"paid", "active"} /\ Overlaps(bk[b], from, to)

\* Cancellable, refusing only what has been completed or cancelled.
CancellableUnlessEnded(r) == r.status \notin {"none", "completed", "cancelled"}

\* Extended, without the new total price.
ExtendedUnpriced(old, read, d) ==
    [old EXCEPT !.endAt = read.endAt + d, !.duration = read.duration + d]

\* Book, without the Transaction row of a debit.
BookUnlogged(u, amount) ==
    /\ balance' = [balance EXCEPT ![u] = @ + amount]
    /\ ledger' = IF amount < 0 THEN ledger ELSE [ledger EXCEPT ![u] = @ + amount]

-----------------------------------------------------------------------------
(* What the handlers read.                                                 *)

\* assertSeatAvailableForSlot: no other live row of the seat overlaps.
SlotFree(bk, s, from, to, except) ==
    ~\E b \in BookingIds \ {except} :
        bk[b].seat = s /\ Live(bk[b]) /\ Overlaps(bk[b], from, to)

\* getActive: the newest ongoing booking of the user.
IsActiveOf(bk, u, b) ==
    /\ bk[b].user = u /\ Ongoing(bk[b], now)
    /\ ~\E c \in BookingIds : c > b /\ bk[c].user = u /\ Ongoing(bk[c], now)

NextId(bk, b) == bk[b].status = "none" /\ \A c \in 1..(b - 1) : bk[c].status # "none"

Payable(r) == r.status = "pending_payment"

Affords(u, amount) == balance[u] >= amount

Playing(r) == Ongoing(r, now) /\ r.status = "active" /\ r.phase = "playing"

Cancellable(r) == r.status \in {"pending_payment", "paid"}

-----------------------------------------------------------------------------
(* What the handlers write.                                                *)

NewRow(u, s, from, d) ==
    [user |-> u, seat |-> s, status |-> "pending_payment", phase |-> "awaiting_arrival",
     startAt |-> from, endAt |-> from + d, createdAt |-> now, duration |-> d,
     price |-> Price[d], started |-> FALSE]

\* payFromWallet: playing at once when the slot has begun.
PaidRow(r) ==
    IF now >= r.startAt THEN Activate(r)
    ELSE [r EXCEPT !.status = "paid",
                   !.phase = IF InDoorWindow(r, now) THEN "arrival" ELSE "awaiting_arrival"]

\* extendSession updates these columns, computed from the row it had read.
Extended(old, read, d) ==
    [old EXCEPT !.endAt = read.endAt + d, !.duration = read.duration + d,
                !.price = read.price + Price[d]]

\* A wallet update and its Transaction row, in one database transaction.
Book(u, amount) ==
    /\ balance' = [balance EXCEPT ![u] = @ + amount]
    /\ ledger' = [ledger EXCEPT ![u] = @ + amount]

\* The debit for a booking and the row with externalId = the booking's id.
TakePayment(b, r) ==
    /\ Book(r.user, -r.price)
    /\ charge' = [charge EXCEPT ![b].payments = @ + 1, ![b].sum = @ + r.price]

TakeExtension(b, r, d) ==
    /\ Book(r.user, -Price[d])
    /\ charge' = [charge EXCEPT ![b].extensions = @ + 1, ![b].sum = @ + Price[d]]

-----------------------------------------------------------------------------
(* Properties of the tables.                                               *)

\* Every change of a balance has its Transaction row: pay, extend, top-up and the
\* administrator's correction agree; and whoever debits a wallet has looked that
\* it holds enough ("the balance cannot be negative").
BalanceIsLedger == \A u \in Users : balance[u] = ledger[u] /\ balance[u] >= 0

\* The wallet rows that name a booking add up to its total price, however it
\* was extended, cancelled or ended, and an unpaid booking has none; while it
\* holds its slot, the length charged is the length booked.
PlayTimeIsPaid ==
    \A b \in BookingIds : LET r == bookings[b] IN
        /\ charge[b].payments <= 1
        /\ r.status \in {"none", "pending_payment"} => charge[b].sum = 0
        /\ r.status \in {"paid", "active", "completed", "no_show"} =>
               charge[b].payments = 1 /\ charge[b].sum = r.price
        /\ Live(r) => r.endAt = r.startAt + r.duration

\* No play on credit: a booking that was ever confirmed has been charged, and
\* at least the total price its row shows, whatever requests overlap.
ConfirmedIsCharged ==
    \A b \in BookingIds :
        bookings[b].status \in {"paid", "active", "completed", "no_show"} =>
            charge[b].payments >= 1 /\ charge[b].sum >= bookings[b].price

Collide(b, c) ==
    /\ b # c /\ Live(bookings[b]) /\ Live(bookings[c])
    /\ bookings[b].seat = bookings[c].seat
    /\ Overlaps(bookings[b], bookings[c].startAt, bookings[c].endAt)

\* create and payFromWallet both look for a conflict, so two live bookings of
\* a seat can only collide after one of them was extended.
OverlapOnlyByExtension ==
    \A b, c \in BookingIds :
        Collide(b, c) => charge[b].extensions + charge[c].extensions > 0

\* docs/TECHNICAL_SPEC.md: two bookings of one seat at one time are forbidden.
\* The code does not keep it, not even for bookings that are both paid for.
NoDoubleBooking ==
    \A b, c \in BookingIds :
        {bookings[b].status, bookings[c].status} \subseteq {"paid", "active"} => ~Collide(b, c)

\* The handlers keep the promise of BookingLifecycle.
Lifecycle == INSTANCE BookingLifecycle WITH
    Ids   <- BookingIds,
    stage <- [b \in BookingIds |-> bookings[b].status],
    taken <- [b \in BookingIds |-> charge[b].payments]

KeepsLifecycle == Lifecycle!Spec

\* An unpaid booking gives its slot back once its time to live is over.
PendingIsResolved ==
    \A b \in BookingIds :
        (bookings[b].status = "pending_payment" /\ bookings[b].createdAt + PendingTtl < MaxNow)
            ~> (bookings[b].status # "pending_payment")

\* A paid slot ends: played, cancelled or missed, whether or not the player
\* ever sends another request (or it was extended beyond the horizon).
SlotIsGivenBack ==
    \A b \in BookingIds :
        (/\ bookings[b].status \in {"paid", "active"}
         /\ bookings[b].endAt <= MaxNow
         /\ bookings[b].startAt + NoShowGrace <= MaxNow)
            ~> (Terminal(bookings[b]) \/ bookings[b].endAt > MaxNow)
=============================================================================
