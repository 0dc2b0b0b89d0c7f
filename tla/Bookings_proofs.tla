-------------------------- MODULE Bookings_proofs --------------------------
(***************************************************************************)
(* Proofs about Bookings, for any users, seats, lengths and prices: while  *)
(* requests run one at a time the ledger adds up, play time is paid for    *)
(* once, live bookings of a seat overlap only through an extension, and    *)
(* every handler keeps the promise of BookingLifecycle.                    *)
(***************************************************************************)
EXTENDS Bookings, BookingTables_proofs, TLAPS

USE TablesAssumption, RulesAssumption, BookingsAssumption

\* What the charges say about one row.
PaidUp(r, ch) ==
    /\ ch.payments <= 1
    /\ r.status \in {"none", "pending_payment"} => ch.payments = 0 /\ ch.sum = 0
    /\ r.status \in {"paid", "active", "completed", "no_show"} =>
           ch.payments = 1 /\ ch.sum = r.price
    /\ Live(r) => r.endAt = r.startAt + r.duration

IInv ==
    /\ TypeOK /\ BalanceIsLedger /\ OverlapOnlyByExtension
    /\ \A b \in BookingIds : PaidUp(bookings[b], charge[b])

\* The moves of a row that take no money: it keeps its slot while it holds it.
Moves(r, q) ==
    /\ q \in Row /\ q.seat = r.seat /\ q.startAt = r.startAt
    /\ q.price = r.price /\ q.duration = r.duration
    /\ Live(q) => q.endAt = r.endAt
    /\ \/ q.status = r.status
       \/ r.status = "pending_payment" /\ q.status = "cancelled"
       \/ r.status = "paid" /\ q.status \in {"active", "cancelled", "no_show"}
       \/ r.status = "active" /\ q.status \in {"completed", "cancelled"}

\* One step of the abstract booking, in terms of the tables.
Advances(b) ==
    /\ \/ Moves(bookings[b], bookings'[b])
       \/ bookings[b].status = "none" /\ bookings'[b].status = "pending_payment"
       \/ bookings[b].status = "pending_payment" /\ bookings'[b].status \in {"paid", "active"}
       \/ bookings'[b].status = bookings[b].status
    /\ charge'[b].payments =
           IF bookings[b].status = "pending_payment" /\ bookings'[b].status \in {"paid", "active"}
           THEN charge[b].payments + 1 ELSE charge[b].payments

\* What every step keeps besides types and balances.
Keeps ==
    /\ \A b \in BookingIds : PaidUp(bookings[b], charge[b])' /\ Advances(b)
    /\ OverlapOnlyByExtension'

-----------------------------------------------------------------------------
(* Rows.                                                                   *)

LEMMA MovesPaid ==
    ASSUME NEW r \in Row, NEW q, NEW ch, PaidUp(r, ch), Moves(r, q)
    PROVE  PaidUp(q, ch)
BY DEF PaidUp, Moves, Live

LEMMA MovesOn ==
    ASSUME NEW r, NEW q, NEW w, Moves(r, q), Moves(q, w),
           q.status = r.status \/ w.status = q.status
    PROVE  Moves(r, w)
BY DEF Moves, Live

LEMMA ReleaseMoves ==
    ASSUME NEW r \in Row
    PROVE  /\ r.status \in {"pending_payment", "paid"} => Moves(r, Release(r, "cancelled"))
           /\ r.status = "active" => Moves(r, Release(r, "completed"))
           /\ r.status = "paid" => Moves(r, Release(r, "no_show"))
<1>1. \A st \in {"cancelled", "completed", "no_show"} : [r EXCEPT !.status = st] \in Row
  BY WrittenRowType DEF Statuses
<1>2. \A st \in {"cancelled", "completed", "no_show"} :
          r.status \in {"pending_payment", "paid", "active"} =>
              Release(r, st) = [r EXCEPT !.status = st]
  BY DEF Release
<1>3. QED BY <1>1, <1>2 DEF Moves, Live, Row

LEMMA StartMoves ==
    ASSUME NEW r \in Row
    PROVE  /\ r.status = "paid" => Moves(r, Activate(r))
           /\ Moves(r, StartIfDue(r))
           /\ Moves(r, [StartIfDue(r) EXCEPT !.phase = NormalizePhase(StartIfDue(r), now)])
<1>1. r.status = "paid" => Moves(r, Activate(r))
  BY WrittenRowType DEF Activate, Moves, Live, Row
<1>2. Moves(r, r)
  BY DEF Moves
<1>3. Moves(r, StartIfDue(r)) /\ StartIfDue(r) \in Row
  BY <1>1, <1>2, WrittenRowType DEF StartIfDue
<1> DEFINE q == StartIfDue(r)
           w == [q EXCEPT !.phase = NormalizePhase(q, now)]
<1>4. w \in Row
  BY <1>3, WrittenRowType
<1>5. /\ w.seat = q.seat /\ w.startAt = q.startAt /\ w.price = q.price
      /\ w.duration = q.duration /\ w.endAt = q.endAt /\ w.status = q.status
  BY <1>3 DEF Row
<1> HIDE DEF w, q
<1>6. Moves(q, w)
  BY <1>4, <1>5 DEF Moves
<1>7. Moves(r, w)
  BY <1>3, <1>5, <1>6, MovesOn DEF q
<1>8. QED BY <1>1, <1>3, <1>7 DEF w, q

LEMMA SyncMoves ==
    ASSUME NEW r \in Row
    PROVE  Moves(r, SyncRow(r)) /\ SyncRow(r) \in Row
<1>1. Moves(r, r)
  BY DEF Moves
<1>2. Moves(r, SyncRow(r))
  BY <1>1, ReleaseMoves, StartMoves DEF SyncRow, StalePending, Expired, DueStart
<1>3. QED BY <1>2 DEF Moves

LEMMA NoShowMoves ==
    ASSUME NEW r \in Row
    PROVE  Moves(r, NoShowRow(SyncRow(r)))
<1> DEFINE q == SyncRow(r)
<1>1. Moves(r, q) /\ q \in Row
  BY SyncMoves
<1> HIDE DEF q
<1>2. CASE NoShowDue(q, now)
  <2>1. q.status = "paid" /\ r.status = "paid"
    BY <1>1, <1>2 DEF NoShowDue, Moves
  <2>2. Moves(q, NoShowRow(q))
    BY <1>1, <1>2, <2>1, ReleaseMoves DEF NoShowRow
  <2>3. QED BY <1>1, <2>1, <2>2, MovesOn DEF q
<1>3. CASE ~NoShowDue(q, now)
  BY <1>1, <1>3 DEF NoShowRow, q
<1>4. QED BY <1>2, <1>3

\* The table and the flags after the sync pass.
LEMMA SyncedType ==
    ASSUME TypeOK
    PROVE  /\ SyncedRows \in [BookingIds -> Row]
           /\ \A b \in BookingIds : Moves(bookings[b], SyncedRows[b])
           /\ SyncedSeats \in [Seats -> SeatFlags]
<1>1. \A b \in BookingIds : bookings[b] \in Row
  BY DEF TypeOK, TablesOK
<1>2. \A b \in BookingIds : SyncedRows[b] = SyncRow(bookings[b])
  BY DEF SyncedRows
<1>3. SyncedRows \in [BookingIds -> Row]
  BY <1>1, SyncMoves DEF SyncedRows
<1>4. SyncedSeats \in [Seats -> SeatFlags]
  BY DEF SyncedSeats, SeatFlags, DisplayStatus
<1>5. QED BY <1>1, <1>2, <1>3, <1>4, SyncMoves

LEMMA FlagTypes ==
    ASSUME NEW st \in [Seats -> SeatFlags], NEW bk, NEW s
    PROVE  Recomputed(bk, st, s) \in [Seats -> SeatFlags] /\ Occupy(st, s) \in [Seats -> SeatFlags]
<1>1. DisplayStatus(RowsOn(bk, s), now) \in SeatFlags
  BY DEF DisplayStatus, SeatFlags
<1>2. QED BY <1>1 DEF Recomputed, Occupy, SeatFlags

-----------------------------------------------------------------------------
(* Kinds of steps.                                                         *)

\* No money for any booking, no new booking.
LEMMA Calm ==
    ASSUME IInv, charge' = charge,
           \A b \in BookingIds : Moves(bookings[b], bookings'[b])
    PROVE  Keeps
<1>1. \A b \in BookingIds : bookings[b] \in Row
  BY DEF IInv, TypeOK, TablesOK
<1>2. \A b \in BookingIds : PaidUp(bookings[b], charge[b])'
  BY <1>1, MovesPaid DEF IInv
<1>3. \A b \in BookingIds : Advances(b)
  BY DEF Advances, Moves
<1>4. \A b, c \in BookingIds : Collide(b, c)' => Collide(b, c)
  BY DEF Collide, Moves, Live, Overlaps
<1>5. OverlapOnlyByExtension'
  BY <1>4 DEF IInv, OverlapOnlyByExtension
<1>6. QED BY <1>2, <1>3, <1>5 DEF Keeps

\* One booking is inserted, paid or extended, the others only move.
LEMMA OneRow ==
    ASSUME IInv, NEW b \in BookingIds, charge' \in [BookingIds -> Charge],
           \A c \in BookingIds \ {b} : Moves(bookings[c], bookings'[c]) /\ charge'[c] = charge[c],
           PaidUp(bookings[b], charge[b])', Advances(b),
           \A c \in BookingIds : Collide(b, c)' =>
               charge'[b].extensions > 0 \/ (Collide(b, c) /\ charge'[b].extensions = charge[b].extensions)
    PROVE  Keeps
<1>1. \A c \in BookingIds : bookings[c] \in Row
  BY DEF IInv, TypeOK, TablesOK
<1>2. \A c \in BookingIds : PaidUp(bookings[c], charge[c])'
  <2> TAKE c \in BookingIds
  <2>1. CASE c = b
    BY <2>1
  <2>2. CASE c # b
    BY <2>2, <1>1, MovesPaid DEF IInv
  <2>3. QED BY <2>1, <2>2
<1>3. \A c \in BookingIds : Advances(c)
  <2> TAKE c \in BookingIds
  <2>1. CASE c = b
    BY <2>1
  <2>2. CASE c # b
    BY <2>2 DEF Advances, Moves
  <2>3. QED BY <2>1, <2>2
<1>4. \A c \in BookingIds : charge'[c].extensions \in Nat /\ charge[c].extensions \in Nat
  BY DEF Charge, IInv, TypeOK, TablesOK
<1>5. \A c \in BookingIds : Collide(b, c)' => charge'[b].extensions + charge'[c].extensions > 0
  <2> SUFFICES ASSUME NEW c \in BookingIds, Collide(b, c)'
               PROVE  charge'[b].extensions + charge'[c].extensions > 0
    OBVIOUS
  <2>1. c # b
    BY DEF Collide
  <2>2. CASE charge'[b].extensions > 0
    BY <2>2, <1>4
  <2>3. CASE Collide(b, c) /\ charge'[b].extensions = charge[b].extensions
    BY <2>1, <2>3, <1>4 DEF IInv, OverlapOnlyByExtension
  <2>4. QED BY <2>2, <2>3
<1>6. \A c, d \in BookingIds : Collide(c, d) <=> Collide(d, c)
  BY <1>1 DEF Collide, Overlaps
<1>7. \A c, d \in BookingIds : Collide(c, d)' => Collide(d, c)'
  BY DEF Collide, Overlaps
<1>8. \A c, d \in BookingIds \ {b} : Collide(c, d)' => Collide(c, d)
  BY DEF Collide, Moves, Live, Overlaps
<1>9. OverlapOnlyByExtension'
  <2> SUFFICES ASSUME NEW c \in BookingIds, NEW d \in BookingIds, Collide(c, d)'
               PROVE  charge'[c].extensions + charge'[d].extensions > 0
    BY DEF OverlapOnlyByExtension
  <2>1. CASE c = b
    BY <2>1, <1>5
  <2>2. CASE d = b
    <3>1. charge'[d].extensions + charge'[c].extensions > 0
      BY <2>2, <1>5, <1>7
    <3>2. QED BY <3>1, <1>4
  <2>3. CASE c # b /\ d # b
    BY <2>3, <1>8 DEF IInv, OverlapOnlyByExtension
  <2>4. QED BY <2>1, <2>2, <2>3
<1>10. QED BY <1>2, <1>3, <1>9 DEF Keeps

\* A movement of a wallet that its owner can afford.
LEMMA BookKeeps ==
    ASSUME TypeOK, BalanceIsLedger, NEW u \in Users, NEW amount \in Int, Book(u, amount),
           balance[u] + amount >= 0
    PROVE  /\ balance' \in [Users -> Int] /\ ledger' \in [Users -> Int]
           /\ BalanceIsLedger'
<1>1. balance \in [Users -> Int] /\ ledger \in [Users -> Int]
  BY DEF TypeOK, TablesOK
<1>2. balance' \in [Users -> Int] /\ ledger' \in [Users -> Int]
  BY <1>1 DEF Book
<1>3. QED BY <1>1, <1>2 DEF Book, BalanceIsLedger

-----------------------------------------------------------------------------
(* The actions.                                                            *)

LEMMA InitInv == Init => IInv
<1> SUFFICES ASSUME Init PROVE IInv
  OBVIOUS
<1>1. \A b \in BookingIds : /\ bookings[b] = EmptyRow
                           /\ charge[b] = [payments |-> 0, extensions |-> 0, sum |-> 0]
  BY DEF Init, TablesInit
<1>2. TypeOK
  BY EmptyRowType DEF Init, TablesInit, TypeOK, TablesOK, SeatFlags, Never
<1>3. BalanceIsLedger
  BY DEF Init, TablesInit, BalanceIsLedger
<1> DEFINE e == EmptyRow
<1>e. e.status = "none" /\ ~Live(e)
  BY DEF EmptyRow, Live
<1> HIDE DEF e
<1>4. \A b \in BookingIds : PaidUp(bookings[b], charge[b])
  BY <1>1, <1>e DEF PaidUp, e
<1>5. OverlapOnlyByExtension
  BY <1>1, <1>e DEF OverlapOnlyByExtension, Collide, e
<1>6. QED BY <1>2, <1>3, <1>4, <1>5 DEF IInv

\* The steps that move whole tables, wallets, flags or the clock.
LEMMA SweepKeeps ==
    ASSUME IInv,
           \/ Tick \/ Sync \/ SchedulerTick \/ UNCHANGED vars
           \/ \E s \in Seats, flag \in AdminFlags : AdminUpdateSeat(s, flag)
    PROVE  IInv' /\ Keeps
<1>1. charge' = charge /\ balance' = balance /\ ledger' = ledger /\ doorLog' = doorLog
  BY DEF Tick, Sync, SchedulerTick, AdminUpdateSeat, money, tables, vars
<1>2. /\ \A b \in BookingIds : Moves(bookings[b], bookings'[b])
      /\ bookings' \in [BookingIds -> Row]
  <2>1. \A b \in BookingIds : bookings[b] \in Row /\ Moves(bookings[b], bookings[b])
    BY DEF IInv, TypeOK, TablesOK, Moves
  <2>2. CASE Sync
    BY <2>2, SyncedType DEF IInv, Sync
  <2>3. CASE SchedulerTick
    <3>1. \A b \in BookingIds : bookings'[b] = NoShowRow(SyncRow(bookings[b]))
      BY <2>3 DEF SchedulerTick, SyncedRows
    <3>2. \A b \in BookingIds : Moves(bookings[b], bookings'[b])
      BY <2>1, <3>1, NoShowMoves
    <3>3. bookings' = [b \in BookingIds |-> bookings'[b]]
      BY <2>3 DEF SchedulerTick
    <3>4. QED BY <3>2, <3>3 DEF Moves
  <2>4. CASE bookings' = bookings
    BY <2>1, <2>4 DEF IInv, TypeOK, TablesOK
  <2>5. QED BY <2>2, <2>3, <2>4 DEF Tick, AdminUpdateSeat, tables, vars
<1>3. seats' \in [Seats -> SeatFlags]
  <2>1. CASE Sync
    BY <2>1, SyncedType DEF IInv, Sync
  <2>2. CASE SchedulerTick
    BY <2>2 DEF SchedulerTick, DisplayStatus, SeatFlags
  <2>3. CASE \E s \in Seats, flag \in AdminFlags : AdminUpdateSeat(s, flag)
    BY <2>3 DEF IInv, TypeOK, AdminUpdateSeat
  <2>4. CASE seats' = seats
    BY <2>4 DEF IInv, TypeOK
  <2>5. QED BY <2>1, <2>2, <2>3, <2>4 DEF Tick, vars
<1>4. now' \in Nat
  BY DEF IInv, TypeOK, TablesOK, Tick, Sync, SchedulerTick, AdminUpdateSeat, tables, vars
<1>5. TypeOK'
  BY <1>1, <1>2, <1>3, <1>4 DEF IInv, TypeOK, TablesOK
<1>6. BalanceIsLedger'
  BY <1>1 DEF IInv, BalanceIsLedger
<1>7. Keeps
  BY <1>1, <1>2, Calm
<1>8. QED BY <1>5, <1>6, <1>7 DEF IInv, Keeps

LEMMA WalletKeeps ==
    ASSUME IInv,
           \/ \E u \in Users, amount \in TopUps : TopUp(u, amount)
           \/ \E u \in Users, amount \in Adjustments : AdminAdjust(u, amount)
    PROVE  IInv' /\ Keeps
<1>1. PICK u \in Users, amount \in Int :
          Book(u, amount) /\ (amount >= 0 \/ balance[u] + amount >= 0)
  <2>1. CASE \E u \in Users, amount \in TopUps : TopUp(u, amount)
    BY <2>1 DEF TopUp
  <2>2. CASE \E u \in Users, amount \in Adjustments : AdminAdjust(u, amount)
    <3>1. PICK u \in Users, amount \in Adjustments : AdminAdjust(u, amount)
      BY <2>2
    <3>2. amount \in Int /\ balance[u] + amount >= 0
      BY <3>1 DEF AdminAdjust
    <3>3. QED BY <3>1, <3>2 DEF AdminAdjust
  <2>3. QED BY <2>1, <2>2
<1>2. /\ UNCHANGED <<now, bookings, charge, seats, doorLog>>
  BY DEF TopUp, AdminAdjust
<1>3. balance[u] \in Int /\ balance[u] >= 0
  BY DEF IInv, TypeOK, TablesOK, BalanceIsLedger
<1>4. balance[u] + amount >= 0
  BY <1>1, <1>3
<1>5. balance' \in [Users -> Int] /\ ledger' \in [Users -> Int] /\ BalanceIsLedger'
  BY <1>1, <1>4, BookKeeps DEF IInv
<1>6. TypeOK'
  BY <1>2, <1>5 DEF IInv, TypeOK, TablesOK
<1>7. Keeps
  <2>1. \A b \in BookingIds : Moves(bookings[b], bookings'[b])
    BY <1>2 DEF IInv, TypeOK, TablesOK, Moves
  <2>2. QED BY <1>2, <2>1, Calm
<1>8. QED BY <1>5, <1>6, <1>7 DEF IInv, Keeps

\* A handler that writes one row and takes no money.
LEMMA WriteKeeps ==
    ASSUME IInv, UNCHANGED <<now, money>>, doorLog' \in [BookingIds -> Int],
           NEW bk \in [BookingIds -> Row], \A c \in BookingIds : Moves(bookings[c], bk[c]),
           NEW st \in [Seats -> SeatFlags], NEW b \in BookingIds, NEW r,
           Moves(bookings[b], r), Store(bk, st, b, r)
    PROVE  IInv' /\ Keeps
<1>1. r \in Row /\ bookings' = [bk EXCEPT ![b] = r] /\ seats' = st
  BY DEF Moves, Store
<1>2. bookings' \in [BookingIds -> Row]
  BY <1>1
<1>3. \A c \in BookingIds : Moves(bookings[c], bookings'[c])
  BY <1>1
<1>4. TypeOK'
  BY <1>1, <1>2 DEF IInv, TypeOK, TablesOK, money
<1>5. BalanceIsLedger'
  BY DEF IInv, BalanceIsLedger, money
<1>6. Keeps
  BY <1>3, Calm DEF money
<1>7. QED BY <1>4, <1>5, <1>6 DEF IInv, Keeps

LEMMA EndKeeps ==
    ASSUME IInv, NEW b \in BookingIds, EndSession(b) \/ CancelBooking(b) \/ AdminCancel(b)
    PROVE  IInv' /\ Keeps
<1> DEFINE r == bookings[b]
<1>1. r \in Row /\ bookings \in [BookingIds -> Row] /\ seats \in [Seats -> SeatFlags]
      /\ now \in Nat /\ doorLog \in [BookingIds -> Int]
  BY DEF IInv, TypeOK, TablesOK
<1>2. /\ UNCHANGED <<now, money>> /\ doorLog' = doorLog
      /\ \A c \in BookingIds : Moves(bookings[c], bookings[c])
  BY <1>1 DEF EndSession, CancelBooking, AdminCancel, Moves
<1>3. PICK w, st : st \in [Seats -> SeatFlags] /\ Moves(r, w) /\ Store(bookings, st, b, w)
  <2>1. CASE EndSession(b)
    <3> DEFINE q == [r EXCEPT !.endAt = now]
               w == Release(q, "completed")
    <3>0. now \in Int /\ r.status = "active"
      BY <1>1, <2>1 DEF EndSession
    <3>1. q \in Row /\ q.status = "active" /\ r.status = "active"
          /\ q.seat = r.seat /\ q.startAt = r.startAt /\ q.price = r.price
          /\ q.duration = r.duration
      BY <1>1, <3>0 DEF Row
    <3>2. Moves(q, w) /\ w.status = "completed"
      BY <3>1, ReleaseMoves DEF Release, Row
    <3>3. StoreAndShow(bookings, seats, b, w)
      BY <2>1 DEF EndSession
    <3> HIDE DEF q, w
    <3>4. Moves(r, w)
      BY <3>1, <3>2 DEF Moves, Live
    <3>5. QED BY <1>1, <3>3, <3>4, FlagTypes DEF StoreAndShow
  <2>2. CASE CancelBooking(b)
    <3> DEFINE w == Release(r, "cancelled")
    <3>1. Moves(r, w)
      BY <1>1, <2>2, ReleaseMoves DEF CancelBooking, Cancellable
    <3>2. StoreAndShow(bookings, seats, b, w)
      BY <2>2 DEF CancelBooking
    <3> HIDE DEF w
    <3>3. QED BY <1>1, <3>1, <3>2, FlagTypes DEF StoreAndShow
  <2>3. CASE AdminCancel(b)
    <3> DEFINE w == [r EXCEPT !.status = "cancelled"]
               st == [seats EXCEPT ![r.seat] = "free"]
    <3>1. w \in Row
      BY <1>1, WrittenRowType DEF Statuses
    <3>2. Moves(r, w)
      BY <1>1, <2>3, <3>1 DEF AdminCancel, Moves, Live, Row
    <3>3. st \in [Seats -> SeatFlags]
      BY <1>1 DEF SeatFlags
    <3>4. Store(bookings, st, b, w)
      BY <2>3 DEF AdminCancel
    <3>5. QED BY <3>2, <3>3, <3>4
  <2>4. QED BY <2>1, <2>2, <2>3
<1>4. QED BY <1>1, <1>2, <1>3, WriteKeeps

LEMMA StartKeeps ==
    ASSUME IInv,
           (\E u \in Users : GetActive(u)) \/ (\E b \in BookingIds : OpenMainDoor(b))
    PROVE  IInv' /\ Keeps
<1>1. /\ bookings \in [BookingIds -> Row] /\ seats \in [Seats -> SeatFlags]
      /\ doorLog \in [BookingIds -> Int] /\ now \in Int
  BY DEF IInv, TypeOK, TablesOK
<1>2. ASSUME NEW bk \in [BookingIds -> Row], \A c \in BookingIds : Moves(bookings[c], bk[c]),
             NEW st \in [Seats -> SeatFlags], NEW b \in BookingIds, Ongoing(bk[b], now),
             StoreStarted(bk, st, b), UNCHANGED <<now, money>>,
             doorLog' \in [BookingIds -> Int]
      PROVE  IInv' /\ Keeps
  <2> DEFINE r == StartIfDue(bk[b])
             w == [r EXCEPT !.phase = NormalizePhase(r, now)]
             flags == IF r = bk[b] THEN st ELSE Occupy(st, r.seat)
  <2>1. Moves(bookings[b], bk[b]) /\ Moves(bk[b], w) /\ bk[b].status \in {"paid", "active"}
    BY <1>2, StartMoves DEF Ongoing
  <2>2. bk[b].status = bookings[b].status \/ w.status = bk[b].status
    BY <2>1 DEF Moves, StartIfDue, Row
  <2>3. flags \in [Seats -> SeatFlags]
    BY <1>2, FlagTypes
  <2>4. Store(bk, flags, b, w)
    BY <1>2 DEF StoreStarted
  <2> HIDE DEF w, flags
  <2>5. Moves(bookings[b], w)
    BY <2>1, <2>2, MovesOn
  <2>6. QED BY <1>2, <2>3, <2>4, <2>5, WriteKeeps
<1>3. CASE \E u \in Users : GetActive(u)
  <2>1. PICK u \in Users, b \in BookingIds :
            IsActiveOf(SyncedRows, u, b) /\ StoreStarted(SyncedRows, SyncedSeats, b)
    BY <1>3 DEF GetActive
  <2>2. UNCHANGED <<now, money>> /\ doorLog' \in [BookingIds -> Int]
    BY <1>1, <1>3 DEF GetActive
  <2>3. Ongoing(SyncedRows[b], now)
    BY <2>1 DEF IsActiveOf
  <2>4. QED BY <1>2, <2>1, <2>2, <2>3, SyncedType DEF IInv
<1>4. CASE \E b \in BookingIds : OpenMainDoor(b)
  <2>1. PICK b \in BookingIds : OpenMainDoor(b)
    BY <1>4
  <2>2. /\ StoreStarted(bookings, seats, b) /\ Ongoing(bookings[b], now)
        /\ UNCHANGED <<now, money>> /\ doorLog' \in [BookingIds -> Int]
    BY <1>1, <2>1 DEF OpenMainDoor
  <2>3. \A c \in BookingIds : Moves(bookings[c], bookings[c])
    BY <1>1 DEF Moves
  <2>4. QED BY <1>1, <1>2, <2>2, <2>3
<1>5. QED BY <1>3, <1>4

\* A new booking overlaps nobody: it looked.
LEMMA CreateKeeps ==
    ASSUME IInv, NEW u \in Users, NEW s \in Seats, NEW from \in 0..MaxNow, NEW d \in Durations,
           Create(u, s, from, d)
    PROVE  IInv' /\ Keeps
<1> DEFINE w == NewRow(u, s, from, d)
<1>1. PICK b \in BookingIds : /\ NextId(SyncedRows, b)
                              /\ SlotFree(SyncedRows, s, from, from + d, b)
                              /\ StoreAndShow(SyncedRows, SyncedSeats, b, w)
  BY DEF Create
<1>2. UNCHANGED <<now, money, doorLog>> /\ now \in Nat /\ from \in Int /\ d \in Nat
      /\ charge \in [BookingIds -> Charge] /\ bookings \in [BookingIds -> Row]
  BY DEF Create, IInv, TypeOK, TablesOK, Charge
<1>3. /\ w \in Row /\ w.status = "pending_payment" /\ w.seat = s
      /\ w.startAt = from /\ w.endAt = from + d /\ w.duration = d
  BY <1>2, NewRowType DEF NewRow
<1> HIDE DEF w
<1>4. /\ SyncedRows \in [BookingIds -> Row] /\ SyncedSeats \in [Seats -> SeatFlags]
      /\ \A c \in BookingIds : Moves(bookings[c], SyncedRows[c])
  BY SyncedType DEF IInv
<1>5. /\ bookings' = [SyncedRows EXCEPT ![b] = w] /\ seats' \in [Seats -> SeatFlags]
  BY <1>1, <1>4, FlagTypes DEF StoreAndShow, Store
<1>6. /\ bookings'[b] = w
      /\ \A c \in BookingIds \ {b} : bookings'[c] = SyncedRows[c]
      /\ bookings' \in [BookingIds -> Row]
  BY <1>3, <1>4, <1>5
<1>7. bookings[b].status = "none"
  BY <1>1, <1>4 DEF NextId, Moves
<1>8. TypeOK' /\ BalanceIsLedger'
  BY <1>2, <1>5, <1>6 DEF IInv, TypeOK, TablesOK, BalanceIsLedger, money
<1>9. Keeps
  <2>1. charge' = charge
    BY <1>2 DEF money
  <2>2. PaidUp(bookings[b], charge[b])'
    BY <2>1, <1>2, <1>3, <1>6, <1>7 DEF IInv, PaidUp
  <2>3. Advances(b)
    BY <2>1, <1>3, <1>6, <1>7 DEF Advances
  <2>4. \A c \in BookingIds : ~Collide(b, c)'
    BY <1>1, <1>2, <1>3, <1>4, <1>6 DEF Collide, SlotFree, Overlaps, Row
  <2>5. QED BY <2>1, <2>2, <2>3, <2>4, <1>2, <1>4, <1>6, OneRow
<1>10. QED BY <1>8, <1>9 DEF IInv, Keeps

\* A payment: the first charge of the booking, in the step that confirms it.
LEMMA PayKeeps ==
    ASSUME IInv, NEW b \in BookingIds, PayFromWallet(b)
    PROVE  IInv' /\ Keeps
<1> DEFINE r == SyncedRows[b]
           w == PaidRow(r)
<1>1. /\ SyncedRows \in [BookingIds -> Row] /\ SyncedSeats \in [Seats -> SeatFlags]
      /\ \A c \in BookingIds : Moves(bookings[c], SyncedRows[c])
  BY SyncedType DEF IInv
<1>2. /\ r \in Row /\ r.status = "pending_payment" /\ bookings[b].status = "pending_payment"
      /\ Moves(bookings[b], r)
  BY <1>1 DEF PayFromWallet, Payable, Moves
<1>3. charge[b].payments = 0 /\ charge[b].sum = 0
  BY <1>2 DEF IInv, PaidUp
<1>4. TakePayment(b, r) /\ Affords(r.user, r.price) /\ UNCHANGED <<now, doorLog>>
  BY <1>3 DEF PayFromWallet
<1>5. /\ w \in Row /\ w.status \in {"paid", "active"} /\ w.seat = r.seat
      /\ w.startAt = r.startAt /\ w.endAt = r.endAt /\ w.price = r.price
      /\ w.duration = r.duration
  <2>1. w \in Row
    BY <1>2, WrittenRowType
  <2>2. QED BY <1>2, <2>1 DEF PaidRow, Activate, Row
<1>6. seats' \in [Seats -> SeatFlags] /\ bookings' = [SyncedRows EXCEPT ![b] = w]
  <2> DEFINE st == IF now >= r.startAt THEN Occupy(SyncedSeats, r.seat) ELSE SyncedSeats
  <2>1. st \in [Seats -> SeatFlags]
    BY <1>1, FlagTypes
  <2>2. StoreAndShow(SyncedRows, st, b, w)
    BY DEF PayFromWallet
  <2> HIDE DEF st, w
  <2>3. QED BY <2>1, <2>2, FlagTypes DEF StoreAndShow, Store
<1> HIDE DEF w
<1>7. /\ bookings'[b] = w
      /\ \A c \in BookingIds \ {b} : bookings'[c] = SyncedRows[c]
      /\ bookings' \in [BookingIds -> Row]
  BY <1>1, <1>5, <1>6
<1>8. /\ charge' \in [BookingIds -> Charge]
      /\ charge'[b].payments = 1 /\ charge'[b].sum = w.price
      /\ charge'[b].extensions = charge[b].extensions
      /\ \A c \in BookingIds \ {b} : charge'[c] = charge[c]
  <2>1. TablesOK
    BY DEF IInv, TypeOK
  <2>2. r.price \in Nat
    BY <1>2 DEF Row
  <2>3. QED BY <2>1, <2>2, <1>2, <1>3, <1>4, <1>5, TakePaymentEffect, ChargeKinds
<1>9. balance' \in [Users -> Int] /\ ledger' \in [Users -> Int] /\ BalanceIsLedger'
  <2> DEFINE k == -r.price
  <2>1. r.user \in Users /\ k \in Int /\ Book(r.user, k) /\ balance[r.user] \in Int
    BY <1>2, <1>4 DEF TakePayment, Row, IInv, TypeOK, TablesOK
  <2>2. balance[r.user] + k >= 0
    BY <2>1, <1>2, <1>4 DEF Affords, Row
  <2> HIDE DEF k
  <2>3. QED BY <2>1, <2>2, BookKeeps DEF IInv
<1>10. TypeOK'
  BY <1>4, <1>6, <1>7, <1>8, <1>9 DEF IInv, TypeOK, TablesOK, Charge
<1>11. Keeps
  <2>1. PaidUp(bookings[b], charge[b])'
    <3>1. bookings[b].endAt = bookings[b].startAt + bookings[b].duration
      BY <1>2 DEF IInv, PaidUp, Live
    <3>2. w.endAt = w.startAt + w.duration
      BY <3>1, <1>2, <1>5 DEF Moves, Live
    <3>3. QED BY <3>2, <1>5, <1>7, <1>8 DEF PaidUp
  <2>2. Advances(b)
    BY <1>2, <1>3, <1>5, <1>7, <1>8 DEF Advances
  <2>3. \A c \in BookingIds : Collide(b, c)' => Collide(b, c)
    BY <1>1, <1>2, <1>5, <1>7 DEF Collide, Moves, Live, Overlaps
  <2>4. QED BY <2>1, <2>2, <2>3, <1>1, <1>7, <1>8, OneRow
<1>12. QED BY <1>9, <1>10, <1>11 DEF IInv, Keeps

\* An extension is charged and may run into the booking that follows.
LEMMA ExtendKeeps ==
    ASSUME IInv, NEW b \in BookingIds, NEW d \in Additions, Extend(b, d)
    PROVE  IInv' /\ Keeps
<1> DEFINE r == bookings[b]
           w == Extended(r, r, d)
<1>1. /\ r \in Row /\ bookings \in [BookingIds -> Row] /\ charge \in [BookingIds -> Charge]
      /\ d \in Nat /\ Price[d] \in Nat
  BY DEF IInv, TypeOK, TablesOK, Charge
<1>2. /\ r.status = "active" /\ Affords(r.user, Price[d]) /\ TakeExtension(b, r, d)
      /\ UNCHANGED <<now, doorLog>> /\ Store(bookings, seats, b, w)
  BY DEF Extend, Playing
<1>3. /\ w \in Row /\ w.status = "active" /\ w.price = r.price + Price[d]
      /\ w.endAt = r.endAt + d /\ w.duration = r.duration + d
      /\ w.seat = r.seat /\ w.startAt = r.startAt
  <2>1. r \in Row /\ r.status = "active"
    BY <1>1, <1>2
  <2> HIDE DEF r
  <2>2. w \in Row /\ w.price = r.price + Price[d] /\ w.status = r.status
    BY <2>1, ExtendedType
  <2>3. /\ w.endAt = r.endAt + d /\ w.duration = r.duration + d
        /\ w.seat = r.seat /\ w.startAt = r.startAt
    BY <2>1, ExtendedTimes
  <2>4. QED BY <2>1, <2>2, <2>3
<1> HIDE DEF w
<1>4. /\ bookings'[b] = w /\ seats' = seats
      /\ \A c \in BookingIds \ {b} : bookings'[c] = bookings[c]
      /\ bookings' \in [BookingIds -> Row]
  BY <1>1, <1>2, <1>3 DEF Store
<1>5. charge[b].payments = 1 /\ charge[b].sum = r.price /\ r.endAt = r.startAt + r.duration
  BY <1>2 DEF IInv, PaidUp, Live
<1>6. /\ charge' \in [BookingIds -> Charge]
      /\ charge'[b].payments = 1 /\ charge'[b].sum = w.price
      /\ charge'[b].extensions > 0
      /\ \A c \in BookingIds \ {b} : charge'[c] = charge[c]
  <2>1. TablesOK
    BY DEF IInv, TypeOK
  <2>2. QED BY <2>1, <1>1, <1>2, <1>3, <1>5, TakeExtensionEffect, ChargeKinds
<1>7. balance' \in [Users -> Int] /\ ledger' \in [Users -> Int] /\ BalanceIsLedger'
  <2> DEFINE k == -Price[d]
  <2>1. r.user \in Users /\ k \in Int /\ Book(r.user, k) /\ balance[r.user] \in Int
    BY <1>1, <1>2 DEF TakeExtension, Row, IInv, TypeOK, TablesOK
  <2>2. balance[r.user] + k >= 0
    BY <2>1, <1>1, <1>2 DEF Affords
  <2> HIDE DEF k
  <2>3. QED BY <2>1, <2>2, BookKeeps DEF IInv
<1>8. TypeOK'
  BY <1>2, <1>4, <1>6, <1>7 DEF IInv, TypeOK, TablesOK, Charge
<1>9. Keeps
  <2>1. PaidUp(bookings[b], charge[b])'
    <3>1. r.endAt \in Int /\ r.startAt \in Int /\ r.duration \in Nat
      BY <1>1 DEF Row
    <3>2. w.endAt = w.startAt + w.duration
      BY <3>1, <1>1, <1>3, <1>5
    <3>3. QED BY <3>2, <1>3, <1>4, <1>6 DEF PaidUp
  <2>2. Advances(b)
    BY <1>2, <1>3, <1>4, <1>5, <1>6 DEF Advances
  <2>3. \A c \in BookingIds \ {b} : Moves(bookings[c], bookings'[c])
    BY <1>1, <1>4 DEF Moves
  <2>4. QED BY <2>1, <2>2, <2>3, <1>6, OneRow
<1>10. QED BY <1>7, <1>8, <1>9 DEF IInv, Keeps

LEMMA NextInv == IInv /\ [Next]_vars => IInv' /\ Keeps
<1> SUFFICES ASSUME IInv, [Next]_vars PROVE IInv' /\ Keeps
  OBVIOUS
<1>1. CASE UNCHANGED vars
  BY <1>1, SweepKeeps
<1>2. CASE Next
  BY <1>2, SweepKeeps, WalletKeeps, EndKeeps, StartKeeps, CreateKeeps, PayKeeps, ExtendKeeps
     DEF Next
<1>3. QED BY <1>1, <1>2

\* A step of the tables is a step of the abstract booking.
LEMMA StepsRefine ==
    ASSUME IInv, Keeps
    PROVE  [Lifecycle!Next]_Lifecycle!vars
<1>1. ASSUME NEW b \in BookingIds PROVE Lifecycle!Advance(b)
  <2>1. Advances(b)
    BY DEF Keeps
  <2>2. QED
    BY <2>1 DEF Advances, Moves, Lifecycle!Advance, Lifecycle!Confirms, Lifecycle!Follows
<1>2. QED BY <1>1 DEF Lifecycle!Next

-----------------------------------------------------------------------------
(* Theorems.                                                               *)

\* The inductive invariant: types, balances, charges and slots together.
THEOREM Inductive == Spec => []IInv
<1>1. IInv /\ [Next]_vars => IInv'
  BY NextInv
<1>2. QED BY <1>1, InitInv, PTL DEF Spec

\* Balances are the sums of their transactions and never negative, while
\* requests run one at a time (payFromWallet, extendSession, adjustWallet).
THEOREM WalletAddsUp == Spec => []BalanceIsLedger
<1>1. IInv => BalanceIsLedger
  BY DEF IInv
<1>2. QED BY <1>1, Inductive, PTL

\* A booking that was confirmed has been charged once, at its total price,
\* and an unpaid one not at all (payFromWallet, extendSession).
THEOREM PlayIsPaidOnce == Spec => []PlayTimeIsPaid
<1>1. IInv => PlayTimeIsPaid
  BY DEF IInv, PaidUp, PlayTimeIsPaid
<1>2. QED BY <1>1, Inductive, PTL

\* Two live bookings of a seat overlap only after an extension
\* (assertSeatAvailableForSlot in create and payFromWallet).
THEOREM OnlyExtensionsOverlap == Spec => []OverlapOnlyByExtension
<1>1. IInv => OverlapOnlyByExtension
  BY DEF IInv
<1>2. QED BY <1>1, Inductive, PTL

\* The handlers, the scheduler and the administrator implement the abstract
\* booking: forward through its statuses, charged in the step that confirms it.
THEOREM LifecycleIsKept == Spec => KeepsLifecycle
<1>1. Init => Lifecycle!Init
  <2>1. EmptyRow.status = "none"
    BY DEF EmptyRow
  <2>2. QED BY <2>1 DEF Init, TablesInit, Lifecycle!Init
<1>2. IInv /\ [Next]_vars => [Lifecycle!Next]_Lifecycle!vars
  BY NextInv, StepsRefine
<1>3. QED BY <1>1, <1>2, Inductive, PTL DEF Spec, KeepsLifecycle, Lifecycle!Spec

=============================================================================
