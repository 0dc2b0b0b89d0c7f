------------------------ MODULE BookingTables_proofs ------------------------
(***************************************************************************)
(* What the rows and the writes of BookingTables are, for the proofs about *)
(* Bookings and BookingRequests.                                           *)
(***************************************************************************)
EXTENDS BookingTables, TLAPS

USE TablesAssumption, RulesAssumption

LEMMA EmptyRowType == EmptyRow \in Row
<1>1. (CHOOSE u \in Users : TRUE) \in Users  BY DEF Row
<1>2. (CHOOSE s \in Seats : TRUE) \in Seats  OBVIOUS
<1>3. QED  BY <1>1, <1>2 DEF EmptyRow, Row, Statuses, Phases

LEMMA NewRowType ==
  ASSUME now \in Nat, NEW u \in Users, NEW s \in Seats, NEW from \in Int, NEW d \in Durations
  PROVE  NewRow(u, s, from, d) \in Row
<1>1. d \in Nat /\ Price[d] \in Nat  OBVIOUS
<1>2. QED  BY <1>1 DEF NewRow, Row, Statuses, Phases

\* The rows the handlers write are rows.
LEMMA WrittenRowType ==
  ASSUME NEW r \in Row
  PROVE  /\ Activate(r) \in Row
         /\ PaidRow(r) \in Row
         /\ \A st \in Statuses : [r EXCEPT !.status = st] \in Row
         /\ \A ph \in Phases : [r EXCEPT !.phase = ph] \in Row
         /\ \A t \in Int : [r EXCEPT !.endAt = t] \in Row /\ [r EXCEPT !.createdAt = t] \in Row
         /\ NormalizePhase(r, now) \in Phases
<1>1. /\ Activate(r) \in Row
      /\ \A st \in Statuses : [r EXCEPT !.status = st] \in Row
      /\ \A ph \in Phases : [r EXCEPT !.phase = ph] \in Row
      /\ \A t \in Int : [r EXCEPT !.endAt = t] \in Row /\ [r EXCEPT !.createdAt = t] \in Row
  BY DEF Activate, Row, Statuses, Phases
<1>2. PaidRow(r) \in Row
  <2>1. CASE now >= r.startAt
    BY <1>1, <2>1 DEF PaidRow
  <2>2. CASE ~(now >= r.startAt)
    <3> DEFINE ph == IF InDoorWindow(r, now) THEN "arrival" ELSE "awaiting_arrival"
    <3>1. ph \in Phases  BY DEF Phases
    <3>2. PaidRow(r) = [r EXCEPT !.status = "paid", !.phase = ph]  BY <2>2 DEF PaidRow
    <3> HIDE DEF ph
    <3>3. QED  BY <3>1, <3>2 DEF Row, Statuses
  <2>3. QED  BY <2>1, <2>2
<1>3. NormalizePhase(r, now) \in Phases
  BY DEF NormalizePhase, Phases, Row
<1>4. QED  BY <1>1, <1>2, <1>3

LEMMA ExtendedType ==
  ASSUME NEW r \in Row, NEW q \in Row, NEW d \in Additions
  PROVE  /\ Extended(r, q, d) \in Row
         /\ Extended(r, q, d).price = q.price + Price[d]
         /\ Extended(r, q, d).status = r.status
<1> DEFINE e == q.endAt + d
           n == q.duration + d
           k == q.price + Price[d]
<1>1. d \in Nat /\ Price[d] \in Nat  OBVIOUS
<1>2. e \in Int /\ n \in Nat /\ k \in Nat
  <2>1. q.endAt \in Int /\ q.duration \in Nat /\ q.price \in Nat  BY DEF Row
  <2>2. QED  BY <1>1, <2>1
<1>3. Extended(r, q, d) = [r EXCEPT !.endAt = e, !.duration = n, !.price = k]
  BY DEF Extended
<1>4. k = q.price + Price[d]  OBVIOUS
<1> HIDE DEF e, n, k
<1> DEFINE w == [r EXCEPT !.endAt = e, !.duration = n, !.price = k]
<1>5. w \in Row /\ w.price = k /\ w.status = r.status
  BY <1>2 DEF Row
<1>6. QED  BY <1>3, <1>4, <1>5

\* An extension leaves the seat and the start, and lengthens what it has read.
LEMMA ExtendedTimes ==
  ASSUME NEW r \in Row, NEW q \in Row, NEW d \in Additions
  PROVE  /\ Extended(r, q, d).startAt = r.startAt /\ Extended(r, q, d).seat = r.seat
         /\ Extended(r, q, d).endAt = q.endAt + d
         /\ Extended(r, q, d).duration = q.duration + d
BY DEF Extended, Row

-----------------------------------------------------------------------------
(* What the charging steps do to the tables.                               *)

Charge == [payments : Nat, extensions : Nat, sum : Nat]

LEMMA TakePaymentEffect ==
  ASSUME TablesOK, NEW b \in BookingIds, NEW r \in Row, TakePayment(b, r)
  PROVE  /\ balance' \in [Users -> Int] /\ ledger' \in [Users -> Int]
         /\ charge' \in [BookingIds -> Charge]
         /\ charge'[b].payments = charge[b].payments + 1
         /\ charge'[b].sum = charge[b].sum + r.price
         /\ \A c \in BookingIds \ {b} : charge'[c] = charge[c]
<1> DEFINE x == charge[b].payments + 1
           y == charge[b].sum + r.price
           k == -r.price
<1>1. r.user \in Users /\ k \in Int /\ x \in Nat /\ y \in Nat
  <2>1. r.user \in Users /\ r.price \in Nat  BY DEF Row
  <2>2. charge[b].payments \in Nat /\ charge[b].sum \in Nat  BY DEF TablesOK
  <2>3. QED  BY <2>1, <2>2
<1>2. /\ balance' = [balance EXCEPT ![r.user] = @ + k]
      /\ ledger' = [ledger EXCEPT ![r.user] = @ + k]
  BY DEF TakePayment, Book
<1>3. charge' = [charge EXCEPT ![b] = [charge[b] EXCEPT !.payments = x, !.sum = y]]
  BY DEF TakePayment, TablesOK
<1>4. x = charge[b].payments + 1 /\ y = charge[b].sum + r.price  OBVIOUS
<1> HIDE DEF x, y, k
<1>5. balance' \in [Users -> Int] /\ ledger' \in [Users -> Int]
  BY <1>1, <1>2 DEF TablesOK
<1>6. charge \in [BookingIds -> Charge]  BY DEF TablesOK, Charge
<1>7. /\ [charge[b] EXCEPT !.payments = x, !.sum = y] \in Charge
      /\ [charge[b] EXCEPT !.payments = x, !.sum = y].payments = x
      /\ [charge[b] EXCEPT !.payments = x, !.sum = y].sum = y
  BY <1>1, <1>6 DEF Charge
<1>8. QED  BY <1>3, <1>4, <1>5, <1>6, <1>7

LEMMA TakeExtensionEffect ==
  ASSUME TablesOK, NEW b \in BookingIds, NEW r \in Row, NEW d \in Additions, TakeExtension(b, r, d)
  PROVE  /\ balance' \in [Users -> Int] /\ ledger' \in [Users -> Int]
         /\ charge' \in [BookingIds -> Charge]
         /\ charge'[b].payments = charge[b].payments
         /\ charge'[b].sum = charge[b].sum + Price[d]
         /\ \A c \in BookingIds \ {b} : charge'[c] = charge[c]
<1> DEFINE x == charge[b].extensions + 1
           y == charge[b].sum + Price[d]
           k == -Price[d]
<1>1. r.user \in Users /\ k \in Int /\ x \in Nat /\ y \in Nat
  <2>1. r.user \in Users /\ Price[d] \in Nat  BY DEF Row
  <2>2. charge[b].extensions \in Nat /\ charge[b].sum \in Nat  BY DEF TablesOK
  <2>3. QED  BY <2>1, <2>2
<1>2. /\ balance' = [balance EXCEPT ![r.user] = @ + k]
      /\ ledger' = [ledger EXCEPT ![r.user] = @ + k]
  BY DEF TakeExtension, Book
<1>3. charge' = [charge EXCEPT ![b] = [charge[b] EXCEPT !.extensions = x, !.sum = y]]
  BY DEF TakeExtension, TablesOK
<1>4. y = charge[b].sum + Price[d]  OBVIOUS
<1> HIDE DEF x, y, k
<1>5. balance' \in [Users -> Int] /\ ledger' \in [Users -> Int]
  BY <1>1, <1>2 DEF TablesOK
<1>6. charge \in [BookingIds -> Charge]  BY DEF TablesOK, Charge
<1>7. /\ [charge[b] EXCEPT !.extensions = x, !.sum = y] \in Charge
      /\ [charge[b] EXCEPT !.extensions = x, !.sum = y].payments = charge[b].payments
      /\ [charge[b] EXCEPT !.extensions = x, !.sum = y].sum = y
  BY <1>1, <1>6 DEF Charge
<1>8. QED  BY <1>3, <1>4, <1>5, <1>6, <1>7

\* A payment does not count as an extension, an extension does.
LEMMA ChargeKinds ==
  ASSUME TablesOK, NEW b \in BookingIds, NEW r \in Row
  PROVE  /\ TakePayment(b, r) => charge'[b].extensions = charge[b].extensions
         /\ \A d \in Additions : TakeExtension(b, r, d) => charge'[b].extensions > 0
<1>1. charge[b].extensions \in Nat
  BY DEF TablesOK
<1>2. QED BY <1>1 DEF TablesOK, TakePayment, TakeExtension

=============================================================================
