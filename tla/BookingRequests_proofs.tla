----------------------- MODULE BookingRequests_proofs -----------------------
(***************************************************************************)
(* Type correctness of BookingRequests and the theorem that, whatever      *)
(* requests overlap, nobody plays on credit.                               *)
(***************************************************************************)
EXTENDS BookingRequests, BookingTables_proofs, TLAPS

USE TablesAssumption, RulesAssumption, RequestsAssumption

LEMMA IdleType == Idle \in Request
  BY EmptyRowType DEF Idle, Request, PCs, Statuses, BookingIds

LEMMA ConfirmedType ==
  ASSUME NEW r \in Row, NEW q \in Row
  PROVE  /\ ConfirmedRow(r, q) \in Row
         /\ ConfirmedRow(r, q).status = q.status
         /\ ConfirmedRow(r, q).price = r.price
<1> DEFINE e == IF q.status = "active" THEN q.endAt ELSE r.endAt
           w == [r EXCEPT !.status = q.status, !.phase = q.phase, !.started = q.started,
                          !.endAt = e]
<1>1. q.status \in Statuses \cup {"none"} /\ q.phase \in Phases /\ q.started \in BOOLEAN
      /\ e \in Int
  BY DEF Row
<1>2. ConfirmedRow(r, q) = w  BY DEF ConfirmedRow
<1> HIDE DEF e
<1>3. w \in Row /\ w.status = q.status /\ w.price = r.price  BY <1>1 DEF Row
<1>4. QED  BY <1>2, <1>3

-----------------------------------------------------------------------------
(* Type correctness.                                                       *)

\* Each way an action updates its request record leaves a request record.
LEMMA BecomeType ==
  ASSUME TypeOK, NEW p \in Procs, NEW r \in Request, Become(p, r)
  PROVE  req' \in [Procs -> Request]
  BY DEF TypeOK, Become

LEMMA WriteType ==
  ASSUME TypeOK, NEW b \in BookingIds, NEW r \in Row, Write(b, r)
  PROVE  bookings' \in [BookingIds -> Row]
  BY DEF TypeOK, TablesOK, Write

LEMMA InitType == Init => TypeOK
<1> SUFFICES ASSUME Init PROVE TypeOK  OBVIOUS
<1>1. TablesOK  BY EmptyRowType DEF Init, TablesOK
<1>2. req \in [Procs -> Request]  BY IdleType DEF Init
<1>3. QED  BY <1>1, <1>2 DEF TypeOK

\* What a request arrives with.
LEMMA ArriveRequest ==
  ASSUME TypeOK, NEW p \in Procs, Arrive(p)
  PROVE  \E r \in Request : /\ Begin(p, r)
                            /\ r.then = "idle" /\ r.ret = "idle"
                            /\ r.op = "extend" => r.arg \in Additions
<1> DEFINE Fresh(r) == /\ r \in Request
                       /\ r.then = "idle" /\ r.ret = "idle"
                       /\ r.op = "extend" => r.arg \in Additions
<1>1. Idle \in Request /\ Idle.then = "idle" /\ Idle.ret = "idle"
  BY IdleType DEF Idle
<1> SUFFICES \E r : Fresh(r) /\ Begin(p, r)  OBVIOUS
<1>2. CASE Begin(p, [Idle EXCEPT !.op = "tick"])
  <2>1. Fresh([Idle EXCEPT !.op = "tick"])
    BY <1>1, <1>2 DEF Begin, Request, Handlers
  <2>2. QED  BY <1>2, <2>1
<1>3. CASE \E b \in BookingIds, op \in {"pay", "end", "cancel", "adminCancel"} :
              Begin(p, [Idle EXCEPT !.op = op, !.b = b])
  <2>1. PICK b \in BookingIds, op \in {"pay", "end", "cancel", "adminCancel"} :
           Begin(p, [Idle EXCEPT !.op = op, !.b = b])
    BY <1>3
  <2>2. Fresh([Idle EXCEPT !.op = op, !.b = b])
    BY <1>1, <2>1 DEF Begin, Request, Handlers
  <2>3. QED  BY <2>1, <2>2
<1>4. CASE \E b \in BookingIds, d \in Additions :
              Begin(p, [Idle EXCEPT !.op = "extend", !.b = b, !.arg = d])
  <2>1. PICK b \in BookingIds, d \in Additions :
           Begin(p, [Idle EXCEPT !.op = "extend", !.b = b, !.arg = d])
    BY <1>4
  <2>2. d \in Int  OBVIOUS
  <2>3. Fresh([Idle EXCEPT !.op = "extend", !.b = b, !.arg = d])
    BY <1>1, <2>1, <2>2 DEF Begin, Request, Handlers
  <2>4. QED  BY <2>1, <2>3
<1>5. CASE \E u \in Users : Begin(p, [Idle EXCEPT !.op = "getActive", !.row.user = u])
  <2>1. PICK u \in Users : Begin(p, [Idle EXCEPT !.op = "getActive", !.row.user = u])
    BY <1>5
  <2>2. [Idle.row EXCEPT !.user = u] \in Row  BY <1>1 DEF Request, Row
  <2>3. Fresh([Idle EXCEPT !.op = "getActive", !.row.user = u])
    BY <1>1, <2>1, <2>2 DEF Begin, Request, Handlers
  <2>4. QED  BY <2>1, <2>3
<1>6. CASE \E u \in Users, a \in Adjustments :
              Begin(p, [Idle EXCEPT !.op = "adjust", !.row.user = u, !.arg = a])
  <2>1. PICK u \in Users, a \in Adjustments :
           Begin(p, [Idle EXCEPT !.op = "adjust", !.row.user = u, !.arg = a])
    BY <1>6
  <2>2. [Idle.row EXCEPT !.user = u] \in Row /\ a \in Int  BY <1>1 DEF Request, Row
  <2>3. Fresh([Idle EXCEPT !.op = "adjust", !.row.user = u, !.arg = a])
    BY <1>1, <2>1, <2>2 DEF Begin, Request, Handlers
  <2>4. QED  BY <2>1, <2>3
<1>7. CASE \E u \in Users, s \in Seats, from \in now..MaxNow, d \in Durations :
              Begin(p, [Idle EXCEPT !.op = "create", !.row = NewRow(u, s, from, d)])
  <2>1. PICK u \in Users, s \in Seats, from \in now..MaxNow, d \in Durations :
           Begin(p, [Idle EXCEPT !.op = "create", !.row = NewRow(u, s, from, d)])
    BY <1>7
  <2>2. now \in Nat /\ from \in Int  BY DEF TypeOK, TablesOK
  <2>3. NewRow(u, s, from, d) \in Row  BY <2>2, NewRowType
  <2>4. Fresh([Idle EXCEPT !.op = "create", !.row = NewRow(u, s, from, d)])
    BY <1>1, <2>1, <2>3 DEF Begin, Request, Handlers
  <2>5. QED  BY <2>1, <2>4
<1> HIDE DEF Fresh
<1>8. QED  BY <1>2, <1>3, <1>4, <1>5, <1>6, <1>7 DEF Arrive

\* Every pc an action names is one.
LEMMA PcTypes ==
  \A pc \in {"idle", "stale", "expired", "due", "release", "releaseWrite", "start", "startWrite",
             "createInsert", "activeRead", "activePhase", "activeWrite", "paySlot", "payBalance",
             "payFind", "payCommit", "extendBalance", "extendCommit", "endWrite", "adminWrite",
             "adjustWrite"} : pc \in PCs
  BY DEF PCs

-----------------------------------------------------------------------------
(* What the writing steps do to the tables.                                *)

\* Between two states of the tables: charges only grow, a booking once
\* inserted stays, and its price moves only once it has been charged.
Grows(bk, ch, bk2, ch2) ==
    \A b \in BookingIds :
        /\ ch2[b].payments >= ch[b].payments /\ ch2[b].sum >= ch[b].sum
        /\ bk[b].status # "none" => bk2[b].status # "none"
        /\ bk[b].status # "none" /\ ch2[b].payments = 0 => bk2[b].price = bk[b].price

\* A step that writes one row and takes no money.
LEMMA WriteEffect ==
  ASSUME TypeOK, ChargeInv(bookings, charge), UNCHANGED <<now, money>>,
         NEW b \in BookingIds, NEW r \in Row, Write(b, r),
         r.status # "none",
         bookings[b].status # "none" => r.price = bookings[b].price,
         r.status \in {"paid", "active", "completed", "no_show"} => charge[b].payments >= 1
  PROVE  TablesOK' /\ ChargeInv(bookings, charge)' /\ Grows(bookings, charge, bookings', charge')
<1>1. bookings' = [bookings EXCEPT ![b] = r] /\ charge' = charge
  BY DEF Write, money
<1>2. TablesOK'
  <2>1. bookings' \in [BookingIds -> Row]  BY WriteType
  <2>2. QED  BY <2>1 DEF TypeOK, TablesOK, money
<1>3. /\ \A c \in BookingIds \ {b} : bookings'[c] = bookings[c]
      /\ bookings'[b] = r
      /\ \A c \in BookingIds : charge[c].payments \in Nat /\ charge[c].sum \in Nat
  BY <1>1 DEF TypeOK, TablesOK
<1>4. Grows(bookings, charge, bookings', charge')
  BY <1>1, <1>3 DEF Grows
<1>5. \A c \in BookingIds \ {b} :
         /\ bookings'[c].status = "none" => charge[c].payments = 0
         /\ bookings'[c].status \in {"paid", "active", "completed", "no_show"} => charge[c].payments >= 1
         /\ charge[c].payments >= 1 => charge[c].sum >= bookings'[c].price
  BY <1>3 DEF ChargeInv
<1>6. charge[b].payments >= 1 => charge[b].sum >= r.price
  <2>1. CASE bookings[b].status # "none"  BY <2>1 DEF ChargeInv
  <2>2. CASE bookings[b].status = "none"  BY <1>3, <2>2 DEF ChargeInv
  <2>3. QED  BY <2>1, <2>2
<1>7. \A c \in BookingIds :
         /\ bookings'[c].status = "none" => charge'[c].payments = 0
         /\ bookings'[c].status \in {"paid", "active", "completed", "no_show"} => charge'[c].payments >= 1
         /\ charge'[c].payments >= 1 => charge'[c].sum >= bookings'[c].price
  BY <1>1, <1>3, <1>5, <1>6
<1>8. ChargeInv(bookings, charge)'  BY <1>7 DEF ChargeInv
<1>9. QED  BY <1>2, <1>4, <1>8

-----------------------------------------------------------------------------
(* What the requests may rely on.                                          *)

\* The reads of a request stay good enough while the tables grow.
LEMMA Stable ==
  ASSUME TypeOK, TablesOK', Grows(bookings, charge, bookings', charge'),
         NEW q \in Request, Entitled(q, bookings, charge)
  PROVE  Entitled(q, bookings', charge')
<1>1. q.b \in BookingIds /\ q.cur \in BookingIds /\ q.list \subseteq BookingIds
      /\ q.row.price \in Nat
  BY DEF Request, Row
<1>2. \A c \in BookingIds :
         /\ charge[c].payments \in Nat /\ charge[c].sum \in Nat
         /\ charge'[c].payments \in Nat /\ charge'[c].sum \in Nat
         /\ charge'[c].payments >= charge[c].payments /\ charge'[c].sum >= charge[c].sum
  BY DEF TypeOK, TablesOK, Grows
<1>3. \A c \in BookingIds :
         /\ charge[c].payments >= 1 => charge'[c].payments >= 1
         /\ charge[c].sum >= q.row.price => charge'[c].sum >= q.row.price
         /\ charge'[c].payments = 0 => charge[c].payments = 0
  BY <1>1, <1>2
<1>4. /\ bookings[q.b].status # "none" => bookings'[q.b].status # "none"
      /\ bookings[q.b].status # "none" /\ charge'[q.b].payments = 0 =>
             bookings'[q.b].price = bookings[q.b].price
  BY <1>1 DEF Grows
<1>5. \A x \in q.list : charge[x].payments >= 1 => charge'[x].payments >= 1
  BY <1>1, <1>3
<1>6. QED  BY <1>1, <1>3, <1>4, <1>5 DEF Entitled

\* The places where a request relies on nothing.
Plain == PCs \ {"release", "releaseWrite", "startWrite", "paySlot", "payBalance", "payFind",
                "payCommit", "extendRead", "extendBalance", "extendCommit", "endWrite"}

LEMMA PlainEntitled ==
  ASSUME NEW q, q.pc \in Plain, q.then \in Returns, q.ret \in Returns, NEW bk, NEW ch
  PROVE  Entitled(q, bk, ch)
  BY DEF Plain, Entitled

\* A step that lets the tables grow and leaves its own request entitled.
LEMMA OneRequest ==
  ASSUME IInv, TablesOK', ChargeInv(bookings, charge)',
         Grows(bookings, charge, bookings', charge'),
         NEW p \in Procs, NEW r \in Request, Become(p, r), Entitled(r, bookings', charge')
  PROVE  IInv'
<1>1. TypeOK'
  BY BecomeType DEF IInv, TypeOK
<1>2. \A o \in Procs : Entitled(req'[o], bookings', charge')
  <2>1. TAKE o \in Procs
  <2>2. CASE o = p
    BY <2>2 DEF Become, IInv, TypeOK
  <2>3. CASE o # p
    <3>1. req'[o] = req[o] /\ req[o] \in Request /\ Entitled(req[o], bookings, charge)
      BY <2>3 DEF Become, IInv, TypeOK
    <3>2. QED  BY <3>1, Stable DEF IInv
  <2>4. QED  BY <2>2, <2>3
<1>3. QED  BY <1>1, <1>2 DEF IInv

\* Reading changes no table.
LEMMA SameTables ==
  ASSUME IInv, UNCHANGED tables
  PROVE  TablesOK' /\ ChargeInv(bookings, charge)' /\ Grows(bookings, charge, bookings', charge')
<1>1. TablesOK'  BY DEF IInv, TypeOK, TablesOK, tables
<1>2. ChargeInv(bookings, charge)'  BY DEF IInv, ChargeInv, tables
<1>3. \A b \in BookingIds : charge[b].payments \in Nat /\ charge[b].sum \in Nat
  BY DEF IInv, TypeOK, TablesOK
<1>4. Grows(bookings, charge, bookings', charge')  BY <1>3 DEF Grows, tables
<1>5. QED  BY <1>1, <1>2, <1>4

LEMMA IdleEntitled ==
  ASSUME NEW bk, NEW ch  PROVE Entitled(Idle, bk, ch)
<1>1. Idle.pc \in Plain /\ Idle.then \in Returns /\ Idle.ret \in Returns
  BY DEF Idle, Plain, PCs, Returns
<1>2. QED  BY <1>1, PlainEntitled

\* The shapes in which a step goes on.
LEMMA DoneKeeps ==
  ASSUME IInv, TablesOK', ChargeInv(bookings, charge)',
         Grows(bookings, charge, bookings', charge'), NEW p \in Procs, Done(p)
  PROVE  IInv'
  BY OneRequest, IdleType, IdleEntitled DEF Done

LEMMA GotoKeeps ==
  ASSUME IInv, TablesOK', ChargeInv(bookings, charge)',
         Grows(bookings, charge, bookings', charge'), NEW p \in Procs,
         NEW pc \in Plain, Goto(p, pc)
  PROVE  IInv'
<1> DEFINE r == [req[p] EXCEPT !.pc = pc]
<1>1. pc \in PCs  BY DEF Plain
<1>2. r \in Request  BY <1>1 DEF IInv, TypeOK, Request
<1>3. r.pc = pc /\ r.then = req[p].then /\ r.ret = req[p].ret
  BY DEF IInv, TypeOK, Request
<1>4. req[p].then \in Returns /\ req[p].ret \in Returns  BY DEF IInv, Entitled
<1> HIDE DEF r
<1>5. Entitled(r, bookings', charge')  BY <1>3, <1>4, PlainEntitled
<1>6. Become(p, r)  BY DEF Goto, r
<1>7. QED  BY <1>2, <1>5, <1>6, OneRequest

\* Working through a list: the same list shortened, or a list of due starts.
LEMMA WorkKeeps ==
  ASSUME IInv, TablesOK', ChargeInv(bookings, charge)',
         Grows(bookings, charge, bookings', charge'), NEW p \in Procs,
         NEW list \in SUBSET BookingIds, NEW pc \in {"release", "start"}, NEW ret \in Returns,
         pc = "release" /\ req[p].goal # "cancelled" => \A x \in list : charge'[x].payments >= 1,
         Work(p, list, pc, ret)
  PROVE  IInv'
<1> DEFINE r == [req[p] EXCEPT !.list = list, !.pc = pc, !.ret = ret]
           s == [req[p] EXCEPT !.list = {}, !.pc = ret, !.ret = "idle"]
<1>1. pc \in PCs /\ ret \in PCs /\ ret \in Plain /\ "idle" \in PCs /\ "idle" \in Returns
  BY DEF PCs, Returns, Plain
<1>2. req[p] \in Request /\ req[p].then \in Returns  BY DEF IInv, TypeOK, Entitled
<1>3. r \in Request /\ r.pc = pc /\ r.list = list /\ r.goal = req[p].goal
      /\ r.then = req[p].then /\ r.ret = ret
  BY <1>1, <1>2 DEF Request
<1>4. s \in Request /\ s.pc = ret /\ s.then = req[p].then /\ s.ret = "idle"
  BY <1>1, <1>2 DEF Request
<1>5. Work(p, list, pc, ret) => Become(p, r) \/ Done(p) \/ Become(p, s)
  BY DEF Work
<1> HIDE DEF r, s
<1>6. CASE Become(p, r)
  <2>1. Entitled(r, bookings', charge')
    BY <1>2, <1>3 DEF Entitled
  <2>2. QED  BY <1>3, <1>6, <2>1, OneRequest
<1>7. CASE Become(p, s)
  <2>1. Entitled(s, bookings', charge')
    BY <1>1, <1>2, <1>4, PlainEntitled
  <2>2. QED  BY <1>4, <1>7, <2>1, OneRequest
<1>8. CASE Done(p)
  BY <1>8, DoneKeeps
<1>9. QED  BY <1>5, <1>6, <1>7, <1>8

-----------------------------------------------------------------------------
(* The invariant is inductive: one lemma per group of steps.               *)

LEMMA InitInv == Init => IInv
<1> SUFFICES ASSUME Init PROVE IInv  OBVIOUS
<1>1. TypeOK  BY InitType
<1>2. ChargeInv(bookings, charge)
  <2>1. \A b \in BookingIds : /\ bookings[b] = EmptyRow
                              /\ charge[b].payments = 0
    BY DEF Init
  <2>2. EmptyRow.status = "none"  BY DEF EmptyRow
  <2>3. QED  BY <2>1, <2>2 DEF ChargeInv
<1>3. \A p \in Procs : Entitled(req[p], bookings, charge)
  <2>1. \A p \in Procs : req[p] = Idle  BY DEF Init
  <2>2. QED  BY <2>1, IdleEntitled
<1>4. QED  BY <1>1, <1>2, <1>3 DEF IInv

LEMMA ArriveKeeps ==
  ASSUME IInv, NEW p \in Procs, Arrive(p)
  PROVE  IInv'
<1>1. /\ TypeOK /\ TablesOK' /\ ChargeInv(bookings, charge)'
      /\ Grows(bookings, charge, bookings', charge')
  BY SameTables DEF IInv, Arrive, Begin
<1>2. PICK r \in Request : /\ Begin(p, r)
                           /\ r.then = "idle" /\ r.ret = "idle"
                           /\ r.op = "extend" => r.arg \in Additions
  BY <1>1, ArriveRequest
<1>3. "idle" \in Returns  BY DEF Returns
<1>4. CASE r.op \in {"create", "pay", "getActive", "tick"}
  <2> DEFINE s == [r EXCEPT !.pc = "stale", !.then = AfterSync(r.op)]
  <2>1. AfterSync(r.op) \in Returns /\ AfterSync(r.op) \in PCs
    BY <1>4 DEF AfterSync, Returns, PCs
  <2>2. s \in Request /\ s.pc = "stale" /\ s.then = AfterSync(r.op) /\ s.ret = "idle"
    BY <1>2, <2>1, PcTypes DEF Request
  <2>3. Become(p, s)  BY <1>2, <1>4 DEF Begin
  <2> HIDE DEF s
  <2>4. s.pc \in Plain  BY <2>2 DEF Plain, PCs
  <2>5. Entitled(s, bookings', charge')  BY <1>3, <2>1, <2>2, <2>4, PlainEntitled
  <2>6. QED  BY <1>1, <2>2, <2>3, <2>5, OneRequest
<1>5. CASE r.op \notin {"create", "pay", "getActive", "tick"}
  <2> DEFINE s == [r EXCEPT !.pc = FirstRead(r.op)]
  <2>1. \/ FirstRead(r.op) = "extendRead" /\ r.op = "extend"
        \/ FirstRead(r.op) \in {"endRead", "cancelRead", "adminRead", "adjustRead"}
    BY <1>2, <1>5 DEF FirstRead, Begin, Handlers
  <2>2. FirstRead(r.op) \in PCs  BY <2>1 DEF PCs
  <2>3. s \in Request /\ s.pc = FirstRead(r.op) /\ s.then = "idle" /\ s.ret = "idle"
        /\ s.arg = r.arg
    BY <1>2, <2>2 DEF Request
  <2>4. Become(p, s)  BY <1>2, <1>5 DEF Begin
  <2> HIDE DEF s
  <2>5. Entitled(s, bookings', charge')
    <3>1. CASE s.pc \in {"endRead", "cancelRead", "adminRead", "adjustRead"}
      BY <1>3, <2>3, <3>1, PlainEntitled DEF Plain, PCs
    <3>2. CASE s.pc = "extendRead" /\ r.op = "extend"
      BY <1>2, <1>3, <2>3, <3>2 DEF Entitled
    <3>3. QED  BY <2>1, <2>3, <3>1, <3>2
  <2>6. QED  BY <1>1, <2>3, <2>4, <2>5, OneRequest
<1>6. QED  BY <1>4, <1>5

\* Reading on behalf of the sync pass and of getActive, create and the administrator.
LEMMA SyncReadKeeps ==
  ASSUME IInv, NEW p \in Procs,
         \/ Stale(p) \/ ListExpired(p) \/ ListDue(p) \/ ReleaseRead(p) \/ StartRead(p)
  PROVE  IInv'
<1> DEFINE q == req[p]
<1>1. UNCHANGED tables
  BY DEF Stale, ListExpired, ListDue, ReleaseRead, StartRead
<1>2. /\ TablesOK' /\ ChargeInv(bookings, charge)'
      /\ Grows(bookings, charge, bookings', charge')
  BY <1>1, SameTables
<1>3. q \in Request /\ Entitled(q, bookings, charge) /\ q.then \in Returns /\ q.ret \in Returns
      /\ TypeOK /\ now \in Int
  BY DEF IInv, TypeOK, TablesOK, Entitled
<1>4. bookings' = bookings /\ charge' = charge  BY <1>1 DEF tables
<1>p. /\ {"expired", "due"} \subseteq Returns
      /\ {"expired", "due", "start"} \subseteq Plain
      /\ Plain \subseteq PCs
  BY DEF Returns, Plain, PCs
<1>5. CASE Stale(p)
  <2> DEFINE list == {b \in BookingIds : StalePending(bookings[b], now)}
             r == [q EXCEPT !.at = now, !.pc = "expired"]
             s == [q EXCEPT !.at = now, !.goal = "cancelled", !.list = list,
                            !.pc = "release", !.ret = "expired"]
  <2>1. Become(p, r) \/ Become(p, s)  BY <1>5 DEF Stale
  <2>2. list \subseteq BookingIds  OBVIOUS
  <2> HIDE DEF list
  <2>3. r \in Request /\ r.pc = "expired" /\ r.then = q.then /\ r.ret = q.ret
    BY <1>3, <1>p DEF Request
  <2>4. s \in Request /\ s.pc = "release" /\ s.goal = "cancelled" /\ s.then = q.then
        /\ s.ret = "expired"
    BY <1>3, <1>p, <2>2, PcTypes DEF Request, Statuses
  <2> HIDE DEF r, s
  <2>5. Entitled(r, bookings', charge')  BY <1>3, <1>p, <2>3, PlainEntitled
  <2>6. Entitled(s, bookings', charge')  BY <1>3, <1>p, <2>4 DEF Entitled
  <2>7. QED  BY <1>2, <2>1, <2>3, <2>4, <2>5, <2>6, OneRequest
<1>6. CASE ListExpired(p)
  <2> DEFINE list == {b \in BookingIds : Expired(bookings[b], q.at)}
             s == [q EXCEPT !.goal = "completed", !.list = list, !.pc = "release", !.ret = "due"]
  <2>1. Goto(p, "due") \/ Become(p, s)  BY <1>6 DEF ListExpired
  <2>2. list \subseteq BookingIds /\ \A b \in list : charge[b].payments >= 1
    BY DEF Expired, IInv, ChargeInv
  <2> HIDE DEF list
  <2>3. s \in Request /\ s.pc = "release" /\ s.list = list /\ s.then = q.then /\ s.ret = "due"
    BY <1>3, <2>2, PcTypes DEF Request, Statuses
  <2> HIDE DEF s
  <2>4. Entitled(s, bookings', charge')
    BY <1>3, <1>4, <1>p, <2>2, <2>3 DEF Entitled
  <2>5. QED  BY <1>2, <1>p, <2>1, <2>3, <2>4, OneRequest, GotoKeeps
<1>7. CASE ListDue(p)
  BY <1>2, <1>3, <1>7, WorkKeeps DEF ListDue
<1>8. CASE ReleaseRead(p)
  <2>1. PICK b \in q.list :
           IF bookings[b].status \in {"completed", "cancelled"}
           THEN Work(p, q.list \ {b}, "release", q.ret)
           ELSE Become(p, [q EXCEPT !.cur = b, !.pc = "releaseWrite"])
    BY <1>8 DEF ReleaseRead
  <2>2. q.list \subseteq BookingIds /\ b \in BookingIds  BY <1>3 DEF Request
  <2>3. q.goal # "cancelled" => \A x \in q.list : charge'[x].payments >= 1
    BY <1>3, <1>4, <1>8 DEF ReleaseRead, At, Entitled
  <2>4. CASE bookings[b].status \in {"completed", "cancelled"}
    <3>1. q.list \ {b} \in SUBSET BookingIds  BY <2>2
    <3>2. Work(p, q.list \ {b}, "release", q.ret)  BY <2>1, <2>4
    <3>3. QED  BY <1>2, <1>3, <2>3, <3>1, <3>2, WorkKeeps
  <2>5. CASE bookings[b].status \notin {"completed", "cancelled"}
    <3> DEFINE s == [q EXCEPT !.cur = b, !.pc = "releaseWrite"]
    <3>1. Become(p, s)  BY <2>1, <2>5
    <3>2. s \in Request /\ s.pc = "releaseWrite" /\ s.list = q.list /\ s.goal = q.goal
          /\ s.cur = b /\ s.then = q.then /\ s.ret = q.ret
      BY <1>3, <2>2, PcTypes DEF Request
    <3> HIDE DEF s
    <3>3. Entitled(s, bookings', charge')
      BY <1>3, <2>3, <3>2 DEF Entitled
    <3>4. QED  BY <1>2, <3>1, <3>2, <3>3, OneRequest
  <2>6. QED  BY <2>4, <2>5
<1>9. CASE StartRead(p)
  <2>1. PICK b \in q.list :
           IF bookings[b].status = "paid" /\ now >= bookings[b].startAt
           THEN Become(p, [q EXCEPT !.cur = b, !.pc = "startWrite"])
           ELSE Work(p, q.list \ {b}, "start", q.ret)
    BY <1>9 DEF StartRead
  <2>2. q.list \subseteq BookingIds /\ b \in BookingIds  BY <1>3 DEF Request
  <2>3. CASE ~(bookings[b].status = "paid" /\ now >= bookings[b].startAt)
    <3>1. q.list \ {b} \in SUBSET BookingIds  BY <2>2
    <3>2. Work(p, q.list \ {b}, "start", q.ret)  BY <2>1, <2>3
    <3>3. QED  BY <1>2, <1>3, <3>1, <3>2, WorkKeeps
  <2>4. CASE bookings[b].status = "paid" /\ now >= bookings[b].startAt
    <3> DEFINE s == [q EXCEPT !.cur = b, !.pc = "startWrite"]
    <3>1. Become(p, s)  BY <2>1, <2>4
    <3>2. s \in Request /\ s.pc = "startWrite" /\ s.cur = b /\ s.then = q.then /\ s.ret = q.ret
      BY <1>3, <2>2, PcTypes DEF Request
    <3> HIDE DEF s
    <3>3. charge'[b].payments >= 1  BY <1>4, <2>2, <2>4 DEF IInv, ChargeInv
    <3>4. Entitled(s, bookings', charge')
      BY <1>3, <3>2, <3>3 DEF Entitled
    <3>5. QED  BY <1>2, <3>1, <3>2, <3>4, OneRequest
  <2>5. QED  BY <2>3, <2>4
<1>10. QED  BY <1>5, <1>6, <1>7, <1>8, <1>9

\* Reading that leads to a place where nothing is relied on.
LEMMA PlainReadKeeps ==
  ASSUME IInv, NEW p \in Procs,
         CreateSlot(p) \/ ActiveRead(p) \/ ActivePhase(p) \/ AdminRead(p) \/ AdjustRead(p)
  PROVE  IInv'
<1> DEFINE q == req[p]
<1>1. UNCHANGED tables
  BY DEF CreateSlot, ActiveRead, ActivePhase, AdminRead, AdjustRead
<1>2. /\ TablesOK' /\ ChargeInv(bookings, charge)'
      /\ Grows(bookings, charge, bookings', charge')
  BY <1>1, SameTables
<1>3. /\ q \in Request /\ q.then \in Returns /\ q.ret \in Returns /\ q.row \in Row
      /\ TypeOK /\ bookings \in [BookingIds -> Row]
  BY DEF IInv, TypeOK, TablesOK, Entitled, Request
<1>4. /\ {"stale", "createInsert", "start", "activePhase", "activeWrite", "adminWrite",
          "adjustWrite"} \subseteq Plain
      /\ {"activeRead", "activePhase"} \subseteq Returns
      /\ Returns \subseteq PCs /\ Plain \subseteq PCs
  BY DEF Plain, PCs, Returns
<1>5. ASSUME NEW r \in Request, Become(p, r), r.pc \in Plain, r.then \in Returns, r.ret \in Returns
      PROVE  IInv'
  BY <1>2, <1>5, PlainEntitled, OneRequest
<1>6. CASE CreateSlot(p)
  <2> DEFINE r == [q EXCEPT !.pc = "stale", !.then = "activeRead"]
  <2>1. Done(p) \/ Become(p, r)  BY <1>6 DEF CreateSlot
  <2>2. r \in Request /\ r.pc \in Plain /\ r.then \in Returns /\ r.ret \in Returns
    BY <1>3, <1>4 DEF Request
  <2> HIDE DEF r
  <2>3. QED  BY <1>2, <1>5, <2>1, <2>2, DoneKeeps
<1>7. CASE ActiveRead(p)
  <2>1. CASE Check(p, q.op = "create", "createInsert")
    BY <1>2, <1>4, <2>1, DoneKeeps, GotoKeeps DEF Check
  <2>2. CASE ~Check(p, q.op = "create", "createInsert")
    <3>1. PICK b \in BookingIds :
             Become(p, IF bookings[b].status = "paid" /\ now >= bookings[b].startAt
                       THEN [q EXCEPT !.op = "getActive", !.b = b, !.row = bookings[b],
                                      !.list = {b}, !.pc = "start", !.ret = "activePhase"]
                       ELSE [q EXCEPT !.op = "getActive", !.b = b, !.row = bookings[b],
                                      !.pc = "activePhase"])
      BY <1>7, <2>2 DEF ActiveRead
    <3> DEFINE r == [q EXCEPT !.op = "getActive", !.b = b, !.row = bookings[b],
                              !.list = {b}, !.pc = "start", !.ret = "activePhase"]
               t == [q EXCEPT !.op = "getActive", !.b = b, !.row = bookings[b],
                              !.pc = "activePhase"]
    <3>2. Become(p, r) \/ Become(p, t)  BY <3>1
    <3>3. bookings[b] \in Row  BY <1>3
    <3>4. r \in Request /\ r.pc \in Plain /\ r.then \in Returns /\ r.ret \in Returns
      BY <1>3, <1>4, <3>3 DEF Request, Handlers
    <3>5. t \in Request /\ t.pc \in Plain /\ t.then \in Returns /\ t.ret \in Returns
      BY <1>3, <1>4, <3>3 DEF Request, Handlers
    <3> HIDE DEF r, t
    <3>6. QED  BY <1>5, <3>2, <3>4, <3>5
  <2>3. QED  BY <2>1, <2>2
<1>8. CASE ActivePhase(p)
  <2> DEFINE phase == NormalizePhase(q.row, now)
             r == [q EXCEPT !.row.phase = phase, !.pc = "activeWrite"]
  <2>1. Done(p) \/ Become(p, r)  BY <1>8 DEF ActivePhase
  <2>2. phase \in Phases  BY <1>3, WrittenRowType
  <2> HIDE DEF phase
  <2>3. [q.row EXCEPT !.phase = phase] \in Row  BY <1>3, <2>2 DEF Row
  <2>4. r \in Request /\ r.pc \in Plain /\ r.then \in Returns /\ r.ret \in Returns
    BY <1>3, <1>4, <2>3 DEF Request
  <2> HIDE DEF r
  <2>5. QED  BY <1>2, <1>5, <2>1, <2>4, DoneKeeps
<1>9. CASE AdminRead(p)
  BY <1>2, <1>4, <1>9, DoneKeeps, GotoKeeps DEF AdminRead, Check
<1>10. CASE AdjustRead(p)
  <2> DEFINE n == balance[q.row.user] + q.arg
             r == [q EXCEPT !.at = n, !.pc = "adjustWrite"]
  <2>1. (n \in Int /\ Become(p, r)) \/ Done(p)  BY <1>10 DEF AdjustRead
  <2> HIDE DEF n
  <2>2. n \in Int => r \in Request /\ r.pc \in Plain /\ r.then \in Returns /\ r.ret \in Returns
    BY <1>3, <1>4 DEF Request
  <2> HIDE DEF r
  <2>3. QED  BY <1>2, <1>5, <2>1, <2>2, DoneKeeps
<1>11. QED  BY <1>6, <1>7, <1>8, <1>9, <1>10

\* payFromWallet up to its transaction.
LEMMA PayReadKeeps ==
  ASSUME IInv, NEW p \in Procs, PayRead(p) \/ PaySlot(p) \/ PayBalance(p) \/ PayFind(p)
  PROVE  IInv'
<1> DEFINE q == req[p]
<1>1. UNCHANGED tables
  BY DEF PayRead, PaySlot, PayBalance, PayFind
<1>2. /\ TablesOK' /\ ChargeInv(bookings, charge)'
      /\ Grows(bookings, charge, bookings', charge')
  BY <1>1, SameTables
<1>3. /\ q \in Request /\ q.then \in Returns /\ q.ret \in Returns /\ q.row \in Row
      /\ q.b \in BookingIds /\ bookings[q.b] \in Row /\ Entitled(q, bookings, charge)
  BY DEF IInv, TypeOK, TablesOK, Entitled, Request
<1>4. bookings' = bookings /\ charge' = charge  BY <1>1 DEF tables
<1>5. CASE PayRead(p)
  <2> DEFINE r == [q EXCEPT !.row = bookings[q.b], !.pc = "paySlot"]
  <2>1. Done(p) \/ (Payable(bookings[q.b]) /\ Become(p, r))  BY <1>5 DEF PayRead
  <2>2. r \in Request /\ r.pc = "paySlot" /\ r.then = q.then /\ r.ret = q.ret /\ r.b = q.b
        /\ r.row = bookings[q.b]
    BY <1>3, PcTypes DEF Request
  <2> HIDE DEF r
  <2>3. Payable(bookings[q.b]) => Entitled(r, bookings', charge')
    BY <1>3, <1>4, <2>2 DEF Entitled, Payable
  <2>4. QED  BY <1>2, <2>1, <2>2, <2>3, DoneKeeps, OneRequest
<1>6. CASE PaySlot(p)
  <2> DEFINE r == [q EXCEPT !.pc = "payBalance"]
  <2>1. Done(p) \/ Become(p, r)  BY <1>6 DEF PaySlot, Check, Goto
  <2>2. r \in Request /\ r.pc = "payBalance" /\ r.then = q.then /\ r.ret = q.ret /\ r.b = q.b
        /\ r.row = q.row
    BY <1>3, PcTypes DEF Request
  <2> HIDE DEF r
  <2>3. Entitled(r, bookings', charge')
    BY <1>3, <1>4, <1>6, <2>2 DEF Entitled, PaySlot, At
  <2>4. QED  BY <1>2, <2>1, <2>2, <2>3, DoneKeeps, OneRequest
<1>7. CASE PayBalance(p)
  <2> DEFINE w == PaidRow(q.row)
             r == [q EXCEPT !.row = w, !.pc = "payFind"]
  <2>1. Done(p) \/ Become(p, r)  BY <1>7 DEF PayBalance
  <2>2. w \in Row  BY <1>3, WrittenRowType
  <2>3. w.price = q.row.price /\ w.status \in {"paid", "active"}
    BY <1>3 DEF PaidRow, Activate, Row
  <2> HIDE DEF w
  <2>4. r \in Request /\ r.pc = "payFind" /\ r.then = q.then /\ r.ret = q.ret /\ r.b = q.b
        /\ r.row = w
    BY <1>3, <2>2, PcTypes DEF Request
  <2> HIDE DEF r
  <2>5. Entitled(r, bookings', charge')
    BY <1>3, <1>4, <1>7, <2>3, <2>4 DEF Entitled, PayBalance, At
  <2>6. QED  BY <1>2, <2>1, <2>4, <2>5, DoneKeeps, OneRequest
<1>8. CASE PayFind(p)
  <2> DEFINE f == charge[q.b].payments > 0
             r == [q EXCEPT !.found = f, !.pc = "payCommit"]
  <2>1. Become(p, r)  BY <1>8 DEF PayFind
  <2>2. f \in BOOLEAN  OBVIOUS
  <2>3. f => charge[q.b].payments >= 1
    BY <1>3 DEF IInv, TypeOK, TablesOK
  <2> HIDE DEF f
  <2>4. r \in Request /\ r.pc = "payCommit" /\ r.then = q.then /\ r.ret = q.ret /\ r.b = q.b
        /\ r.row = q.row /\ r.found = f
    BY <1>3, <2>2, PcTypes DEF Request
  <2> HIDE DEF r
  <2>5. Entitled(r, bookings', charge')
    BY <1>3, <1>4, <1>8, <2>3, <2>4 DEF Entitled, PayFind, At
  <2>6. QED  BY <1>2, <2>1, <2>4, <2>5, OneRequest
<1>9. QED  BY <1>5, <1>6, <1>7, <1>8

\* The other handlers up to their first write.
LEMMA OtherReadKeeps ==
  ASSUME IInv, NEW p \in Procs,
         ExtendRead(p) \/ ExtendBalance(p) \/ EndRead(p) \/ CancelRead(p) \/ NoShow(p)
  PROVE  IInv'
<1> DEFINE q == req[p]
<1>1. UNCHANGED tables
  BY DEF ExtendRead, ExtendBalance, EndRead, CancelRead, NoShow
<1>2. /\ TablesOK' /\ ChargeInv(bookings, charge)'
      /\ Grows(bookings, charge, bookings', charge')
  BY <1>1, SameTables
<1>3. /\ q \in Request /\ q.then \in Returns /\ q.ret \in Returns
      /\ q.b \in BookingIds /\ bookings[q.b] \in Row /\ Entitled(q, bookings, charge)
      /\ now \in Int
  BY DEF IInv, TypeOK, TablesOK, Entitled, Request
<1>4. bookings' = bookings /\ charge' = charge  BY <1>1 DEF tables
<1>5. CASE ExtendRead(p)
  <2> DEFINE r == [q EXCEPT !.row = bookings[q.b], !.pc = "extendBalance"]
  <2>1. Done(p) \/ (bookings[q.b].status = "active" /\ Become(p, r))
    BY <1>5 DEF ExtendRead, Playing
  <2>2. r \in Request /\ r.pc = "extendBalance" /\ r.then = q.then /\ r.ret = q.ret /\ r.b = q.b
        /\ r.row = bookings[q.b] /\ r.arg = q.arg
    BY <1>3, PcTypes DEF Request
  <2> HIDE DEF r
  <2>3. bookings[q.b].status = "active" =>
           charge[q.b].payments >= 1 /\ charge[q.b].sum >= bookings[q.b].price
    BY <1>3 DEF IInv, ChargeInv
  <2>4. q.arg \in Additions  BY <1>3, <1>5 DEF Entitled, ExtendRead, At
  <2>5. bookings[q.b].status = "active" => Entitled(r, bookings', charge')
    BY <1>3, <1>4, <2>2, <2>3, <2>4 DEF Entitled
  <2>6. QED  BY <1>2, <2>1, <2>2, <2>5, DoneKeeps, OneRequest
<1>6. CASE ExtendBalance(p)
  <2> DEFINE r == [q EXCEPT !.pc = "extendCommit"]
  <2>1. Done(p) \/ Become(p, r)  BY <1>6 DEF ExtendBalance, Check, Goto
  <2>2. r \in Request /\ r.pc = "extendCommit" /\ r.then = q.then /\ r.ret = q.ret /\ r.b = q.b
        /\ r.row = q.row /\ r.arg = q.arg
    BY <1>3, PcTypes DEF Request
  <2> HIDE DEF r
  <2>3. Entitled(r, bookings', charge')
    BY <1>3, <1>4, <1>6, <2>2 DEF Entitled, ExtendBalance, At
  <2>4. QED  BY <1>2, <2>1, <2>2, <2>3, DoneKeeps, OneRequest
<1>7. CASE EndRead(p)
  <2> DEFINE r == [q EXCEPT !.at = now, !.pc = "endWrite"]
  <2>1. Done(p) \/ (bookings[q.b].status = "active" /\ Become(p, r))  BY <1>7 DEF EndRead
  <2>2. r \in Request /\ r.pc = "endWrite" /\ r.then = q.then /\ r.ret = q.ret /\ r.b = q.b
    BY <1>3, PcTypes DEF Request
  <2> HIDE DEF r
  <2>3. bookings[q.b].status = "active" => charge[q.b].payments >= 1
    BY <1>3 DEF IInv, ChargeInv
  <2>4. bookings[q.b].status = "active" => Entitled(r, bookings', charge')
    BY <1>3, <1>4, <2>2, <2>3 DEF Entitled
  <2>5. QED  BY <1>2, <2>1, <2>2, <2>4, DoneKeeps, OneRequest
<1>8. CASE CancelRead(p)
  <2> DEFINE r == [q EXCEPT !.list = {q.b}, !.goal = "cancelled", !.pc = "release"]
  <2>1. Done(p) \/ Become(p, r)  BY <1>8 DEF CancelRead
  <2>2. r \in Request /\ r.pc = "release" /\ r.then = q.then /\ r.ret = q.ret
        /\ r.goal = "cancelled"
    BY <1>3, PcTypes DEF Request, Statuses
  <2> HIDE DEF r
  <2>3. Entitled(r, bookings', charge')  BY <1>3, <2>2 DEF Entitled
  <2>4. QED  BY <1>2, <2>1, <2>2, <2>3, DoneKeeps, OneRequest
<1>9. CASE NoShow(p)
  <2> DEFINE list == {b \in BookingIds : NoShowDue(bookings[b], now)}
             r == [q EXCEPT !.list = list, !.goal = "no_show", !.pc = "release"]
  <2>1. Done(p) \/ Become(p, r)  BY <1>9 DEF NoShow
  <2>2. list \subseteq BookingIds /\ \A b \in list : charge[b].payments >= 1
    BY DEF NoShowDue, IInv, ChargeInv
  <2> HIDE DEF list
  <2>3. r \in Request /\ r.pc = "release" /\ r.then = q.then /\ r.ret = q.ret /\ r.list = list
    BY <1>3, <2>2, PcTypes DEF Request, Statuses
  <2> HIDE DEF r
  <2>4. Entitled(r, bookings', charge')  BY <1>3, <1>4, <2>2, <2>3 DEF Entitled
  <2>5. QED  BY <1>2, <2>1, <2>3, <2>4, DoneKeeps, OneRequest
<1>10. QED  BY <1>5, <1>6, <1>7, <1>8, <1>9

-----------------------------------------------------------------------------
(* The writing steps.                                                      *)

\* releaseBooking and activateScheduledIfDue, writing over whatever is there.
LEMMA ReleaseStartKeeps ==
  ASSUME IInv, NEW p \in Procs, ReleaseWrite(p) \/ StartWrite(p)
  PROVE  IInv'
<1> DEFINE q == req[p]
           c == q.cur
           old == bookings[c]
<1>1. /\ q \in Request /\ q.then \in Returns /\ q.ret \in Returns /\ c \in BookingIds
      /\ q.list \in SUBSET BookingIds /\ q.goal \in Statuses /\ old \in Row
      /\ Entitled(q, bookings, charge) /\ TypeOK /\ ChargeInv(bookings, charge)
  BY DEF IInv, TypeOK, TablesOK, Entitled, Request
<1>2. UNCHANGED <<now, money>> /\ charge' = charge
  BY DEF ReleaseWrite, StartWrite, money
<1>3. CASE ReleaseWrite(p)
  <2> DEFINE r == [old EXCEPT !.status = q.goal]
  <2>1. r \in Row /\ r.status = q.goal /\ r.price = old.price
    BY <1>1, WrittenRowType DEF Row
  <2>2. q.goal # "none"  BY <1>1 DEF Statuses
  <2>3. Write(c, r)  BY <1>3 DEF ReleaseWrite
  <2>4. q.goal # "cancelled" => \A x \in q.list : charge[x].payments >= 1
    BY <1>1, <1>3 DEF Entitled, ReleaseWrite, At
  <2>5. q.goal # "cancelled" => charge[c].payments >= 1
    BY <1>1, <1>3, <2>4 DEF Entitled, ReleaseWrite, At
  <2> HIDE DEF r
  <2>6. TablesOK' /\ ChargeInv(bookings, charge)' /\ Grows(bookings, charge, bookings', charge')
    BY <1>1, <1>2, <2>1, <2>2, <2>3, <2>5, WriteEffect
  <2>7. Work(p, q.list \ {c}, "release", q.ret)  BY <1>3 DEF ReleaseWrite
  <2>8. q.list \ {c} \in SUBSET BookingIds  BY <1>1
  <2>9. q.goal # "cancelled" => \A x \in q.list \ {c} : charge'[x].payments >= 1
    BY <1>2, <2>4
  <2>10. QED  BY <1>1, <2>6, <2>7, <2>8, <2>9, WorkKeeps
<1>4. CASE StartWrite(p)
  <2> DEFINE r == Activate(old)
             rest == q.list \ {c}
             t == [q EXCEPT !.list = rest, !.row = r, !.pc = "activePhase", !.ret = "idle"]
  <2>1. r \in Row /\ r.status = "active" /\ r.price = old.price
    BY <1>1, WrittenRowType DEF Activate, Row
  <2>2. Write(c, r)  BY <1>4 DEF StartWrite
  <2>3. charge[c].payments >= 1
    BY <1>1, <1>4 DEF Entitled, StartWrite, At
  <2>4. Become(p, t) \/ Work(p, rest, "start", q.ret)  BY <1>4 DEF StartWrite
  <2> HIDE DEF r
  <2>5. TablesOK' /\ ChargeInv(bookings, charge)' /\ Grows(bookings, charge, bookings', charge')
    BY <1>1, <1>2, <2>1, <2>2, <2>3, WriteEffect
  <2>6. rest \in SUBSET BookingIds  BY <1>1
  <2> HIDE DEF rest
  <2>7. "activePhase" \in Plain /\ "idle" \in Returns /\ "idle" \in PCs
    BY DEF Plain, PCs, Returns
  <2>8. t \in Request /\ t.pc = "activePhase" /\ t.then = q.then /\ t.ret = "idle"
    BY <1>1, <2>1, <2>6, <2>7, PcTypes DEF Request
  <2> HIDE DEF t
  <2>9. Entitled(t, bookings', charge')  BY <1>1, <2>7, <2>8, PlainEntitled
  <2>10. QED  BY <1>1, <2>4, <2>5, <2>6, <2>8, <2>9, OneRequest, WorkKeeps
<1>5. QED  BY <1>3, <1>4

\* The handlers that end with the write.
LEMMA LastWriteKeeps ==
  ASSUME IInv, NEW p \in Procs, CreateInsert(p) \/ ActiveWrite(p) \/ AdminWrite(p) \/ AdjustWrite(p)
  PROVE  IInv'
<1> DEFINE q == req[p]
<1>1. /\ q \in Request /\ q.b \in BookingIds /\ q.row \in Row /\ bookings[q.b] \in Row
      /\ q.at \in Int /\ q.arg \in Int /\ now \in Int
      /\ bookings \in [BookingIds -> Row]
      /\ TypeOK /\ TablesOK /\ ChargeInv(bookings, charge)
  BY DEF IInv, TypeOK, TablesOK, Request
<1>2. CASE CreateInsert(p)
  <2>1. PICK b \in BookingIds : NextId(bookings, b) /\ Write(b, InsertedRow(q.row))
    BY <1>2 DEF CreateInsert
  <2> DEFINE r == InsertedRow(q.row)
  <2>2. r \in Row /\ r.status = "pending_payment"
    BY <1>1 DEF InsertedRow, Row, Statuses, Phases
  <2> HIDE DEF r
  <2>3. bookings[b].status = "none" /\ Write(b, r)  BY <2>1 DEF NextId, r
  <2>4. UNCHANGED <<now, money>>  BY <1>2 DEF CreateInsert
  <2>5. TablesOK' /\ ChargeInv(bookings, charge)' /\ Grows(bookings, charge, bookings', charge')
    BY <1>1, <2>2, <2>3, <2>4, WriteEffect
  <2>6. Done(p)  BY <1>2 DEF CreateInsert
  <2>7. QED  BY <2>5, <2>6, DoneKeeps
<1>3. CASE ActiveWrite(p)
  <2> DEFINE r == [bookings[q.b] EXCEPT !.phase = q.row.phase]
  <2>1. bookings' = [bookings EXCEPT ![q.b] = r] /\ charge' = charge /\ UNCHANGED <<now, money>>
    BY <1>3 DEF ActiveWrite, Write, money
  <2>2. q.row.phase \in Phases  BY <1>1 DEF Row
  <2>3. r \in Row /\ r.status = bookings[q.b].status /\ r.price = bookings[q.b].price
    BY <1>1, <2>2 DEF Row
  <2> HIDE DEF r
  <2>4. \A b \in BookingIds : /\ bookings'[b].status = bookings[b].status
                              /\ bookings'[b].price = bookings[b].price
    BY <1>1, <2>1, <2>3
  <2>5. TablesOK'  BY <1>1, <2>1, <2>3 DEF TablesOK, money
  <2>6. ChargeInv(bookings, charge)'  BY <1>1, <2>1, <2>4 DEF ChargeInv
  <2>7. \A b \in BookingIds : charge[b].payments \in Nat /\ charge[b].sum \in Nat
    BY <1>1 DEF TablesOK
  <2>8. Grows(bookings, charge, bookings', charge')  BY <2>1, <2>4, <2>7 DEF Grows
  <2>9. Done(p)  BY <1>3 DEF ActiveWrite
  <2>10. QED  BY <2>5, <2>6, <2>8, <2>9, DoneKeeps
<1>4. CASE AdminWrite(p)
  <2> DEFINE r == [bookings[q.b] EXCEPT !.status = "cancelled"]
  <2>1. r \in Row /\ r.status = "cancelled" /\ r.price = bookings[q.b].price
    BY <1>1 DEF Row, Statuses
  <2>2. Write(q.b, r) /\ UNCHANGED <<now, money>>  BY <1>4 DEF AdminWrite
  <2> HIDE DEF r
  <2>3. TablesOK' /\ ChargeInv(bookings, charge)' /\ Grows(bookings, charge, bookings', charge')
    BY <1>1, <2>1, <2>2, WriteEffect
  <2>4. Done(p)  BY <1>4 DEF AdminWrite
  <2>5. QED  BY <2>3, <2>4, DoneKeeps
<1>5. CASE AdjustWrite(p)
  <2>1. q.row.user \in Users  BY <1>1 DEF Row
  <2>2. /\ balance' = [balance EXCEPT ![q.row.user] = q.at]
        /\ ledger' = [ledger EXCEPT ![q.row.user] = @ + q.arg]
        /\ now' = now /\ bookings' = bookings /\ charge' = charge
    BY <1>5 DEF AdjustWrite
  <2>3. TablesOK'  BY <1>1, <2>1, <2>2 DEF TablesOK
  <2>4. ChargeInv(bookings, charge)'  BY <1>1, <2>2 DEF ChargeInv
  <2>5. \A b \in BookingIds : charge[b].payments \in Nat /\ charge[b].sum \in Nat
    BY <1>1 DEF TablesOK
  <2>6. Grows(bookings, charge, bookings', charge')  BY <2>2, <2>5 DEF Grows
  <2>7. Done(p)  BY <1>5 DEF AdjustWrite
  <2>8. QED  BY <2>3, <2>4, <2>6, <2>7, DoneKeeps
<1>6. QED  BY <1>2, <1>3, <1>4, <1>5

\* endSession moves the end, then releases the booking.
LEMMA EndWriteKeeps ==
  ASSUME IInv, NEW p \in Procs, EndWrite(p)
  PROVE  IInv'
<1> DEFINE q == req[p]
           b == q.b
           r == [bookings[b] EXCEPT !.endAt = q.at]
           s == [q EXCEPT !.list = {b}, !.goal = "completed", !.pc = "release"]
<1>1. /\ q \in Request /\ b \in BookingIds /\ bookings[b] \in Row /\ q.at \in Int
      /\ q.then \in Returns /\ q.ret \in Returns
      /\ TypeOK /\ ChargeInv(bookings, charge) /\ Entitled(q, bookings, charge)
      /\ charge[b].payments \in Nat
  BY DEF IInv, TypeOK, TablesOK, Request, Entitled
<1>2. charge[b].payments >= 1  BY <1>1 DEF Entitled, EndWrite, At
<1>3. bookings[b].status # "none"  BY <1>1, <1>2 DEF ChargeInv
<1>4. r \in Row /\ r.status = bookings[b].status /\ r.price = bookings[b].price
  BY <1>1 DEF Row
<1>5. Write(b, r) /\ UNCHANGED <<now, money>> /\ charge' = charge /\ Become(p, s)
  BY DEF EndWrite, money
<1>6. s \in Request /\ s.pc = "release" /\ s.list = {b} /\ s.then = q.then /\ s.ret = q.ret
  BY <1>1, PcTypes DEF Request, Statuses
<1> HIDE DEF r, s
<1>7. TablesOK' /\ ChargeInv(bookings, charge)' /\ Grows(bookings, charge, bookings', charge')
  BY <1>1, <1>2, <1>3, <1>4, <1>5, WriteEffect
<1>8. Entitled(s, bookings', charge')  BY <1>1, <1>2, <1>5, <1>6 DEF Entitled
<1>9. QED  BY <1>5, <1>6, <1>7, <1>8, OneRequest

\* A row written together with a change of its own charge.
LEMMA PaidWriteEffect ==
  ASSUME TypeOK, ChargeInv(bookings, charge),
         NEW b \in BookingIds, NEW r \in Row, Write(b, r), now' = now,
         balance' \in [Users -> Int], ledger' \in [Users -> Int],
         charge' \in [BookingIds -> Charge],
         \A c \in BookingIds \ {b} : charge'[c] = charge[c],
         charge'[b].payments >= charge[b].payments, charge'[b].payments >= 1,
         charge'[b].sum >= charge[b].sum, charge'[b].sum >= r.price,
         r.status # "none"
  PROVE  TablesOK' /\ ChargeInv(bookings, charge)' /\ Grows(bookings, charge, bookings', charge')
<1>1. bookings' \in [BookingIds -> Row]  BY WriteType
<1>2. TablesOK'  BY <1>1 DEF TypeOK, TablesOK, Charge
<1>3. bookings'[b] = r /\ \A c \in BookingIds \ {b} : bookings'[c] = bookings[c]
  BY DEF Write, TypeOK, TablesOK
<1>4. \A c \in BookingIds : /\ charge[c].payments \in Nat /\ charge[c].sum \in Nat
                            /\ charge'[c].payments \in Nat /\ charge'[c].sum \in Nat
  BY DEF TypeOK, TablesOK, Charge
<1>5. charge'[b].payments # 0  BY <1>4
<1>6. ChargeInv(bookings, charge)'  BY <1>3 DEF ChargeInv
<1>7. Grows(bookings, charge, bookings', charge')  BY <1>3, <1>4, <1>5 DEF Grows
<1>8. QED  BY <1>2, <1>6, <1>7

\* The transaction of payFromWallet, with or without the debit.
LEMMA PayCommitKeeps ==
  ASSUME IInv, NEW p \in Procs, PayCommit(p)
  PROVE  IInv'
<1> DEFINE q == req[p]
           b == q.b
           r == ConfirmedRow(bookings[b], q.row)
<1>1. /\ q \in Request /\ b \in BookingIds /\ bookings[b] \in Row /\ q.row \in Row
      /\ TypeOK /\ TablesOK /\ ChargeInv(bookings, charge) /\ Entitled(q, bookings, charge)
      /\ charge[b].payments \in Nat /\ charge[b].sum \in Nat /\ q.row.price \in Nat
      /\ bookings[b].price \in Nat
  BY DEF IInv, TypeOK, TablesOK, Request, Row
<1>2. /\ q.row.status \in {"paid", "active"}
      /\ bookings[b].status # "none"
      /\ charge[b].payments = 0 => q.row.price = bookings[b].price
      /\ q.found => charge[b].payments >= 1
  BY <1>1 DEF Entitled, PayCommit, At
<1>3. r \in Row /\ r.status = q.row.status /\ r.price = bookings[b].price
  BY <1>1, ConfirmedType
<1>4. /\ Write(b, r) /\ Done(p) /\ now' = now
      /\ IF q.found THEN UNCHANGED money ELSE TakePayment(b, q.row)
  BY DEF PayCommit
<1> HIDE DEF r
<1>5. CASE q.found
  <2>1. TablesOK' /\ ChargeInv(bookings, charge)' /\ Grows(bookings, charge, bookings', charge')
    BY <1>1, <1>2, <1>3, <1>4, <1>5, WriteEffect
  <2>2. QED  BY <1>4, <2>1, DoneKeeps
<1>6. CASE ~q.found
  <2>1. /\ balance' \in [Users -> Int] /\ ledger' \in [Users -> Int]
        /\ charge' \in [BookingIds -> Charge]
        /\ charge'[b].payments = charge[b].payments + 1
        /\ charge'[b].sum = charge[b].sum + q.row.price
        /\ \A c \in BookingIds \ {b} : charge'[c] = charge[c]
    BY <1>1, <1>4, <1>6, TakePaymentEffect
  <2>2. charge[b].payments >= 1 => charge[b].sum >= bookings[b].price
    BY <1>1 DEF ChargeInv
  <2>3. /\ charge'[b].payments >= charge[b].payments /\ charge'[b].payments >= 1
        /\ charge'[b].sum >= charge[b].sum /\ charge'[b].sum >= r.price
    BY <1>1, <1>2, <1>3, <2>1, <2>2
  <2>4. TablesOK' /\ ChargeInv(bookings, charge)' /\ Grows(bookings, charge, bookings', charge')
    BY <1>1, <1>2, <1>3, <1>4, <2>1, <2>3, PaidWriteEffect
  <2>5. QED  BY <1>4, <2>4, DoneKeeps
<1>7. QED  BY <1>5, <1>6

\* The transaction of extendSession: the new price follows from the row it
\* had read, which the charges already cover.
LEMMA ExtendCommitKeeps ==
  ASSUME IInv, NEW p \in Procs, ExtendCommit(p)
  PROVE  IInv'
<1> DEFINE q == req[p]
           b == q.b
           d == q.arg
           r == Extended(bookings[b], q.row, d)
<1>1. /\ q \in Request /\ b \in BookingIds /\ bookings[b] \in Row /\ q.row \in Row
      /\ TypeOK /\ TablesOK /\ ChargeInv(bookings, charge) /\ Entitled(q, bookings, charge)
      /\ charge[b].payments \in Nat /\ charge[b].sum \in Nat /\ q.row.price \in Nat
  BY DEF IInv, TypeOK, TablesOK, Request, Row
<1>2. /\ d \in Additions /\ charge[b].payments >= 1 /\ charge[b].sum >= q.row.price
  BY <1>1 DEF Entitled, ExtendCommit, At
<1>3. Price[d] \in Nat  BY <1>2
<1>4. r \in Row /\ r.price = q.row.price + Price[d] /\ r.status = bookings[b].status
  BY <1>1, <1>2, ExtendedType
<1>5. Write(b, r) /\ Done(p) /\ now' = now /\ TakeExtension(b, q.row, d)
  BY DEF ExtendCommit
<1>6. /\ balance' \in [Users -> Int] /\ ledger' \in [Users -> Int]
      /\ charge' \in [BookingIds -> Charge]
      /\ charge'[b].payments = charge[b].payments
      /\ charge'[b].sum = charge[b].sum + Price[d]
      /\ \A c \in BookingIds \ {b} : charge'[c] = charge[c]
  BY <1>1, <1>2, <1>5, TakeExtensionEffect
<1>7. bookings[b].status # "none"  BY <1>1, <1>2 DEF ChargeInv
<1> HIDE DEF r
<1>8. /\ charge'[b].payments >= charge[b].payments /\ charge'[b].payments >= 1
      /\ charge'[b].sum >= charge[b].sum /\ charge'[b].sum >= r.price
  BY <1>1, <1>2, <1>3, <1>4, <1>6
<1>9. TablesOK' /\ ChargeInv(bookings, charge)' /\ Grows(bookings, charge, bookings', charge')
  BY <1>1, <1>4, <1>5, <1>6, <1>7, <1>8, PaidWriteEffect
<1>10. QED  BY <1>5, <1>9, DoneKeeps

\* The clock and stuttering disturb nothing.
LEMMA TickKeeps ==
  ASSUME IInv, Tick \/ UNCHANGED vars
  PROVE  IInv'
<1>1. /\ now' \in Nat
      /\ bookings' = bookings /\ charge' = charge /\ balance' = balance /\ ledger' = ledger
      /\ req' = req
  BY DEF Tick, vars, tables, money, IInv, TypeOK, TablesOK
<1>2. TypeOK'  BY <1>1 DEF IInv, TypeOK, TablesOK
<1>3. ChargeInv(bookings, charge)'  BY <1>1 DEF IInv, ChargeInv
<1>4. \A p \in Procs : Entitled(req[p], bookings, charge)'
  BY <1>1 DEF IInv, Entitled
<1>5. QED  BY <1>2, <1>3, <1>4 DEF IInv

LEMMA StepKeeps == IInv /\ [Next]_vars => IInv'
<1> SUFFICES ASSUME IInv, [Next]_vars PROVE IInv'  OBVIOUS
<1>1. CASE Tick \/ UNCHANGED vars
  BY <1>1, TickKeeps
<1>2. ASSUME NEW p \in Procs, Arrive(p) PROVE IInv'
  BY <1>2, ArriveKeeps
<1>3. ASSUME NEW p \in Procs, Step(p) PROVE IInv'
  <2>1. CASE \/ Stale(p) \/ ListExpired(p) \/ ListDue(p) \/ ReleaseRead(p) \/ StartRead(p)
    BY <2>1, SyncReadKeeps
  <2>2. CASE CreateSlot(p) \/ ActiveRead(p) \/ ActivePhase(p) \/ AdminRead(p) \/ AdjustRead(p)
    BY <2>2, PlainReadKeeps
  <2>3. CASE PayRead(p) \/ PaySlot(p) \/ PayBalance(p) \/ PayFind(p)
    BY <2>3, PayReadKeeps
  <2>4. CASE ExtendRead(p) \/ ExtendBalance(p) \/ EndRead(p) \/ CancelRead(p) \/ NoShow(p)
    BY <2>4, OtherReadKeeps
  <2>5. CASE ReleaseWrite(p) \/ StartWrite(p)
    BY <2>5, ReleaseStartKeeps
  <2>6. CASE CreateInsert(p) \/ ActiveWrite(p) \/ AdminWrite(p) \/ AdjustWrite(p)
    BY <2>6, LastWriteKeeps
  <2>7. CASE EndWrite(p)  BY <2>7, EndWriteKeeps
  <2>8. CASE PayCommit(p)  BY <2>8, PayCommitKeeps
  <2>9. CASE ExtendCommit(p)  BY <2>9, ExtendCommitKeeps
  <2>10. QED
    BY <1>3, <2>1, <2>2, <2>3, <2>4, <2>5, <2>6, <2>7, <2>8, <2>9 DEF Step
<1>4. QED  BY <1>1, <1>2, <1>3 DEF Next

-----------------------------------------------------------------------------
(* The theorems.                                                           *)

\* The tables and the requests in flight keep what nobody playing on credit
\* depends on: the inductive invariant of the interleaved handlers.
THEOREM Inductive == Spec => []IInv
  BY InitInv, StepKeeps, PTL DEF Spec

\* However requests overlap, rows, charges and requests keep their types.
THEOREM TypeCorrect == Spec => []TypeOK
<1>1. IInv => TypeOK  BY DEF IInv
<1>2. QED  BY <1>1, Inductive, PTL

\* Nobody plays on credit: whatever requests overlap at whatever await, a
\* booking that is or was confirmed has been charged its price at least.
THEOREM NobodyPlaysOnCredit == Spec => []ConfirmedIsCharged
<1>1. IInv => ConfirmedIsCharged
  <2> SUFFICES ASSUME IInv, NEW b \in BookingIds,
                      bookings[b].status \in {"paid", "active", "completed", "no_show"}
               PROVE  charge[b].payments >= 1 /\ charge[b].sum >= bookings[b].price
    BY DEF ConfirmedIsCharged
  <2>1. QED  BY DEF IInv, ChargeInv
<1>2. QED  BY <1>1, Inductive, PTL

=============================================================================
