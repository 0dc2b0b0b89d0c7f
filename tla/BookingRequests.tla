-------------------------- MODULE BookingRequests ---------------------------
(***************************************************************************)
(* The booking handlers taken apart at their awaits.  The API is one Node  *)
(* process over PostgreSQL at READ COMMITTED: between two database calls   *)
(* of one request any other request may run, and a prisma.$transaction     *)
(* groups writes but re-reads nothing.  Each action is one database call   *)
(* of one request, or the computation that follows it up to the next call. *)
(* A request keeps what it has read in its own record, however stale.      *)
(*                                                                         *)
(* The seat flags are left out: no handler here decides by them.           *)
(***************************************************************************)
EXTENDS BookingTables

CONSTANTS
    Procs,      \* bound: requests in flight at once
    Ops,        \* the handlers each of them may run
    Credit      \* the balance each wallet starts with

Handlers == {"create", "pay", "extend", "end", "cancel", "getActive",
             "tick", "adminCancel", "adjust"}

ASSUME RequestsAssumption ==
    /\ Ops \in [Procs -> SUBSET Handlers]
    /\ Credit \in Nat

VARIABLE req

vars == <<tables, req>>

money == <<balance, ledger, charge>>

PCs == {"idle", "stale", "expired", "due", "release", "releaseWrite", "start", "startWrite",
        "createSlot", "createInsert", "activeRead", "activePhase", "activeWrite",
        "payRead", "paySlot", "payBalance", "payFind", "payCommit",
        "extendRead", "extendBalance", "extendCommit", "endRead", "endWrite",
        "cancelRead", "noShow", "adminRead", "adminWrite", "adjustRead", "adjustWrite"}

Request ==
    [op    : Handlers \cup {"none"},
     pc    : PCs,
     then  : PCs,                \* where the sync pass returns to
     ret   : PCs,                \* where the list being worked on returns to
     list  : SUBSET BookingIds,  \* ids a findMany returned, still to be handled
     goal  : Statuses,           \* status releaseBooking is to write
     cur   : BookingIds,         \* id of the row being released or started
     b     : BookingIds,         \* the booking the request names
     row   : Row,                \* the row as this request last read it, or is about to write it
     arg   : Int,                \* minutes to extend by, amount to adjust by
     at    : Int,                \* a clock reading, or the balance to be written
     found : BOOLEAN]            \* a payment row with this externalId exists

Idle == [op |-> "none", pc |-> "idle", then |-> "idle", ret |-> "idle", list |-> {},
         goal |-> "cancelled", cur |-> 1, b |-> 1, row |-> EmptyRow, arg |-> 0, at |-> 0,
         found |-> FALSE]

TypeOK == TablesOK /\ req \in [Procs -> Request]

Init ==
    /\ now = 0
    /\ bookings = [b \in BookingIds |-> EmptyRow]
    /\ balance = [u \in Users |-> Credit]
    /\ ledger = [u \in Users |-> Credit]
    /\ charge = [b \in BookingIds |-> [payments |-> 0, extensions |-> 0, sum |-> 0]]
    /\ req = [p \in Procs |-> Idle]

At(p, pc) == req[p].pc = pc

Become(p, r) == req' = [req EXCEPT ![p] = r]

Goto(p, pc) == Become(p, [req[p] EXCEPT !.pc = pc])

\* The handler returns or throws; a throw leaves what it has written.
Done(p) == Become(p, Idle)

\* Continue, or throw when the check fails.
Check(p, test, pc) == IF test THEN Goto(p, pc) ELSE Done(p)

\* Work through the ids in list at pc, then go on at ret.
Work(p, list, pc, ret) ==
    IF list # {} THEN Become(p, [req[p] EXCEPT !.list = list, !.pc = pc, !.ret = ret])
    ELSE IF ret = "idle" THEN Done(p)
    ELSE Become(p, [req[p] EXCEPT !.list = {}, !.pc = ret, !.ret = "idle"])

Write(b, r) == bookings' = [bookings EXCEPT ![b] = r]

-----------------------------------------------------------------------------
(* A request arrives.                                                      *)

\* The handlers that begin with a sync pass, and what they do after it.
AfterSync(op) ==
    CASE op = "create"    -> "createSlot"
      [] op = "pay"       -> "payRead"
      [] op = "getActive" -> "activeRead"
      [] op = "tick"      -> "noShow"

FirstRead(op) ==
    CASE op = "extend"      -> "extendRead"
      [] op = "end"         -> "endRead"
      [] op = "cancel"      -> "cancelRead"
      [] op = "adminCancel" -> "adminRead"
      [] op = "adjust"      -> "adjustRead"

Begin(p, r) ==
    /\ At(p, "idle")
    /\ r.op \in Ops[p]
    /\ Become(p, IF r.op \in {"create", "pay", "getActive", "tick"}
                 THEN [r EXCEPT !.pc = "stale", !.then = AfterSync(r.op)]
                 ELSE [r EXCEPT !.pc = FirstRead(r.op)])
    /\ UNCHANGED tables

Arrive(p) ==
    \/ Begin(p, [Idle EXCEPT !.op = "tick"])
    \/ \E b \in BookingIds, op \in {"pay", "end", "cancel", "adminCancel"} :
          /\ bookings[b].status # "none"
          /\ Begin(p, [Idle EXCEPT !.op = op, !.b = b])
    \/ \E b \in BookingIds, d \in Additions :
          /\ bookings[b].status # "none"
          /\ Begin(p, [Idle EXCEPT !.op = "extend", !.b = b, !.arg = d])
    \/ \E u \in Users : Begin(p, [Idle EXCEPT !.op = "getActive", !.row.user = u])
    \/ \E u \in Users, a \in Adjustments :
          Begin(p, [Idle EXCEPT !.op = "adjust", !.row.user = u, !.arg = a])
    \/ \E u \in Users, s \in Seats, from \in now..MaxNow, d \in Durations :
          Begin(p, [Idle EXCEPT !.op = "create", !.row = NewRow(u, s, from, d)])

-----------------------------------------------------------------------------
(* syncSeatStates: three lists, each read once and then worked through.    *)

Stale(p) ==
    /\ At(p, "stale")
    /\ LET list == {b \in BookingIds : StalePending(bookings[b], now)} IN
       IF list = {}
       THEN Become(p, [req[p] EXCEPT !.at = now, !.pc = "expired"])
       ELSE Become(p, [req[p] EXCEPT !.at = now, !.goal = "cancelled", !.list = list,
                                     !.pc = "release", !.ret = "expired"])
    /\ UNCHANGED tables

ListExpired(p) ==
    /\ At(p, "expired")
    /\ LET list == {b \in BookingIds : Expired(bookings[b], req[p].at)} IN
       IF list = {}
       THEN Goto(p, "due")
       ELSE Become(p, [req[p] EXCEPT !.goal = "completed", !.list = list,
                                     !.pc = "release", !.ret = "due"])
    /\ UNCHANGED tables

ListDue(p) ==
    /\ At(p, "due")
    /\ Work(p, {b \in BookingIds : DueStart(bookings[b], req[p].at)}, "start", req[p].then)
    /\ UNCHANGED tables

\* releaseBooking: read the row, and unless it has ended ...
ReleaseRead(p) ==
    /\ At(p, "release")
    /\ \E b \in req[p].list :
          IF bookings[b].status \in {"completed", "cancelled"}
          THEN Work(p, req[p].list \ {b}, "release", req[p].ret)
          ELSE Become(p, [req[p] EXCEPT !.cur = b, !.pc = "releaseWrite"])
    /\ UNCHANGED tables

\* ... write the status, whatever it has become meanwhile.
ReleaseWrite(p) ==
    /\ At(p, "releaseWrite")
    /\ Write(req[p].cur, [bookings[req[p].cur] EXCEPT !.status = req[p].goal])
    /\ Work(p, req[p].list \ {req[p].cur}, "release", req[p].ret)
    /\ UNCHANGED <<now, money>>

\* activateScheduledIfDue: read the row, and if it is paid and due ...
StartRead(p) ==
    /\ At(p, "start")
    /\ \E b \in req[p].list :
          IF bookings[b].status = "paid" /\ now >= bookings[b].startAt
          THEN Become(p, [req[p] EXCEPT !.cur = b, !.pc = "startWrite"])
          ELSE Work(p, req[p].list \ {b}, "start", req[p].ret)
    /\ UNCHANGED tables

\* ... make it active, whatever it has become meanwhile.
StartWrite(p) ==
    LET r == Activate(bookings[req[p].cur])
        rest == req[p].list \ {req[p].cur}
    IN
    /\ At(p, "startWrite")
    /\ Write(req[p].cur, r)
    /\ IF req[p].ret = "activePhase"
       THEN Become(p, [req[p] EXCEPT !.list = rest, !.row = r, !.pc = "activePhase", !.ret = "idle"])
       ELSE Work(p, rest, "start", req[p].ret)
    /\ UNCHANGED <<now, money>>

-----------------------------------------------------------------------------
(* create and getActive.                                                   *)

\* The conflict check; getActive follows, with a sync pass of its own.
CreateSlot(p) ==
    LET r == req[p].row IN
    /\ At(p, "createSlot")
    /\ IF /\ now <= r.startAt /\ r.startAt <= now + MaxAhead
          /\ SlotFree(bookings, r.seat, r.startAt, r.endAt, 0)
       THEN Become(p, [req[p] EXCEPT !.pc = "stale", !.then = "activeRead"])
       ELSE Done(p)
    /\ UNCHANGED tables

InsertedRow(r) ==
    [r EXCEPT !.status = "pending_payment", !.phase = "awaiting_arrival",
              !.createdAt = now, !.started = FALSE]

CreateInsert(p) ==
    /\ At(p, "createInsert")
    /\ \E b \in BookingIds :
          /\ NextId(bookings, b)
          /\ Write(b, InsertedRow(req[p].row))
    /\ Done(p)
    /\ UNCHANGED <<now, money>>

\* create goes on only when its user has no ongoing booking.
ActiveRead(p) ==
    LET mine == {b \in BookingIds : IsActiveOf(bookings, req[p].row.user, b)} IN
    /\ At(p, "activeRead")
    /\ IF mine = {}
       THEN Check(p, req[p].op = "create", "createInsert")
       ELSE \E b \in mine :
              LET r == bookings[b]
                  seen == [req[p] EXCEPT !.op = "getActive", !.b = b, !.row = r]
              IN Become(p, IF r.status = "paid" /\ now >= r.startAt
                           THEN [seen EXCEPT !.list = {b}, !.pc = "start", !.ret = "activePhase"]
                           ELSE [seen EXCEPT !.pc = "activePhase"])
    /\ UNCHANGED tables

\* normalizePhase of the row in hand.
ActivePhase(p) ==
    LET r == req[p].row
        phase == NormalizePhase(r, now)
    IN
    /\ At(p, "activePhase")
    /\ IF phase = r.phase THEN Done(p)
       ELSE Become(p, [req[p] EXCEPT !.row.phase = phase, !.pc = "activeWrite"])
    /\ UNCHANGED tables

ActiveWrite(p) ==
    /\ At(p, "activeWrite")
    /\ Write(req[p].b, [bookings[req[p].b] EXCEPT !.phase = req[p].row.phase])
    /\ Done(p)
    /\ UNCHANGED <<now, money>>

-----------------------------------------------------------------------------
(* payFromWallet.                                                          *)

PayRead(p) ==
    /\ At(p, "payRead")
    /\ IF Payable(bookings[req[p].b])
       THEN Become(p, [req[p] EXCEPT !.row = bookings[req[p].b], !.pc = "paySlot"])
       ELSE Done(p)
    /\ UNCHANGED tables

PaySlot(p) ==
    LET r == req[p].row IN
    /\ At(p, "paySlot")
    /\ Check(p, SlotFree(bookings, r.seat, r.startAt, r.endAt, req[p].b), "payBalance")
    /\ UNCHANGED tables

\* The balance is read, and the clock by which the booking starts now or later.
PayBalance(p) ==
    LET r == req[p].row IN
    /\ At(p, "payBalance")
    /\ IF Affords(r.user, r.price)
       THEN Become(p, [req[p] EXCEPT !.row = PaidRow(r), !.pc = "payFind"])
       ELSE Done(p)
    /\ UNCHANGED tables

\* In the transaction: is there a payment row for this booking?
PayFind(p) ==
    /\ At(p, "payFind")
    /\ Become(p, [req[p] EXCEPT !.found = charge[req[p].b].payments > 0, !.pc = "payCommit"])
    /\ UNCHANGED tables

\* The columns payFromWallet updates: the end only when the session begins.
ConfirmedRow(old, paid) ==
    [old EXCEPT !.status = paid.status, !.phase = paid.phase, !.started = paid.started,
                !.endAt = IF paid.status = "active" THEN paid.endAt ELSE old.endAt]

\* The writes commit together; the status is not looked at again.
PayCommit(p) ==
    LET b == req[p].b IN
    /\ At(p, "payCommit")
    /\ IF req[p].found THEN UNCHANGED money ELSE TakePayment(b, req[p].row)
    /\ Write(b, ConfirmedRow(bookings[b], req[p].row))
    /\ Done(p)
    /\ UNCHANGED now

-----------------------------------------------------------------------------
(* extendSession and endSession.                                           *)

ExtendRead(p) ==
    /\ At(p, "extendRead")
    /\ IF Playing(bookings[req[p].b]) /\ bookings[req[p].b].endAt + req[p].arg <= MaxEnd
       THEN Become(p, [req[p] EXCEPT !.row = bookings[req[p].b], !.pc = "extendBalance"])
       ELSE Done(p)
    /\ UNCHANGED tables

ExtendBalance(p) ==
    /\ At(p, "extendBalance")
    /\ Check(p, Affords(req[p].row.user, Price[req[p].arg]), "extendCommit")
    /\ UNCHANGED tables

ExtendCommit(p) ==
    LET b == req[p].b IN
    /\ At(p, "extendCommit")
    /\ TakeExtension(b, req[p].row, req[p].arg)
    /\ Write(b, Extended(bookings[b], req[p].row, req[p].arg))
    /\ Done(p)
    /\ UNCHANGED now

EndRead(p) ==
    LET r == bookings[req[p].b] IN
    /\ At(p, "endRead")
    /\ IF Ongoing(r, now) /\ r.status = "active"
       THEN Become(p, [req[p] EXCEPT !.at = now, !.pc = "endWrite"])
       ELSE Done(p)
    /\ UNCHANGED tables

EndWrite(p) ==
    LET b == req[p].b IN
    /\ At(p, "endWrite")
    /\ Write(b, [bookings[b] EXCEPT !.endAt = req[p].at])
    /\ Become(p, [req[p] EXCEPT !.list = {b}, !.goal = "completed", !.pc = "release"])
    /\ UNCHANGED <<now, money>>

-----------------------------------------------------------------------------
(* cancelBooking, processNoShow and the administrator.                     *)

CancelRead(p) ==
    /\ At(p, "cancelRead")
    /\ IF Cancellable(bookings[req[p].b])
       THEN Become(p, [req[p] EXCEPT !.list = {req[p].b}, !.goal = "cancelled", !.pc = "release"])
       ELSE Done(p)
    /\ UNCHANGED tables

NoShow(p) ==
    LET list == {b \in BookingIds : NoShowDue(bookings[b], now)} IN
    /\ At(p, "noShow")
    /\ IF list = {} THEN Done(p)
       ELSE Become(p, [req[p] EXCEPT !.list = list, !.goal = "no_show", !.pc = "release"])
    /\ UNCHANGED tables

AdminRead(p) ==
    /\ At(p, "adminRead")
    /\ Check(p, Live(bookings[req[p].b]), "adminWrite")
    /\ UNCHANGED tables

AdminWrite(p) ==
    /\ At(p, "adminWrite")
    /\ Write(req[p].b, [bookings[req[p].b] EXCEPT !.status = "cancelled"])
    /\ Done(p)
    /\ UNCHANGED <<now, money>>

AdjustRead(p) ==
    LET next == balance[req[p].row.user] + req[p].arg IN
    /\ At(p, "adjustRead")
    /\ IF next \in 0..MaxBalance
       THEN Become(p, [req[p] EXCEPT !.at = next, !.pc = "adjustWrite"])
       ELSE Done(p)
    /\ UNCHANGED tables

\* adjustWallet writes the balance it has computed, not an increment.
AdjustWrite(p) ==
    LET u == req[p].row.user IN
    /\ At(p, "adjustWrite")
    /\ balance' = [balance EXCEPT ![u] = req[p].at]
    /\ ledger' = [ledger EXCEPT ![u] = @ + req[p].arg]
    /\ Done(p)
    /\ UNCHANGED <<now, bookings, charge>>

-----------------------------------------------------------------------------

Tick ==
    /\ now < MaxNow
    /\ now' = now + 1
    /\ UNCHANGED <<bookings, money, req>>

\* One database call of the request p.
Step(p) ==
    \/ Stale(p) \/ ListExpired(p) \/ ListDue(p)
    \/ ReleaseRead(p) \/ ReleaseWrite(p) \/ StartRead(p) \/ StartWrite(p)
    \/ CreateSlot(p) \/ CreateInsert(p) \/ ActiveRead(p) \/ ActivePhase(p) \/ ActiveWrite(p)
    \/ PayRead(p) \/ PaySlot(p) \/ PayBalance(p) \/ PayFind(p) \/ PayCommit(p)
    \/ ExtendRead(p) \/ ExtendBalance(p) \/ ExtendCommit(p) \/ EndRead(p) \/ EndWrite(p)
    \/ CancelRead(p) \/ NoShow(p) \/ AdminRead(p) \/ AdminWrite(p)
    \/ AdjustRead(p) \/ AdjustWrite(p)

Next == Tick \/ \E p \in Procs : Arrive(p) \/ Step(p)

Spec == Init /\ [][Next]_vars

-----------------------------------------------------------------------------
(* Properties the handlers' own checks are there for, and which overlapping *)
(* requests break (the others are in BookingTables).                        *)

\* payFromWallet: "the booking is already paid or cancelled" - a booking that
\* has ended is not confirmed any more.  The code does not keep it: the
\* status is read before the checks and not again in the transaction.
EndedStaysEnded ==
    [][\A b \in BookingIds : Terminal(bookings[b]) =>
           Terminal(bookings'[b])]_vars

\* payFromWallet looks up the externalId so that a booking is charged once.
\* The code does not keep it: two transactions may both find no row.
ChargedOnce == \A b \in BookingIds : charge[b].payments <= 1
-----------------------------------------------------------------------------
(* The inductive invariant behind ConfirmedIsCharged.                      *)

\* A charged booking is charged its price at least, an id not yet inserted is
\* not charged, and a confirmed booking is.
ChargeInv(bk, ch) ==
    \A b \in BookingIds :
        /\ bk[b].status = "none" => ch[b].payments = 0
        /\ bk[b].status \in {"paid", "active", "completed", "no_show"} => ch[b].payments >= 1
        /\ ch[b].payments >= 1 => ch[b].sum >= bk[b].price

\* Where the sync pass and the work lists return to.
Returns == {"idle", "expired", "due", "createSlot", "activeRead", "activePhase", "payRead", "noShow"}

\* What a request in flight may rely on, however stale its reads are.
Entitled(q, bk, ch) ==
    /\ q.then \in Returns /\ q.ret \in Returns
    /\ q.pc \in {"extendRead", "extendBalance", "extendCommit"} => q.arg \in Additions
    /\ q.pc \in {"paySlot", "payBalance", "payFind", "payCommit"} =>
           /\ bk[q.b].status # "none"
           /\ ch[q.b].payments = 0 => q.row.price = bk[q.b].price
    /\ q.pc \in {"payFind", "payCommit"} => q.row.status \in {"paid", "active"}
    /\ q.pc = "payCommit" /\ q.found => ch[q.b].payments >= 1
    /\ q.pc \in {"extendBalance", "extendCommit"} =>
           ch[q.b].payments >= 1 /\ ch[q.b].sum >= q.row.price
    /\ q.pc = "startWrite" => ch[q.cur].payments >= 1
    /\ q.pc = "endWrite" => ch[q.b].payments >= 1
    /\ q.pc \in {"release", "releaseWrite"} /\ q.goal # "cancelled" =>
           \A x \in q.list : ch[x].payments >= 1
    /\ q.pc = "releaseWrite" => q.cur \in q.list

\* Nobody plays on credit, as an inductive invariant: what is charged so far,
\* and what each overlapping request may still write.
IInv ==
    /\ TypeOK
    /\ ChargeInv(bookings, charge)
    /\ \A p \in Procs : Entitled(req[p], bookings, charge)

=============================================================================
