----------------------- MODULE Administration_proofs -----------------------
(***************************************************************************)
(* Proofs about what administrators do beside the players, for any bounds, *)
(* requests and seats.  Verification: an application is decided twice only *)
(* by requests that saw it open at the same time, and two are open only if *)
(* two uploads overlapped.  BackOffice: the keys of the schema, booked     *)
(* seats, seats out of service, the places of new seats, the door.         *)
(***************************************************************************)
EXTENDS BackOffice, Verification, FiniteSetTheorems, TLAPS

-----------------------------------------------------------------------------
(* Verification.                                                           *)

Application == [status : Statuses, due : BOOLEAN, raced : BOOLEAN, twice : BOOLEAN]

Handling ==
    [op : {"none", "status", "submit", "list", "approve", "reject"},
     pc : {"-", "due", "each", "resolve", "own", "pending", "insert", "answered",
           "find", "again", "approve", "reject"},
     row : 0..MaxRows, todo : SUBSET (1..MaxRows),
     answer : Statuses \cup {"-", "ok", "refused"}, heard : BOOLEAN]

Deciding == {"resolve", "again", "approve", "reject"}

\* A request in flight has the shape its program point needs.
WellFormed(r) ==
    /\ req[r].op = "submit" => r \in Submits
    /\ req[r].pc \in Deciding \cup {"find"} => req[r].row \in 1..MaxRows

\* Whoever is about to decide an application already decided has raced for it.
NotStale == \A v \in 1..MaxRows, r \in Slots :
    r \in Writing(v) /\ rows[v].status # "pending" => rows[v].raced

Marked == \A v \in 1..MaxRows : rows[v].twice => rows[v].raced

\* While uploads have not overlapped, one at most is under way, it inserts
\* only when nothing is open, and one application at most is open.
Alone ==
    \/ met
    \/ /\ \A r, q \in Submits : req[r] # Idle /\ req[q] # Idle => r = q
       /\ \A r \in Submits : req[r].pc = "insert" => Pending = {}
       /\ \A v, w \in Pending : v = w

ApplicationInv ==
    /\ TypeOK /\ req \in [Slots -> Handling] /\ \A r \in Slots : WellFormed(r)
    /\ NotStale /\ Marked /\ Alone

-----------------------------------------------------------------------------
(* Cardinalities.                                                          *)

LEMMA TwoAreMore ==
    ASSUME NEW S, IsFiniteSet(S), NEW a \in S, NEW b \in S, a # b
    PROVE  Cardinality(S) > 1
<1>1. IsFiniteSet({a}) /\ Cardinality({a}) = 1
  BY FS_Singleton
<1>2. Cardinality({a} \cup {b}) = 2 /\ IsFiniteSet({a} \cup {b})
  BY <1>1, FS_AddElement
<1>3. ({a} \cup {b}) \in SUBSET S
  OBVIOUS
<1>4. Cardinality({a} \cup {b}) <= Cardinality(S)
  BY <1>3, FS_Subset
<1>5. Cardinality(S) \in Nat
  BY FS_CardinalityType
<1>6. QED BY <1>2, <1>4, <1>5

LEMMA AlikeAreFew ==
    ASSUME NEW S, \A a, b \in S : a = b
    PROVE  ~(Cardinality(S) > 1)
<1>1. CASE S = {}
  BY <1>1, FS_EmptySet
<1>2. CASE S # {}
  <2>1. PICK a \in S : TRUE
    BY <1>2
  <2>2. S = {a}
    BY <2>1
  <2>3. Cardinality(S) = 1
    BY <2>2, FS_Singleton
  <2>4. QED BY <2>3
<1>3. QED BY <1>1, <1>2

LEMMA WritersAreFinite == \A v : IsFiniteSet(Writing(v))
<1>1. IsFiniteSet(Slots)
  BY VerificationAssumption, FS_Union DEF Slots
<1>2. TAKE v
<1>3. Writing(v) \in SUBSET Slots
  BY DEF Writing
<1>4. QED BY <1>1, <1>3, FS_Subset

-----------------------------------------------------------------------------
(* Kinds of steps.                                                         *)

LEMMA IdleType == Idle \in Handling
BY VerificationAssumption DEF Idle, Handling

LEMMA RowType == 0 \in 0..MaxRows /\ \A v \in 1..MaxRows : v \in 0..MaxRows
BY VerificationAssumption

\* A step that decides nothing keeps the three parts about applications, if
\* those it lets near a verdict or an insertion have looked.
LEMMA Calm ==
    ASSUME ApplicationInv,
           \A v \in 1..MaxRows : /\ rows'[v].status = rows[v].status
                                 /\ rows'[v].raced = rows[v].raced
                                 /\ rows'[v].twice = rows[v].twice,
           \A r \in Slots : \/ req'[r].pc \notin Deciding
                            \/ req'[r].row \in Pending
                            \/ req[r].pc \in Deciding /\ req'[r].row = req[r].row,
           \/ met'
           \/ /\ met' = met
              /\ \A r \in Submits : req'[r] # Idle => req[r] # Idle
              /\ \A r \in Submits :
                     req'[r].pc = "insert" => req[r].pc = "insert" \/ Pending = {}
    PROVE  NotStale' /\ Marked' /\ Alone'
<1>1. Pending' = Pending
  BY DEF Pending
<1>2. NotStale'
  BY DEF ApplicationInv, NotStale, Writing, Deciding, Pending
<1>3. Marked'
  BY DEF ApplicationInv, Marked
<1>4. Alone'
  BY <1>1 DEF ApplicationInv, Alone
<1>5. QED BY <1>2, <1>3, <1>4

\* What a verdict writes.
LEMMA VerdictWrites ==
    ASSUME TypeOK, NEW v \in 1..MaxRows, NEW status \in Statuses, Verdict(v, status)
    PROVE  /\ rows' \in [1..MaxRows -> Application] /\ user' = status
           /\ \A w \in 1..MaxRows : w # v => rows'[w] = rows[w]
           /\ rows'[v].status = status
           /\ rows[v].raced => rows'[v].raced
           /\ rows'[v].twice => rows[v].twice \/ rows[v].status # "pending"
           /\ Cardinality(Writing(v)) > 1 => rows'[v].raced
<1> DEFINE again == rows[v].twice \/ rows[v].status # "pending"
           race == rows[v].raced \/ Cardinality(Writing(v)) > 1
<1>1. rows \in [1..MaxRows -> Application] /\ user' = status
  BY DEF TypeOK, Verdict, Application
<1>2. again \in BOOLEAN /\ race \in BOOLEAN
  OBVIOUS
<1>3. rows' = [rows EXCEPT ![v].status = status, ![v].twice = again, ![v].raced = race]
  BY DEF Verdict
<1>4. (rows[v].raced => race) /\ (Cardinality(Writing(v)) > 1 => race)
      /\ (again => rows[v].twice \/ rows[v].status # "pending")
  OBVIOUS
<1> HIDE DEF again, race
<1>5. /\ rows' \in [1..MaxRows -> Application]
      /\ \A w \in 1..MaxRows : w # v => rows'[w] = rows[w]
      /\ rows'[v].status = status /\ rows'[v].twice = again /\ rows'[v].raced = race
  BY <1>1, <1>2, <1>3 DEF Application
<1>6. QED BY <1>1, <1>4, <1>5

\* A request that decides its application and is then near no other one.
LEMMA Decides ==
    ASSUME ApplicationInv, NEW r \in Slots, req[r].pc \in Deciding,
           NEW status \in Statuses \ {"pending"}, Verdict(req[r].row, status),
           req'[r].pc \notin Deciding \cup {"insert"},
           req'[r] # Idle => req[r] # Idle,
           \A q \in Slots : q # r => req'[q] = req[q],
           met' = met
    PROVE  NotStale' /\ Marked' /\ Alone'
<1> DEFINE v == req[r].row
<1>1. v \in 1..MaxRows /\ r \in Writing(v)
  BY DEF ApplicationInv, WellFormed, Writing, Deciding
<1>2. /\ \A w \in 1..MaxRows : w # v => rows'[w] = rows[w]
      /\ rows'[v].status = status
      /\ rows[v].raced => rows'[v].raced
      /\ rows'[v].twice => rows[v].twice \/ rows[v].status # "pending"
      /\ Cardinality(Writing(v)) > 1 => rows'[v].raced
  BY <1>1, VerdictWrites DEF ApplicationInv
<1>3. NotStale'
  <2> SUFFICES ASSUME NEW w \in 1..MaxRows, NEW q \in Slots,
                      q \in Writing(w)', rows'[w].status # "pending"
               PROVE  rows'[w].raced
    BY DEF NotStale
  <2>1. q # r /\ q \in Writing(w)
    BY DEF Writing, Deciding
  <2>2. CASE w = v
    <3>1. Cardinality(Writing(v)) > 1
      BY <1>1, <2>1, <2>2, TwoAreMore, WritersAreFinite
    <3>2. QED BY <3>1, <2>2, <1>2
  <2>3. CASE w # v
    BY <2>1, <2>3, <1>2 DEF ApplicationInv, NotStale
  <2>4. QED BY <2>2, <2>3
<1>4. Marked'
  BY <1>1, <1>2 DEF ApplicationInv, Marked, NotStale
<1>5. Pending' \subseteq Pending
  BY <1>1, <1>2 DEF Pending
<1>6. Alone'
  <2>1. \A q \in Submits : q \in Slots
    BY DEF Slots
  <2>2. QED BY <1>5, <2>1 DEF ApplicationInv, Alone
<1>7. QED BY <1>3, <1>4, <1>6

-----------------------------------------------------------------------------
(* How a request moves on.                                                 *)

\* Only the request of this slot moves, and it keeps its shape.
Moves(r) ==
    /\ req' \in [Slots -> Handling] /\ \A q \in Slots : WellFormed(q)'
    /\ \A q \in Slots : q # r => req'[q] = req[q]

LEMMA Placed ==
    ASSUME ApplicationInv, NEW r \in Slots, NEW h \in Handling, req' = [req EXCEPT ![r] = h],
           h.op = "submit" => r \in Submits,
           h.pc \in Deciding \cup {"find"} => h.row \in 1..MaxRows
    PROVE  Moves(r) /\ req'[r] = h
BY DEF ApplicationInv, Moves, WellFormed

LEMMA GoesOn ==
    ASSUME ApplicationInv, NEW r \in Slots, NEW pc, Goes(r, pc),
           pc \in {"each", "own", "pending", "insert", "again", "approve", "reject"},
           pc \in Deciding => req[r].row \in 1..MaxRows
    PROVE  Moves(r) /\ req'[r].pc = pc /\ req'[r].row = req[r].row
<1> DEFINE h == [req[r] EXCEPT !.pc = pc]
<1>1. h \in Handling /\ h.op = req[r].op /\ h.pc = pc /\ h.row = req[r].row
  BY DEF ApplicationInv, Handling
<1>2. req' = [req EXCEPT ![r] = h]
  BY DEF Goes, ApplicationInv
<1>3. h.op = "submit" => r \in Submits
  BY <1>1 DEF ApplicationInv, WellFormed
<1> HIDE DEF h
<1>4. QED BY <1>1, <1>2, <1>3, Placed DEF Deciding

LEMMA AnswersOnce ==
    ASSUME ApplicationInv, NEW r \in Slots, NEW answer \in Statuses \cup {"ok", "refused"},
           Answers(r, answer)
    PROVE  Moves(r) /\ req'[r].pc = "answered"
<1> DEFINE h == [req[r] EXCEPT !.pc = "answered", !.answer = answer]
<1>1. h \in Handling /\ h.op = req[r].op /\ h.pc = "answered"
  BY DEF ApplicationInv, Handling
<1>2. req' = [req EXCEPT ![r] = h]
  BY DEF Answers, ApplicationInv
<1>3. h.op = "submit" => r \in Submits
  BY <1>1 DEF ApplicationInv, WellFormed
<1> HIDE DEF h
<1>4. QED BY <1>1, <1>2, <1>3, Placed DEF Deciding

LEMMA EndsIdle ==
    ASSUME ApplicationInv, NEW r \in Slots, Ends(r)
    PROVE  Moves(r) /\ req'[r] = Idle
BY IdleType, Placed DEF Ends, Idle, Deciding

LEMMA SendsFirst ==
    ASSUME ApplicationInv, NEW r \in Slots, NEW h \in Handling, Sends(r, h),
           h.op = "submit" => r \in Submits,
           h.pc \notin Deciding, h.pc = "find" => h.row \in 1..MaxRows
    PROVE  Moves(r) /\ req'[r] = h /\ req[r] = Idle
BY Placed DEF Sends

-----------------------------------------------------------------------------
(* The handlers' steps.                                                    *)

LEMMA InitInv == Init => ApplicationInv
<1> SUFFICES ASSUME Init PROVE ApplicationInv
  OBVIOUS
<1>1. req \in [Slots -> Handling]
  BY IdleType DEF Init
<1>2. \A r \in Slots : req[r] = Idle
  BY DEF Init
<1>3. \A v \in 1..MaxRows : rows[v] = NoRow
  BY DEF Init
<1>4. Pending = {}
  BY <1>3 DEF Pending, NoRow
<1>5. TypeOK
  BY DEF Init, TypeOK, NoRow, Statuses
<1>6. \A r \in Slots : WellFormed(r)
  BY <1>2 DEF WellFormed, Idle, Deciding
<1>7. NotStale
  BY <1>2 DEF NotStale, Writing, Idle
<1>8. Marked
  BY <1>3 DEF Marked, NoRow
<1>9. Alone
  <2>1. \A r \in Submits : r \in Slots
    BY DEF Slots
  <2>2. QED BY <1>2, <1>4, <2>1 DEF Alone
<1>10. QED BY <1>1, <1>5, <1>6, <1>7, <1>8, <1>9 DEF ApplicationInv

\* The approval of what is overdue, up to its verdict.
LEMMA SweepKeeps ==
    ASSUME ApplicationInv, NEW r \in Slots, FindDue(r) \/ Each(r)
    PROVE  ApplicationInv'
<1>1. TypeOK' /\ rows' = rows /\ met' = met /\ req[r] # Idle
  BY DEF ApplicationInv, TypeOK, FindDue, Each, server, phone, Idle
<1>2. /\ Moves(r) /\ req'[r].pc # "insert"
      /\ req'[r].pc \in Deciding => req'[r].row \in Pending
  <2>1. CASE FindDue(r)
    <3> DEFINE h == [req[r] EXCEPT !.pc = "each", !.todo = Due]
    <3>1. h \in Handling /\ h.op = req[r].op /\ h.pc = "each"
      BY DEF ApplicationInv, Handling, Due, Pending
    <3>2. req' = [req EXCEPT ![r] = h]
      BY <2>1 DEF FindDue, ApplicationInv
    <3>3. h.op = "submit" => r \in Submits
      BY <3>1 DEF ApplicationInv, WellFormed
    <3> HIDE DEF h
    <3>4. QED BY <3>1, <3>2, <3>3, Placed DEF Deciding
  <2>2. ASSUME Each(r), NEW v \in req[r].todo, ReadRow(r, v)
        PROVE  /\ Moves(r) /\ req'[r].pc # "insert"
               /\ req'[r].pc \in Deciding => req'[r].row \in Pending
    <3>1. v \in 1..MaxRows
      BY DEF ApplicationInv, Handling
    <3>2. CASE v \in Pending
      <4> DEFINE h == [req[r] EXCEPT !.pc = "resolve", !.row = v]
      <4>1. h \in Handling /\ h.op = req[r].op /\ h.pc = "resolve" /\ h.row = v
        BY <3>1, RowType DEF ApplicationInv, Handling
      <4>2. req' = [req EXCEPT ![r] = h]
        BY <2>2, <3>2 DEF ReadRow, ApplicationInv
      <4>3. h.op = "submit" => r \in Submits
        BY <4>1 DEF ApplicationInv, WellFormed
      <4> HIDE DEF h
      <4>4. QED BY <3>1, <3>2, <4>1, <4>2, <4>3, Placed
    <3>3. CASE v \notin Pending
      <4> DEFINE h == [req[r] EXCEPT !.pc = "each", !.todo = @ \ {v}]
      <4>1. h \in Handling /\ h.op = req[r].op /\ h.pc = "each"
        BY DEF ApplicationInv, Handling
      <4>2. req' = [req EXCEPT ![r] = h]
        BY <2>2, <3>3 DEF ReadRow, ApplicationInv
      <4>3. h.op = "submit" => r \in Submits
        BY <4>1 DEF ApplicationInv, WellFormed
      <4> HIDE DEF h
      <4>4. QED BY <4>1, <4>2, <4>3, Placed DEF Deciding
    <3>4. QED BY <3>2, <3>3
  <2>3. CASE Each(r) /\ Goes(r, "own")
    BY <2>3, GoesOn DEF Deciding
  <2>4. QED BY <2>1, <2>2, <2>3 DEF Each
<1>3. \A q \in Submits : q \in Slots
  BY DEF Slots
<1>4. NotStale' /\ Marked' /\ Alone'
  BY <1>1, <1>2, <1>3, Calm DEF Moves
<1>5. QED BY <1>1, <1>2, <1>4 DEF ApplicationInv, Moves

\* The three verdicts.
LEMMA VerdictKeeps ==
    ASSUME ApplicationInv, NEW r \in Slots, AutoApprove(r) \/ Approve(r) \/ Reject(r)
    PROVE  ApplicationInv'
<1>1. /\ req[r].pc \in Deciding /\ met' = met /\ UNCHANGED phone
      /\ \E status \in Statuses \ {"pending"} : Verdict(req[r].row, status)
  BY DEF AutoApprove, Approve, Reject, Deciding, Statuses, Verified, phone
<1>2. req[r].row \in 1..MaxRows /\ req[r] # Idle
  BY <1>1 DEF ApplicationInv, WellFormed, Deciding, Idle
<1>3. TypeOK'
  BY <1>1, <1>2, VerdictWrites DEF ApplicationInv, TypeOK, phone, Application
<1>4. Moves(r) /\ req'[r].pc \notin Deciding \cup {"insert"}
  <2>1. CASE AutoApprove(r)
    <3> DEFINE h == [req[r] EXCEPT !.pc = "each", !.todo = @ \ {req[r].row}, !.row = 0]
    <3>1. h \in Handling /\ h.op = req[r].op /\ h.pc = "each"
      BY RowType DEF ApplicationInv, Handling
    <3>2. req' = [req EXCEPT ![r] = h]
      BY <2>1 DEF AutoApprove, ApplicationInv
    <3>3. h.op = "submit" => r \in Submits
      BY <3>1 DEF ApplicationInv, WellFormed
    <3> HIDE DEF h
    <3>4. QED BY <3>1, <3>2, <3>3, Placed DEF Deciding
  <2>2. CASE Approve(r) \/ Reject(r)
    BY <2>2, EndsIdle DEF Approve, Reject, Idle, Deciding
  <2>3. QED BY <2>1, <2>2
<1>5. NotStale' /\ Marked' /\ Alone'
  BY <1>1, <1>2, <1>4, Decides DEF Moves
<1>6. QED BY <1>3, <1>4, <1>5 DEF ApplicationInv, Moves

\* The checks of approve and reject, and the answers that write nothing.
LEMMA CheckKeeps ==
    ASSUME ApplicationInv, NEW r \in Slots,
           \/ GetStatus(r) \/ CheckUser(r) \/ CheckPending(r)
           \/ List(r) \/ FindPending(r) \/ FindAgain(r)
    PROVE  ApplicationInv'
<1>1. TypeOK' /\ rows' = rows /\ met' = met /\ req[r] # Idle
  BY DEF ApplicationInv, TypeOK, GetStatus, CheckUser, CheckPending, List, FindPending, FindAgain,
         At, server, phone, Idle
<1>2. /\ Moves(r) /\ (req'[r].pc = "insert" => Pending = {})
      /\ req'[r].pc \in Deciding => req'[r].row \in Pending
  <2>1. CASE GetStatus(r)
    BY <2>1, AnswersOnce DEF GetStatus, ApplicationInv, TypeOK, Deciding
  <2>2. CASE CheckUser(r) \/ CheckPending(r)
    BY <2>2, AnswersOnce, GoesOn DEF CheckUser, CheckPending, Deciding
  <2>3. CASE List(r)
    BY <2>3, EndsIdle DEF List, Idle, Deciding
  <2>4. CASE FindPending(r)
    BY <2>4, EndsIdle, GoesOn DEF FindPending, Pending, Idle, Deciding
  <2>5. CASE FindAgain(r)
    BY <2>5, EndsIdle, GoesOn DEF FindAgain, Pending, Idle, Deciding
  <2>6. QED BY <2>1, <2>2, <2>3, <2>4, <2>5
<1>3. \A q \in Submits : q \in Slots
  BY DEF Slots
<1>4. NotStale' /\ Marked' /\ Alone'
  BY <1>1, <1>2, <1>3, Calm DEF Moves
<1>5. QED BY <1>1, <1>2, <1>4 DEF ApplicationInv, Moves

\* A new application: the only one open, unless uploads have overlapped.
LEMMA InsertKeeps ==
    ASSUME ApplicationInv, NEW r \in Slots, Insert(r)
    PROVE  ApplicationInv'
<1>1. PICK v \in 1..MaxRows \ Inserted : rows' = [rows EXCEPT ![v].status = "pending"]
  BY DEF Insert
<1>2. /\ rows' \in [1..MaxRows -> Application] /\ rows'[v].status = "pending"
      /\ rows'[v].raced = rows[v].raced /\ rows'[v].twice = rows[v].twice
      /\ \A w \in 1..MaxRows : w # v => rows'[w] = rows[w]
  BY <1>1 DEF ApplicationInv, TypeOK, Application, Statuses
<1>3. /\ At(r, "submit", "insert") /\ req[r] # Idle /\ r \in Submits
      /\ user' = "pending" /\ met' = met /\ UNCHANGED phone
  BY DEF Insert, At, ApplicationInv, WellFormed, Idle, phone
<1>4. Moves(r) /\ req'[r].pc = "answered"
  BY AnswersOnce DEF Insert
<1>5. TypeOK'
  BY <1>2, <1>3 DEF ApplicationInv, TypeOK, Application, Statuses, phone
<1>6. NotStale'
  BY <1>2, <1>4 DEF ApplicationInv, NotStale, Writing, Moves
<1>7. Marked'
  BY <1>2 DEF ApplicationInv, Marked
<1>8. Alone'
  <2> SUFFICES ASSUME ~met PROVE Alone'
    BY <1>3 DEF Alone
  <2>1. Pending = {} /\ \A q \in Submits : q # r => req[q] = Idle
    BY <1>3 DEF ApplicationInv, Alone, At
  <2>2. \A w \in Pending' : w = v
    BY <2>1, <1>2 DEF Pending
  <2>3. \A q \in Submits : q \in Slots
    BY DEF Slots
  <2>4. \A q \in Submits : q # r => req'[q] = Idle
    BY <2>1, <2>3, <1>4 DEF Moves
  <2>5. \A q \in Submits : req'[q].pc # "insert"
    BY <2>4, <1>4 DEF Idle
  <2>6. QED BY <2>2, <2>4, <2>5 DEF Alone
<1>9. QED BY <1>4, <1>5, <1>6, <1>7, <1>8 DEF ApplicationInv, Moves

-----------------------------------------------------------------------------
(* The phone, the site, time.                                              *)

\* A button or a poll that puts a request into a free slot which is no upload's.
LEMMA AskKeeps ==
    ASSUME ApplicationInv, NEW r \in Slots \ Submits, NEW h \in Handling, Sends(r, h),
           h.op # "submit", h.pc \in {"due", "find"}, h.pc = "find" => h.row \in 1..MaxRows,
           UNCHANGED <<server, phone>>
    PROVE  ApplicationInv'
<1>1. TypeOK' /\ rows' = rows /\ met' = met
  BY DEF ApplicationInv, TypeOK, server, phone
<1>2. Moves(r) /\ req'[r].pc \in {"due", "find"}
  BY SendsFirst DEF Deciding
<1>3. \A q \in Submits : q \in Slots
  BY DEF Slots
<1>4. NotStale' /\ Marked' /\ Alone'
  BY <1>1, <1>2, <1>3, Calm DEF Moves, Deciding
<1>5. QED BY <1>1, <1>2, <1>4 DEF ApplicationInv, Moves

LEMMA SiteKeeps ==
    ASSUME ApplicationInv, Load \/ ClickApprove \/ ClickReject
    PROVE  ApplicationInv'
<1>1. ASSUME NEW h \in Handling, Click(h), h.op # "submit", h.pc \in {"due", "find"},
             h.pc = "find" => h.row \in 1..MaxRows
      PROVE  ApplicationInv'
  <2>1. PICK r \in Admins : Sends(r, h)
    BY <1>1 DEF Click
  <2>2. r \in Slots \ Submits /\ UNCHANGED <<server, phone>>
    BY <1>1, VerificationAssumption DEF Slots, Click, server, phone
  <2>3. QED BY <1>1, <2>1, <2>2, AskKeeps
<1>2. CASE Load
  <2> DEFINE h == [Idle EXCEPT !.op = "list", !.pc = "due"]
  <2>1. h \in Handling /\ h.op = "list" /\ h.pc = "due"
    BY IdleType DEF Handling
  <2>2. Click(h)
    BY <1>2 DEF Load
  <2> HIDE DEF h
  <2>3. QED BY <2>1, <2>2, <1>1
<1>3. CASE ClickApprove \/ ClickReject
  <2>1. PICK v \in Inserted, op \in {"approve", "reject"} :
            Click([Idle EXCEPT !.op = op, !.pc = "find", !.row = v])
    BY <1>3 DEF ClickApprove, ClickReject
  <2> DEFINE h == [Idle EXCEPT !.op = op, !.pc = "find", !.row = v]
  <2>2. h \in Handling /\ h.op # "submit" /\ h.pc = "find" /\ h.row \in 1..MaxRows
    BY IdleType, RowType DEF Handling, Inserted
  <2>3. Click(h)
    BY <2>1
  <2> HIDE DEF h
  <2>4. QED BY <2>2, <2>3, <1>1
<1>4. QED BY <1>2, <1>3

LEMMA SubmitKeeps == ASSUME ApplicationInv, Submit PROVE ApplicationInv'
<1> DEFINE r == waiting'
           h == [Idle EXCEPT !.op = "submit", !.pc = "due", !.heard = TRUE]
<1>1. r \in Submits /\ r \in Slots
  BY DEF Submit, First, Slots
<1>2. h \in Handling /\ h.op = "submit" /\ h.pc = "due"
  BY IdleType DEF Handling
<1>3. /\ Sends(r, h) /\ rows' = rows /\ UNCHANGED <<user, screen>>
      /\ met' = (met \/ \E q \in Submits : req[q] # Idle)
  BY DEF Submit, server
<1> HIDE DEF h
<1>4. Moves(r) /\ req'[r].pc = "due"
  BY <1>1, <1>2, <1>3, SendsFirst DEF Deciding
<1>5. TypeOK'
  BY <1>1, <1>3 DEF ApplicationInv, TypeOK
<1>6. NotStale'
  BY <1>3, <1>4 DEF ApplicationInv, NotStale, Writing, Moves
<1>7. Marked'
  BY <1>3 DEF ApplicationInv, Marked
<1>8. Alone'
  <2> SUFFICES ASSUME ~met' PROVE Alone'
    BY DEF Alone
  <2>1. ~met /\ \A q \in Submits : req[q] = Idle
    BY <1>3
  <2>2. \A q \in Submits : q # r => req'[q] = Idle
    BY <2>1, <1>1, <1>4 DEF Moves, Slots
  <2>3. Pending' = Pending
    BY <1>3 DEF Pending
  <2>4. \A q \in Submits : req'[q].pc # "insert"
    BY <2>2, <1>4 DEF Idle
  <2>5. QED BY <2>1, <2>2, <2>3, <2>4 DEF ApplicationInv, Alone
<1>9. QED BY <1>4, <1>5, <1>6, <1>7, <1>8 DEF ApplicationInv, Moves

\* The phone hears of a request, or no longer waits for it.
LEMMA HeardKeeps ==
    ASSUME ApplicationInv,
           \/ \E r \in Submits : SubmitAnswered(r) \/ GiveUp(r)
           \/ \E r \in Polls : PollAnswered(r) \/ PollFails(r)
    PROVE  ApplicationInv'
<1>1. PICK r \in Submits \cup Polls :
          \/ r \in Submits /\ (SubmitAnswered(r) \/ GiveUp(r))
          \/ r \in Polls /\ (PollAnswered(r) \/ PollFails(r))
  OBVIOUS
<1>2. r \in Slots /\ rows' = rows /\ user' = user /\ met' = met /\ req[r] # Idle
  BY <1>1 DEF Slots, SubmitAnswered, GiveUp, PollAnswered, PollFails, At, server, phone, Idle
<1>3. TypeOK'
  <2>1. waiting' \in Submits \cup {"nobody"}
    BY <1>1 DEF ApplicationInv, TypeOK, SubmitAnswered, GiveUp, PollAnswered, PollFails, Released, phone
  <2>2. screen' \in {"intro", "camera", "preview", "pending", "rejected", "time", "home"}
    BY <1>1 DEF ApplicationInv, TypeOK, SubmitAnswered, GiveUp, PollAnswered, PollFails, Target, phone
  <2>3. QED BY <2>1, <2>2, <1>2 DEF ApplicationInv, TypeOK
<1>4. Moves(r) /\ (req'[r] # Idle => req'[r].pc = req[r].pc /\ req'[r].row = req[r].row)
  <2>1. CASE Ends(r)
    BY <2>1, <1>2, EndsIdle
  <2>2. CASE GiveUp(r)
    <3> DEFINE h == [req[r] EXCEPT !.heard = FALSE]
    <3>1. h \in Handling /\ h.op = req[r].op /\ h.pc = req[r].pc /\ h.row = req[r].row
      BY <1>2 DEF ApplicationInv, Handling
    <3>2. req' = [req EXCEPT ![r] = h]
      BY <2>2, <1>2 DEF GiveUp, ApplicationInv
    <3>3. /\ h.op = "submit" => r \in Submits
          /\ h.pc \in Deciding \cup {"find"} => h.row \in 1..MaxRows
      BY <3>1, <1>2 DEF ApplicationInv, WellFormed
    <3> HIDE DEF h
    <3>4. QED BY <3>1, <3>2, <3>3, <1>2, Placed
  <2>3. QED BY <1>1, <2>1, <2>2 DEF SubmitAnswered, PollAnswered, PollFails
<1>5. \A q \in Submits : q \in Slots
  BY DEF Slots
<1>6. NotStale' /\ Marked' /\ Alone'
  BY <1>2, <1>4, <1>5, Calm DEF Moves, Idle, Deciding
<1>7. QED BY <1>3, <1>4, <1>6 DEF ApplicationInv, Moves

\* Screens change, minutes pass.
LEMMA RestKeeps ==
    ASSUME ApplicationInv,
           \/ BecomeDue \/ Back \/ UNCHANGED vars
           \/ OpenCamera \/ TakePhoto \/ Retake \/ TryAgain \/ GoHome \/ Return
    PROVE  ApplicationInv'
<1>1. /\ req' = req /\ met' = met /\ user' = user
      /\ waiting' \in {waiting, "nobody"}
      /\ screen' \in {screen, "intro", "camera", "preview", "pending", "home"}
  BY DEF BecomeDue, Back, OpenCamera, TakePhoto, Retake, TryAgain, GoHome, Return, Walks,
         vars, server, phone
<1>2. /\ rows' \in [1..MaxRows -> Application]
      /\ \A v \in 1..MaxRows : /\ rows'[v].status = rows[v].status
                             /\ rows'[v].raced = rows[v].raced
                             /\ rows'[v].twice = rows[v].twice
  <2>1. CASE BecomeDue
    <3>1. PICK w \in 1..MaxRows : rows' = [rows EXCEPT ![w].due = TRUE]
      BY <2>1 DEF BecomeDue, Pending
    <3>2. rows \in [1..MaxRows -> Application]
      BY DEF ApplicationInv, TypeOK, Application
    <3>3. QED BY <3>1, <3>2 DEF Application
  <2>2. CASE rows' = rows
    BY <2>2 DEF ApplicationInv, TypeOK, Application
  <2>3. QED
    BY <2>1, <2>2 DEF Back, OpenCamera, TakePhoto, Retake, TryAgain, GoHome, Return, Walks,
                      vars, server
<1>3. TypeOK'
  BY <1>1, <1>2 DEF ApplicationInv, TypeOK, Application
<1>4. req' \in [Slots -> Handling] /\ \A r \in Slots : WellFormed(r)'
  BY <1>1 DEF ApplicationInv, WellFormed
<1>5. NotStale' /\ Marked' /\ Alone'
  BY <1>1, <1>2, Calm
<1>6. QED BY <1>3, <1>4, <1>5 DEF ApplicationInv

LEMMA NextInv == ApplicationInv /\ [Next]_vars => ApplicationInv'
<1> SUFFICES ASSUME ApplicationInv, [Next]_vars PROVE ApplicationInv'
  OBVIOUS
<1>1. ASSUME NEW r \in Slots, Handler(r) PROVE ApplicationInv'
  BY <1>1, SweepKeeps, VerdictKeeps, CheckKeeps, InsertKeeps DEF Handler
<1>2. ASSUME NEW r \in Polls, Poll(r) PROVE ApplicationInv'
  <2> DEFINE h == [Idle EXCEPT !.op = "status", !.pc = "due"]
  <2>1. h \in Handling /\ h.op = "status" /\ h.pc = "due"
    BY IdleType DEF Handling
  <2>2. Sends(r, h) /\ UNCHANGED <<server, phone>>
    BY <1>2 DEF Poll, server, phone
  <2>3. r \in Slots \ Submits
    BY VerificationAssumption DEF Slots
  <2> HIDE DEF h
  <2>4. QED BY <2>1, <2>2, <2>3, AskKeeps
<1>3. QED BY <1>1, <1>2, SiteKeeps, SubmitKeeps, HeardKeeps, RestKeeps DEF Next

-----------------------------------------------------------------------------
(* Theorems.                                                               *)

\* The inductive invariant: what a request knows of the application it is
\* about to decide, and what holds while uploads have not overlapped.
THEOREM ApplicationsInductive == Spec => []ApplicationInv
BY InitInv, NextInv, PTL DEF Spec

\* An application gets a second verdict only from requests that had seen it
\* open at the same time, however many buttons, lists and clocks there are
\* (approve, reject, resolveVerification).
THEOREM DecidedOnce == Spec => []OneVerdict
<1>1. ApplicationInv => OneVerdict
  BY DEF ApplicationInv, Marked, OneVerdict, Inserted
<1>2. QED BY <1>1, ApplicationsInductive, PTL

\* Two applications are open only if two uploads overlapped (submit).
THEOREM OpenOnce == Spec => []OneApplication
<1>1. ApplicationInv => OneApplication
  BY AlikeAreFew DEF ApplicationInv, Alone, OneApplication
<1>2. QED BY <1>1, ApplicationsInductive, PTL

\* Every reachable state is well typed.
THEOREM ApplicationsTyped == Spec => []TypeOK
<1>1. ApplicationInv => TypeOK
  BY DEF ApplicationInv
<1>2. QED BY <1>1, ApplicationsInductive, PTL

-----------------------------------------------------------------------------
(* BackOffice.                                                             *)

\* A row keeps its zone until it is moved, and an id is never used again.
RowGoesOn(s) ==
    /\ seats[s].at # "unused" => seats'[s].at # "unused"
    /\ seats[s].at # "unused" /\ Exists(s)' /\ ~seats'[s].moved
           => Exists(s) /\ ~seats[s].moved /\ seats'[s].zone = seats[s].zone
    /\ seats[s].at = "gone" => seats'[s].at = "gone" /\ (seats[s].moved => seats'[s].moved)
SeatsGoOn == \A s \in SeatIds : RowGoesOn(s)
CountsGoOn == \A s \in SeatIds : held'[s].n >= held[s].n

\* Only flags change.
SameSeat(s) ==
    /\ seats'[s].at = seats[s].at /\ seats'[s].zone = seats[s].zone
    /\ seats'[s].number = seats[s].number
    /\ seats'[s].placed = seats[s].placed /\ seats'[s].moved = seats[s].moved
OnlyFlags == seats' \in [SeatIds -> SeatRows] /\ \A s \in SeatIds : SameSeat(s)

DoorsAccounted == \A s \in SeatIds : door[s].met \/ PulseIsLogged(s)

LEMMA NoCallIsACall ==
    /\ NoCall \in Calls /\ NoCall.op = "none" /\ NoCall.pc = "-"
BY BackOfficeAssumption DEF NoCall, Calls, Points

LEMMA GoingOn ==
    ASSUME NEW c \in Calls, NEW pc \in Points
    PROVE  LET d == [c EXCEPT !.pc = pc] IN
           /\ d \in Calls /\ d.pc = pc /\ d.op = c.op /\ d.seat = c.seat /\ d.zone = c.zone
           /\ d.number = c.number /\ d.status = c.status /\ d.seen = c.seen /\ d.n = c.n
           /\ d.plan = c.plan
BY DEF Calls

LEMMA NoCallIsShaped == Shaped(NoCall) /\ Informed(NoCall) /\ Shaped(NoCall)' /\ Informed(NoCall)'
BY NoCallIsACall DEF Shaped, Informed

LEMMA OthersStay ==
    ASSUME HallInv, NEW r \in Requesters, NEW d \in Calls, call' = [call EXCEPT ![r] = d]
    PROVE  /\ call' \in [Requesters -> Calls] /\ call'[r] = d
           /\ \A q \in Requesters \ {r} : call'[q] = call[q]
BY DEF HallInv

LEMMA SameCountsGoOn ==
    ASSUME HallInv, \A s \in SeatIds : held'[s].n = held[s].n
    PROVE  CountsGoOn
<1>1. \A s \in SeatIds : held[s].n \in Nat
  BY BackOfficeAssumption DEF HallInv, Holds
<1>2. QED BY <1>1 DEF CountsGoOn

LEMMA CallsGoOn ==
    ASSUME HallInv, SeatsGoOn, CountsGoOn, held' \in [SeatIds -> Holds],
           NEW c \in Calls, Shaped(c), Informed(c)
    PROVE  Shaped(c)' /\ Informed(c)'
<1>1. c.plan \in SUBSET SeatIds /\ c.n \in Nat /\ c.seat \in SeatIds \cup {"-"}
  BY BackOfficeAssumption DEF Calls
<1>2. \A s \in SeatIds : held[s].n \in Nat /\ held'[s].n \in Nat
  BY BackOfficeAssumption DEF HallInv, Holds
<1>3. ASSUME c.op = "door"
      PROVE  c.n <= held'[c.seat].n
  <2>1. c.seat \in SeatIds /\ c.n <= held[c.seat].n
    BY <1>3 DEF Shaped
  <2>2. held'[c.seat].n >= held[c.seat].n
    BY <2>1 DEF CountsGoOn
  <2>3. QED BY <1>1, <1>2, <2>1, <2>2
<1>4. Shaped(c)'
  BY <1>3 DEF Shaped
<1>5. ASSUME c.op = "delete", c.pc = "delete"
      PROVE  /\ seats'[c.seat].at # "unused"
             /\ Exists(c.seat)' /\ ~seats'[c.seat].moved => seats'[c.seat].zone = c.zone
  <2>1. c.seat \in SeatIds /\ seats[c.seat].at # "unused"
        /\ (Exists(c.seat) /\ ~seats[c.seat].moved => seats[c.seat].zone = c.zone)
    BY <1>5 DEF Shaped, Informed
  <2>2. RowGoesOn(c.seat)
    BY <2>1 DEF SeatsGoOn
  <2>3. QED BY <2>1, <2>2 DEF RowGoesOn
<1>6. ASSUME c.pc = "place", NEW s \in c.plan
      PROVE  /\ seats'[s].at # "unused"
             /\ Exists(s)' /\ ~seats'[s].moved => seats'[s].zone = c.zone
  <2>1. s \in SeatIds /\ seats[s].at # "unused"
        /\ (Exists(s) /\ ~seats[s].moved => seats[s].zone = c.zone)
    BY <1>1, <1>6 DEF Informed
  <2>2. RowGoesOn(s)
    BY <2>1 DEF SeatsGoOn
  <2>3. QED BY <2>1, <2>2 DEF RowGoesOn
<1>7. Informed(c)'
  BY <1>5, <1>6 DEF Informed
<1>8. QED BY <1>4, <1>7

LEMMA StepKeeps ==
    ASSUME HallInv, NEW r \in Requesters, NEW d \in Calls, call' = [call EXCEPT ![r] = d],
           HallTypeOK', seats' \in [SeatIds -> SeatRows], held' \in [SeatIds -> Holds],
           door' \in [SeatIds -> Doors], lock' \in Providers,
           SeatsGoOn, CountsGoOn, Shaped(d), Informed(d),
           BookedSeatStays', CornersAreTransient', DoorsAccounted'
    PROVE  HallInv'
<1>1. /\ call' \in [Requesters -> Calls] /\ call'[r] = d
      /\ \A q \in Requesters \ {r} : call'[q] = call[q]
  BY OthersStay
<1>2. \A q \in Requesters : Shaped(call[q])' /\ Informed(call[q])'
  <2>1. TAKE q \in Requesters
  <2>2. PICK c \in Calls : c = call'[q]
    BY <1>1
  <2>3. Shaped(c) /\ Informed(c)
    BY <1>1, <2>2 DEF HallInv
  <2>4. Shaped(c)' /\ Informed(c)'
    BY <2>3, CallsGoOn
  <2>5. QED BY <2>2, <2>4 DEF Shaped, Informed
<1>3. QED BY <1>1, <1>2 DEF HallInv, DoorsAccounted

-----------------------------------------------------------------------------
(* Steps that leave the rows of seats where they are.                      *)

LEMMA FlagIsOnly ==
    ASSUME HallInv, NEW s, NEW status \in SeatStatuses,
           seats' = [seats EXCEPT ![s].status = status]
    PROVE  OnlyFlags
<1>1. \A t \in SeatIds : seats[t] \in SeatRows
  BY DEF HallInv
<1>2. \A row \in SeatRows : LET new == [row EXCEPT !.status = status] IN
          /\ new \in SeatRows /\ new.at = row.at /\ new.zone = row.zone /\ new.number = row.number
          /\ new.placed = row.placed /\ new.moved = row.moved
  BY DEF SeatRows
<1>3. seats' \in [SeatIds -> SeatRows]
  BY <1>1, <1>2 DEF HallInv
<1>4. \A t \in SeatIds : SameSeat(t)
  BY <1>1, <1>2 DEF HallInv, SameSeat
<1>5. QED BY <1>3, <1>4 DEF OnlyFlags

LEMMA UnchangedIsOnly == HallInv /\ UNCHANGED seats => OnlyFlags
BY DEF HallInv, OnlyFlags, SameSeat

LEMMA OnlyFlagsGoOn ==
    ASSUME HallInv, OnlyFlags, zones \subseteq zones', zones' \subseteq Zones,
           held' \in [SeatIds -> Holds]
    PROVE  HallTypeOK' /\ SeatsGoOn
<1>1. \A s \in SeatIds : SameSeat(s) /\ seats'[s].status \in SeatStatuses
  BY DEF OnlyFlags, SeatRows
<1>2. SeatsGoOn
  BY <1>1 DEF SameSeat, SeatsGoOn, RowGoesOn, Exists
<1>3. /\ \A s \in SeatIds : Exists(s) => seats[s].zone \in zones /\ seats[s].status \in SeatStatuses
      /\ \A s, t \in SeatIds : Exists(s) /\ Exists(t) /\ s # t
             => <<seats[s].zone, seats[s].number>> # <<seats[t].zone, seats[t].number>>
  BY DEF HallInv, HallTypeOK
<1>4. \A s \in SeatIds : held'[s].now \in Current \cup {"none"} /\ held'[s].n \in 0..MaxBookings
  BY DEF Holds
<1>5. \A s \in SeatIds : Exists(s)' => seats'[s].zone \in zones'
                                  /\ seats'[s].status \in SeatStatuses
  BY <1>1, <1>3 DEF SameSeat, Exists
<1>6. \A s, t \in SeatIds : Exists(s)' /\ Exists(t)' /\ s # t
          => <<seats'[s].zone, seats'[s].number>> # <<seats'[t].zone, seats'[t].number>>
  BY <1>1, <1>3 DEF SameSeat, Exists
<1>7. HallTypeOK'
  BY <1>4, <1>5, <1>6 DEF HallTypeOK
<1>8. QED BY <1>2, <1>7

\* While no row goes, whoever is about to place a seat still is.
LEMMA CornersGoOn ==
    ASSUME HallInv, SeatsGoOn, NEW r \in Requesters, NEW d \in Calls,
           call' = [call EXCEPT ![r] = d],
           \A s \in SeatIds : Exists(s) => Exists(s)',
           r \in Workers => call[r].pc \notin {"arrange", "place"},
           \A s \in SeatIds : InTheCorner(s)'
               => \/ InTheCorner(s)
                  \/ r \in Workers /\ d.pc = "arrange" /\ d.zone = seats'[s].zone
    PROVE  CornersAreTransient'
<1>1. SUFFICES ASSUME MovedAndDeleted' = {}, NEW s \in SeatIds, InTheCorner(s)'
               PROVE  \E q \in Workers : Placing(call[q], s)'
  BY DEF CornersAreTransient
<1>2. /\ call'[r] = d /\ \A q \in Requesters \ {r} : call'[q] = call[q]
  BY OthersStay
<1>3. CASE r \in Workers /\ d.pc = "arrange" /\ d.zone = seats'[s].zone
  BY <1>2, <1>3 DEF Placing
<1>4. CASE InTheCorner(s)
  <2>1. MovedAndDeleted = {}
    BY <1>1 DEF MovedAndDeleted, SeatsGoOn, RowGoesOn
  <2>2. PICK q \in Workers : Placing(call[q], s)
    BY <1>4, <2>1 DEF HallInv, CornersAreTransient
  <2>3. q # r
    BY <2>2 DEF Placing
  <2>4. call'[q] = call[q] /\ call[q] \in Calls
    BY <1>2, <2>3 DEF Requesters, HallInv
  <2>5. seats'[s].zone = seats[s].zone
    BY <1>1, <1>4 DEF InTheCorner, Exists, SeatsGoOn, RowGoesOn
  <2>6. call[q].plan \subseteq SeatIds
    BY <2>4 DEF Calls
  <2>7. Placing(call[q], s)'
    BY <2>2, <2>4, <2>5, <2>6 DEF Placing
  <2>8. QED BY <2>7
<1>5. QED BY <1>1, <1>3, <1>4

LEMMA DoorsStay ==
    ASSUME HallInv, NEW r \in Requesters, NEW d \in Calls, call' = [call EXCEPT ![r] = d],
           UNCHANGED door, \A s \in SeatIds : held'[s].n = held[s].n,
           r \in Workers => call[r].op # "door" /\ d.op # "door"
    PROVE  DoorsAccounted'
<1>1. /\ call'[r] = d /\ \A q \in Requesters \ {r} : call'[q] = call[q]
  BY OthersStay
<1>2. ASSUME NEW s \in SeatIds
      PROVE  (door[s].met \/ PulseIsLogged(s))'
  <2>1. \A q \in Workers : AtDoor(call[q], s)' <=> AtDoor(call[q], s)
    BY <1>1 DEF AtDoor, Requesters
  <2>2. \A q \in Workers : AtDoor(call[q], s) => call'[q] = call[q]
    BY <1>1 DEF AtDoor, Requesters
  <2>3. DoorCalls(s)' = DoorCalls(s)
    BY <2>1 DEF DoorCalls
  <2>4. \A q \in DoorCalls(s) : call'[q] = call[q]
    BY <2>2 DEF DoorCalls
  <2>5. door[s].met \/ PulseIsLogged(s)
    BY DEF HallInv
  <2>6. QED BY <2>3, <2>4, <2>5 DEF PulseIsLogged
<1>3. QED BY <1>2 DEF DoorsAccounted

\* A step that changes flags of seats at most.
LEMMA FlagStep ==
    ASSUME HallInv, OnlyFlags, zones \subseteq zones', zones' \subseteq Zones, lock' \in Providers,
           held' \in [SeatIds -> Holds], CountsGoOn,
           \A s \in SeatIds : held'[s].n > 0 => Exists(s),
           door' \in [SeatIds -> Doors], DoorsAccounted',
           NEW r \in Requesters, NEW d \in Calls, call' = [call EXCEPT ![r] = d],
           r \in Workers => call[r].pc \notin {"arrange", "place"},
           Shaped(d), Informed(d)
    PROVE  HallInv'
<1>1. HallTypeOK' /\ SeatsGoOn
  BY OnlyFlagsGoOn
<1>2. \A s \in SeatIds : SameSeat(s)
  BY DEF OnlyFlags
<1>3. /\ \A s \in SeatIds : Exists(s) => Exists(s)'
      /\ \A s \in SeatIds : InTheCorner(s)' => InTheCorner(s)
  BY <1>2 DEF SameSeat, InTheCorner, Exists
<1>4. CornersAreTransient'
  BY <1>1, <1>3, CornersGoOn
<1>5. BookedSeatStays'
  BY <1>3 DEF BookedSeatStays
<1>6. seats' \in [SeatIds -> SeatRows]
  BY DEF OnlyFlags
<1>7. QED BY <1>1, <1>4, <1>5, <1>6, StepKeeps

\* One that is not about the door either.
LEMMA QuietStep ==
    ASSUME HallInv, OnlyFlags, zones \subseteq zones', zones' \subseteq Zones, lock' \in Providers,
           held' \in [SeatIds -> Holds], \A s \in SeatIds : held'[s].n = held[s].n,
           UNCHANGED door,
           NEW r \in Requesters, NEW d \in Calls, call' = [call EXCEPT ![r] = d],
           r \in Workers => call[r].pc \notin {"arrange", "place"}
                            /\ call[r].op # "door" /\ d.op # "door",
           Shaped(d), Informed(d)
    PROVE  HallInv'
<1>1. DoorsAccounted'
  BY DoorsStay
<1>2. \A s \in SeatIds : held'[s].n > 0 => Exists(s)
  BY DEF HallInv, BookedSeatStays
<1>3. CountsGoOn
  BY SameCountsGoOn
<1>4. door' \in [SeatIds -> Doors]
  BY DEF HallInv
<1>5. QED BY <1>1, <1>2, <1>3, <1>4, FlagStep

\* A step of a request that reads.
LEMMA ReadStep ==
    ASSUME HallInv, UNCHANGED <<zones, seats, held, door, lock>>,
           NEW r \in Requesters, NEW d \in Calls, call' = [call EXCEPT ![r] = d],
           r \in Workers => call[r].pc \notin {"arrange", "place"}
                            /\ call[r].op # "door" /\ d.op # "door",
           Shaped(d), Informed(d)
    PROVE  HallInv'
<1>1. OnlyFlags
  BY UnchangedIsOnly
<1>2. held' \in [SeatIds -> Holds] /\ lock' \in Providers /\ zones' \subseteq Zones
  BY DEF HallInv, HallTypeOK
<1>3. \A s \in SeatIds : held'[s].n = held[s].n
  OBVIOUS
<1>4. zones \subseteq zones' /\ UNCHANGED door
  OBVIOUS
<1>5. QED BY <1>1, <1>2, <1>3, <1>4, QuietStep

-----------------------------------------------------------------------------
(* Requests come.                                                          *)

LEMMA Coming ==
    ASSUME NEW op, NEW first, Come(op, first)
    PROVE  \E r \in Workers : /\ call[r] = NoCall /\ r \in Requesters
                              /\ call' = [call EXCEPT ![r] = [first EXCEPT !.op = op]]
<1> DEFINE idle == {q \in Workers : call[q] = NoCall}
           r == CHOOSE q \in idle : TRUE
<1>1. idle # {} /\ call' = [call EXCEPT ![r] = [first EXCEPT !.op = op]]
  BY DEF Come
<1>2. r \in idle
  BY <1>1
<1>3. QED BY <1>1, <1>2 DEF Requesters

LEMMA ComeKeeps ==
    ASSUME HallInv, NEW op, NEW first, Come(op, first), UNCHANGED door, op # "door",
           NEW d, d = [first EXCEPT !.op = op], d \in Calls, d.op = op, Shaped(d), Informed(d)
    PROVE  HallInv'
<1>1. PICK r \in Workers : /\ call[r] = NoCall /\ r \in Requesters
                           /\ call' = [call EXCEPT ![r] = d]
  BY Coming
<1>2. UNCHANGED <<zones, seats, held, door, lock>>
  BY DEF Come
<1>3. call[r].pc \notin {"arrange", "place"} /\ call[r].op # "door"
  BY <1>1, NoCallIsACall
<1>4. QED BY <1>1, <1>2, <1>3, ReadStep

LEMMA CreateSeatKeeps == HallInv /\ CreateSeat => HallInv'
<1>1. SUFFICES ASSUME HallInv, NEW z \in Zones, NEW k \in Numbers, NEW st \in Forms, UNCHANGED door,
                      Come("create", [NoCall EXCEPT !.pc = "check", !.zone = z, !.number = k,
                                                    !.status = st])
               PROVE  HallInv'
  BY DEF CreateSeat, ListedZones
<1> DEFINE d == [[NoCall EXCEPT !.pc = "check", !.zone = z, !.number = k, !.status = st]
                     EXCEPT !.op = "create"]
<1>2. st \in SeatStatuses /\ "create" \in Kinds
  BY BackOfficeAssumption, <1>1 DEF SeatStatuses, Come
<1>3. d \in Calls /\ d.op = "create" /\ d.pc = "check" /\ d.status = st
  BY <1>2, NoCallIsACall DEF Calls, Points
<1>4. Shaped(d) /\ Informed(d)
  BY <1>2, <1>3 DEF Shaped, Informed
<1> HIDE DEF d
<1>5. QED BY <1>1, <1>3, <1>4, ComeKeeps DEF d

LEMMA SaveSeatKeeps == HallInv /\ SaveSeat => HallInv'
<1>1. SUFFICES ASSUME HallInv, NEW s \in SeatIds, NEW z \in Zones, NEW k \in Numbers,
                      NEW st \in Forms, UNCHANGED door,
                      Come("update", [NoCall EXCEPT !.pc = "read", !.seat = s, !.zone = z,
                                                    !.number = k, !.status = st])
               PROVE  HallInv'
  BY DEF SaveSeat, ListedZones, ListedSeats
<1> DEFINE d == [[NoCall EXCEPT !.pc = "read", !.seat = s, !.zone = z, !.number = k, !.status = st]
                     EXCEPT !.op = "update"]
<1>2. st \in SeatStatuses /\ "update" \in Kinds
  BY BackOfficeAssumption, <1>1 DEF SeatStatuses, Come
<1>3. d \in Calls /\ d.op = "update" /\ d.pc = "read" /\ d.status = st /\ d.seat = s
  BY <1>2, NoCallIsACall DEF Calls, Points
<1>4. Shaped(d) /\ Informed(d)
  BY <1>2, <1>3 DEF Shaped, Informed
<1> HIDE DEF d
<1>5. QED BY <1>1, <1>3, <1>4, ComeKeeps DEF d

LEMMA QuickStatusKeeps == HallInv /\ QuickStatus => HallInv'
<1>1. SUFFICES ASSUME HallInv, NEW s \in SeatIds, NEW st \in Boxes, UNCHANGED door,
                      Come("update", [NoCall EXCEPT !.pc = "read", !.seat = s, !.status = st])
               PROVE  HallInv'
  BY DEF QuickStatus, ListedSeats
<1> DEFINE d == [[NoCall EXCEPT !.pc = "read", !.seat = s, !.status = st] EXCEPT !.op = "update"]
<1>2. st \in SeatStatuses /\ "update" \in Kinds
  BY BackOfficeAssumption, <1>1 DEF SeatStatuses, Come
<1>3. d \in Calls /\ d.op = "update" /\ d.pc = "read" /\ d.status = st /\ d.seat = s
  BY <1>2, NoCallIsACall DEF Calls, Points
<1>4. Shaped(d) /\ Informed(d)
  BY <1>2, <1>3 DEF Shaped, Informed
<1> HIDE DEF d
<1>5. QED BY <1>1, <1>3, <1>4, ComeKeeps DEF d

\* Requests that name a seat, and one that names a zone.
LEMMA AboutSeatKeeps ==
    ASSUME HallInv, UNCHANGED door, NEW s \in SeatIds, NEW op \in {"delete", "book"},
           Come(op, [NoCall EXCEPT !.pc = "read", !.seat = s])
    PROVE  HallInv'
<1> DEFINE d == [[NoCall EXCEPT !.pc = "read", !.seat = s] EXCEPT !.op = op]
<1>1. op \in Kinds
  BY DEF Come
<1>2. d \in Calls /\ d.op = op /\ d.pc = "read" /\ d.seat = s
  BY <1>1, NoCallIsACall DEF Calls, Points
<1>3. Shaped(d) /\ Informed(d)
  BY <1>2 DEF Shaped, Informed
<1> HIDE DEF d
<1>4. QED BY <1>2, <1>3, ComeKeeps DEF d

LEMMA DeleteSeatKeeps == HallInv /\ DeleteSeat => HallInv'
BY AboutSeatKeeps DEF DeleteSeat, ListedSeats

LEMMA BookKeeps == HallInv /\ Book => HallInv'
BY AboutSeatKeeps DEF Book, FloorMap, ListedSeats

LEMMA DeleteZoneKeeps == HallInv /\ DeleteZone => HallInv'
<1>1. SUFFICES ASSUME HallInv, NEW z \in Zones, UNCHANGED door,
                      Come("deleteZone", [NoCall EXCEPT !.pc = "count", !.zone = z])
               PROVE  HallInv'
  BY DEF DeleteZone, ListedZones
<1> DEFINE d == [[NoCall EXCEPT !.pc = "count", !.zone = z] EXCEPT !.op = "deleteZone"]
<1>2. "deleteZone" \in Kinds
  BY <1>1 DEF Come
<1>3. d \in Calls /\ d.op = "deleteZone" /\ d.pc = "count"
  BY <1>2, NoCallIsACall DEF Calls, Points
<1>4. Shaped(d) /\ Informed(d)
  BY <1>3 DEF Shaped, Informed
<1> HIDE DEF d
<1>5. QED BY <1>1, <1>3, <1>4, ComeKeeps DEF d

LEMMA CancelBookingKeeps == HallInv /\ CancelBooking => HallInv'
<1>1. SUFFICES ASSUME HallInv, NEW s \in SeatIds, UNCHANGED door,
                      Come("cancel", [NoCall EXCEPT !.pc = "read", !.seat = s, !.n = held[s].n])
               PROVE  HallInv'
  BY DEF CancelBooking, ListedBookings
<1> DEFINE d == [[NoCall EXCEPT !.pc = "read", !.seat = s, !.n = held[s].n] EXCEPT !.op = "cancel"]
<1>2. "cancel" \in Kinds /\ held[s].n \in 0..MaxBookings
  BY <1>1 DEF Come, HallInv, HallTypeOK
<1>3. d \in Calls /\ d.op = "cancel" /\ d.pc = "read" /\ d.seat = s
  BY <1>2, NoCallIsACall DEF Calls, Points
<1>4. Shaped(d) /\ Informed(d)
  BY <1>3 DEF Shaped, Informed
<1> HIDE DEF d
<1>5. QED BY <1>1, <1>3, <1>4, ComeKeeps DEF d

-----------------------------------------------------------------------------
(* Steps of no request, and those of requests that only read.              *)

LEMMA AloneKeeps ==
    ASSUME HallInv, OnlyFlags, zones \subseteq zones', zones' \subseteq Zones, lock' \in Providers,
           held' \in [SeatIds -> Holds], \A s \in SeatIds : held'[s].n = held[s].n,
           UNCHANGED <<door, call>>
    PROVE  HallInv'
<1>1. "pass" \in Requesters /\ "pass" \notin Workers
  BY BackOfficeAssumption DEF Requesters
<1>2. PICK d \in Calls : d = call["pass"]
  BY <1>1 DEF HallInv
<1>3. call' = [call EXCEPT !["pass"] = d]
  BY <1>1, <1>2 DEF HallInv
<1>4. Shaped(d) /\ Informed(d)
  BY <1>1, <1>2 DEF HallInv
<1>5. QED BY <1>1, <1>3, <1>4, QuietStep

LEMMA CreateZoneKeeps == HallInv /\ CreateZone => HallInv'
<1>1. SUFFICES ASSUME HallInv, CreateZone PROVE HallInv'
  OBVIOUS
<1>2. UNCHANGED <<seats, held, door, lock, call>>
      /\ zones \subseteq zones' /\ zones' \subseteq Zones
  BY <1>1 DEF CreateZone, Created, HallInv, HallTypeOK
<1>3. OnlyFlags /\ held' \in [SeatIds -> Holds] /\ lock' \in Providers
  BY <1>1, <1>2, UnchangedIsOnly DEF HallInv
<1>4. QED BY <1>1, <1>2, <1>3, AloneKeeps

LEMMA SaveLockKeeps == HallInv /\ SaveLock => HallInv'
<1>1. SUFFICES ASSUME HallInv, SaveLock PROVE HallInv'
  OBVIOUS
<1>2. UNCHANGED <<zones, seats, held, door, call>> /\ lock' \in Providers
  BY <1>1 DEF SaveLock
<1>3. OnlyFlags /\ held' \in [SeatIds -> Holds] /\ zones' \subseteq Zones
  BY <1>1, <1>2, UnchangedIsOnly DEF HallInv, HallTypeOK
<1>4. QED BY <1>1, <1>2, <1>3, AloneKeeps

LEMMA ProgressKeeps == HallInv /\ (\E s \in SeatIds : Progress(s)) => HallInv'
<1>1. SUFFICES ASSUME HallInv, NEW s \in SeatIds, Progress(s) PROVE HallInv'
  OBVIOUS
<1>2. UNCHANGED <<zones, door, lock, call>>
  BY <1>1 DEF Progress
<1>3. PICK now \in Current \cup {"none"} : held' = [held EXCEPT ![s].now = now]
  BY <1>1 DEF Progress, DoorWindow, Begin, Over, Current
<1>4. held' \in [SeatIds -> Holds] /\ \A t \in SeatIds : held'[t].n = held[t].n
  BY <1>1, <1>3 DEF HallInv, Holds
<1>5. OnlyFlags
  BY <1>1, FlagIsOnly, UnchangedIsOnly DEF Progress, DoorWindow, Begin, Over, SeatStatuses
<1>6. zones' \subseteq Zones /\ lock' \in Providers
  BY <1>1, <1>2 DEF HallInv, HallTypeOK
<1>7. QED BY <1>1, <1>2, <1>4, <1>5, <1>6, AloneKeeps

\* The request ends, or goes on to a program point that asks for nothing new.
LEMMA EndKeeps ==
    ASSUME HallInv, UNCHANGED <<zones, seats, held, door, lock>>, NEW r \in Requesters, Finishes(r),
           r \in Workers => call[r].pc \notin {"arrange", "place"} /\ call[r].op # "door"
    PROVE  HallInv'
BY NoCallIsACall, NoCallIsShaped, ReadStep DEF Finishes

LEMMA ProceedKeeps ==
    ASSUME HallInv, UNCHANGED <<zones, seats, held, door, lock>>, NEW r \in Requesters,
           NEW pc \in Points, Proceeds(r, pc),
           pc \notin {"look", "weigh", "flag", "place", "arrange"},
           r \in Workers => call[r].pc \notin {"arrange", "place"} /\ call[r].op # "door",
           call[r].op = "delete" => pc # "delete"
    PROVE  HallInv'
<1>1. PICK c \in Calls : c = call[r]
  BY DEF HallInv
<1>2. PICK d \in Calls : d = [c EXCEPT !.pc = pc]
  BY <1>1, GoingOn
<1>3. call' = [call EXCEPT ![r] = d]
  BY <1>1, <1>2 DEF Proceeds, HallInv
<1>4. Shaped(c)
  BY <1>1 DEF HallInv
<1>5. d.pc = pc /\ d.op = c.op /\ d.seat = c.seat /\ d.status = c.status /\ d.n = c.n
  BY <1>2, GoingOn
<1>6. Shaped(d) /\ Informed(d)
  BY <1>1, <1>4, <1>5 DEF Shaped, Informed
<1>7. QED BY <1>1, <1>3, <1>5, <1>6, ReadStep

LEMMA ReadingKeeps ==
    ASSUME HallInv, NEW r \in Workers,
           \/ CheckNew(r) \/ ReadSeat(r) \/ GuardFree(r)
           \/ CountSeats(r) \/ ReadBooking(r) \/ ReadFree(r)
    PROVE  HallInv'
<1>1. r \in Requesters
  BY DEF Requesters
<1>2. UNCHANGED <<zones, seats, held, door, lock>>
  BY DEF CheckNew, ReadSeat, GuardFree, CountSeats, ReadBooking, ReadFree, tables
<1>3. \/ Finishes(r)
      \/ \E pc \in {"insert", "guard", "write"} : Proceeds(r, pc)
      \/ call[r].op = "deleteZone" /\ Proceeds(r, "delete")
  BY DEF CheckNew, ReadSeat, GuardFree, CountSeats, ReadBooking, ReadFree, Reached
<1>4. call[r].pc \notin {"arrange", "place"} /\ call[r].op # "door"
  BY DEF CheckNew, ReadSeat, GuardFree, CountSeats, ReadBooking, ReadFree, Reached
<1>5. call[r].op # "delete"
  BY DEF CheckNew, ReadSeat, GuardFree, CountSeats, ReadBooking, ReadFree, Reached
<1>6. {"insert", "guard", "write", "delete"} \subseteq Points
  BY DEF Points
<1>7. QED BY <1>1, <1>2, <1>3, <1>4, <1>5, <1>6, EndKeeps, ProceedKeeps

LEMMA CheckDeletableKeeps ==
    ASSUME HallInv, NEW r \in Workers, CheckDeletable(r)
    PROVE  HallInv'
<1> DEFINE s == call[r].seat
<1>1. r \in Requesters /\ Reached(r, "delete", "read")
      /\ UNCHANGED <<zones, seats, held, door, lock>>
  BY DEF Requesters, CheckDeletable, tables
<1>2. CASE Exists(s) /\ held[s] = Fresh
  <2>1. PICK c \in Calls : c = call[r]
    BY <1>1 DEF HallInv
  <2>2. s \in SeatIds /\ c.seat = s /\ c.op = "delete" /\ seats[s].at = "row"
    BY <1>1, <1>2, <2>1 DEF HallInv, Shaped, Reached, Exists
  <2>3. PICK z \in Zones \cup {"-"} : z = seats[s].zone
    BY <2>2 DEF HallInv, SeatRows
  <2>4. PICK d : d = [c EXCEPT !.pc = "delete", !.zone = z]
    OBVIOUS
  <2>5. d \in Calls /\ d.pc = "delete" /\ d.zone = z /\ d.op = "delete" /\ d.seat = s
    BY <2>2, <2>4 DEF Calls, Points
  <2>6. call' = [call EXCEPT ![r] = d]
    BY <1>1, <1>2, <2>1, <2>3, <2>4 DEF CheckDeletable, HallInv
  <2>7. Shaped(d)
    BY <2>2, <2>5 DEF Shaped
  <2>8. Informed(d)
    BY <2>2, <2>3, <2>5 DEF Informed
  <2>9. call[r].pc \notin {"arrange", "place"} /\ call[r].op # "door"
    BY <1>1 DEF Reached
  <2>10. QED BY <1>1, <2>5, <2>6, <2>7, <2>8, <2>9, ReadStep
<1>3. CASE ~(Exists(s) /\ held[s] = Fresh)
  <2>1. Finishes(r)
    BY <1>3 DEF CheckDeletable, Finishes
  <2>2. QED BY <1>1, <2>1, EndKeeps DEF Reached
<1>4. QED BY <1>2, <1>3

-----------------------------------------------------------------------------
(* Recomputing a seat's flag.                                              *)

LEMMA RecomputedIs ==
    ASSUME HallInv, NEW r \in Requesters, call[r].op # "door", Recomputed(r) \/ Finishes(r)
    PROVE  \E d \in Calls : /\ call' = [call EXCEPT ![r] = d]
                            /\ Shaped(d) /\ Informed(d) /\ d.op # "door"
<1>1. CASE Finishes(r)
  BY <1>1, NoCallIsACall, NoCallIsShaped DEF Finishes
<1>2. CASE call[r].op = "pass" /\ Proceeds(r, "next")
  <2>1. PICK c \in Calls : c = call[r]
    BY DEF HallInv
  <2>2. "next" \in Points
    BY DEF Points
  <2>3. PICK d \in Calls : d = [c EXCEPT !.pc = "next"]
    BY <2>2, GoingOn
  <2>4. d.pc = "next" /\ d.op = "pass"
    BY <1>2, <2>1, <2>2, <2>3, GoingOn
  <2>5. call' = [call EXCEPT ![r] = d]
    BY <1>2, <2>1, <2>3 DEF Proceeds, HallInv
  <2>6. Shaped(d) /\ Informed(d)
    BY <2>4 DEF Shaped, Informed
  <2>7. QED BY <2>4, <2>5, <2>6
<1>3. QED BY <1>1, <1>2 DEF Recomputed

LEMMA RecomputedKeeps ==
    ASSUME HallInv, NEW r \in Requesters, call[r].op # "door", Recomputed(r) \/ Finishes(r),
           r \in Workers => call[r].pc \notin {"arrange", "place"},
           UNCHANGED <<zones, seats, held, door, lock>>
    PROVE  HallInv'
BY RecomputedIs, ReadStep

LEMMA LookKeeps == ASSUME HallInv, NEW r \in Requesters, Look(r) PROVE HallInv'
<1> DEFINE s == call[r].seat
<1>1. PICK c \in Calls : c = call[r]
  BY DEF HallInv
<1>2. /\ c.pc = "look" /\ Shaped(c) /\ s \in SeatIds /\ c.seat = s /\ c.op # "door"
      /\ UNCHANGED <<zones, seats, held, door, lock>>
  BY <1>1 DEF Look, tables, HallInv, Shaped
<1>3. CASE ~Exists(s) \/ seats[s].status = "repair"
  BY <1>1, <1>2, <1>3, RecomputedKeeps DEF Look
<1>4. CASE ~(~Exists(s) \/ seats[s].status = "repair")
  <2>1. PICK seen \in SeatStatuses : seen = seats[s].status
    BY <1>2 DEF HallInv, SeatRows
  <2>2. PICK d : d = [c EXCEPT !.pc = "weigh", !.seen = seen]
    OBVIOUS
  <2>3. /\ d \in Calls /\ d.pc = "weigh" /\ d.seen = seen
        /\ d.op = c.op /\ d.seat = s /\ d.status = c.status
    BY <1>2, <2>2 DEF Calls, Points
  <2>4. call' = [call EXCEPT ![r] = d]
    BY <1>1, <1>4, <2>1, <2>2 DEF Look, HallInv
  <2>5. Shaped(d) /\ Informed(d)
    BY <1>2, <1>4, <2>1, <2>3 DEF Shaped, Informed
  <2>6. call[r].pc \notin {"arrange", "place"} /\ call[r].op # "door" /\ d.op # "door"
    BY <1>1, <1>2, <2>3
  <2>7. QED BY <1>2, <2>3, <2>4, <2>5, <2>6, ReadStep
<1>5. QED BY <1>3, <1>4

LEMMA DisplayIsAStatus == \A s : Display(s) \in SeatStatuses
BY DEF Display, SeatStatuses

LEMMA WeighKeeps == ASSUME HallInv, NEW r \in Requesters, Weigh(r) PROVE HallInv'
<1> DEFINE s == call[r].seat
<1>1. PICK c \in Calls : c = call[r]
  BY DEF HallInv
<1>2. /\ c.pc = "weigh" /\ Shaped(c) /\ s \in SeatIds /\ c.seat = s /\ c.op # "door"
      /\ UNCHANGED <<zones, seats, held, door, lock>>
  BY <1>1 DEF Weigh, tables, HallInv, Shaped
<1>3. CASE Display(s) = call[r].seen
  BY <1>1, <1>2, <1>3, RecomputedKeeps DEF Weigh
<1>4. CASE Display(s) # call[r].seen
  <2>1. PICK status \in SeatStatuses : status = Display(s)
    BY DisplayIsAStatus
  <2>2. PICK d : d = [c EXCEPT !.pc = "flag", !.status = status]
    OBVIOUS
  <2>3. /\ d \in Calls /\ d.pc = "flag" /\ d.status = status
        /\ d.op = c.op /\ d.seat = s /\ d.seen = c.seen
    BY <1>2, <2>2 DEF Calls, Points
  <2>4. call' = [call EXCEPT ![r] = d]
    BY <1>1, <1>4, <2>1, <2>2 DEF Weigh, HallInv
  <2>5. Shaped(d) /\ Informed(d)
    BY <1>2, <2>1, <2>3 DEF Shaped, Informed
  <2>6. call[r].pc \notin {"arrange", "place"} /\ call[r].op # "door" /\ d.op # "door"
    BY <1>1, <1>2, <2>3
  <2>7. QED BY <1>2, <2>3, <2>4, <2>5, <2>6, ReadStep
<1>5. QED BY <1>3, <1>4

LEMMA FlagKeeps == ASSUME HallInv, NEW r \in Requesters, Flag(r) PROVE HallInv'
<1> DEFINE s == call[r].seat
<1>1. /\ call[r].pc = "flag" /\ s \in SeatIds /\ call[r].op # "door"
      /\ call[r].status \in SeatStatuses /\ UNCHANGED <<zones, held, door, lock>>
  BY DEF Flag, HallInv, Shaped
<1>2. Recomputed(r) \/ Finishes(r)
  BY DEF Flag
<1>3. PICK d \in Calls : /\ call' = [call EXCEPT ![r] = d]
                         /\ Shaped(d) /\ Informed(d) /\ d.op # "door"
  BY <1>1, <1>2, RecomputedIs
<1>4. OnlyFlags
  BY <1>1, FlagIsOnly, UnchangedIsOnly DEF Flag
<1>5. /\ held' \in [SeatIds -> Holds] /\ lock' \in Providers /\ zones' \subseteq Zones
      /\ zones \subseteq zones' /\ \A t \in SeatIds : held'[t].n = held[t].n
  BY <1>1 DEF HallInv, HallTypeOK
<1>6. call[r].pc \notin {"arrange", "place"}
  BY <1>1
<1>7. QED BY <1>1, <1>3, <1>4, <1>5, <1>6, QuietStep

LEMMA StartPassKeeps == HallInv /\ StartPass => HallInv'
<1>1. SUFFICES ASSUME HallInv, StartPass PROVE HallInv'
  OBVIOUS
<1>2. PICK todo \in SUBSET SeatIds :
          call' = [call EXCEPT !["pass"] =
                      [NoCall EXCEPT !.op = "pass", !.pc = "next", !.todo = todo]]
  BY <1>1 DEF StartPass
<1>3. PICK d : d = [NoCall EXCEPT !.op = "pass", !.pc = "next", !.todo = todo]
  OBVIOUS
<1>4. d \in Calls /\ d.op = "pass" /\ d.pc = "next"
  BY <1>3, NoCallIsACall DEF Calls, Points
<1>5. Shaped(d) /\ Informed(d)
  BY <1>4 DEF Shaped, Informed
<1>6. "pass" \in Requesters /\ "pass" \notin Workers
  BY BackOfficeAssumption DEF Requesters
<1>7. UNCHANGED <<zones, seats, held, door, lock>>
  BY <1>1 DEF StartPass, tables
<1>8. QED BY <1>1, <1>2, <1>3, <1>4, <1>5, <1>6, <1>7, ReadStep

LEMMA NextSeatKeeps == HallInv /\ NextSeat => HallInv'
<1>1. SUFFICES ASSUME HallInv, NextSeat PROVE HallInv'
  OBVIOUS
<1>2. "pass" \in Requesters /\ "pass" \notin Workers
  BY BackOfficeAssumption DEF Requesters
<1>3. UNCHANGED <<zones, seats, held, door, lock>>
  BY <1>1 DEF NextSeat, tables
<1>4. CASE Finishes("pass")
  BY <1>1, <1>2, <1>3, <1>4, EndKeeps
<1>5. CASE \E s \in call["pass"].todo : call' = [call EXCEPT !["pass"] =
               [call["pass"] EXCEPT !.pc = "look", !.seat = s, !.todo = call["pass"].todo \ {s}]]
  <2>1. PICK c \in Calls : c = call["pass"]
    BY <1>1, <1>2 DEF HallInv
  <2>2. c.op = "pass"
    BY <1>1, <2>1 DEF NextSeat, Reached
  <2>3. PICK s \in c.todo : call' = [call EXCEPT !["pass"] =
               [c EXCEPT !.pc = "look", !.seat = s, !.todo = c.todo \ {s}]]
    BY <1>5, <2>1
  <2>4. PICK d : d = [c EXCEPT !.pc = "look", !.seat = s, !.todo = c.todo \ {s}]
    OBVIOUS
  <2>5. s \in SeatIds /\ c.todo \ {s} \in SUBSET SeatIds
    BY DEF Calls
  <2>6. d \in Calls /\ d.op = "pass" /\ d.pc = "look" /\ d.seat = s
    BY <2>2, <2>4, <2>5 DEF Calls, Points
  <2>7. call' = [call EXCEPT !["pass"] = d]
    BY <2>3, <2>4
  <2>8. Shaped(d) /\ Informed(d)
    BY <2>5, <2>6 DEF Shaped, Informed
  <2>9. QED BY <1>1, <1>2, <1>3, <2>6, <2>7, <2>8, ReadStep
<1>6. QED BY <1>1, <1>4, <1>5 DEF NextSeat

-----------------------------------------------------------------------------
(* Requests that write rows of seats.                                      *)

LEMMA WriteCancelledKeeps ==
    ASSUME HallInv, NEW r \in Workers, WriteCancelled(r)
    PROVE  HallInv'
<1> DEFINE s == call[r].seat
<1>1. /\ r \in Requesters /\ call[r].op = "cancel" /\ call[r].pc = "write" /\ Finishes(r)
      /\ UNCHANGED <<zones, door, lock>> /\ seats' = [seats EXCEPT ![s].status = "free"]
  BY DEF Requesters, WriteCancelled, Reached
<1>2. OnlyFlags
  BY <1>1, FlagIsOnly DEF SeatStatuses
<1>3. held' \in [SeatIds -> Holds] /\ \A t \in SeatIds : held'[t].n = held[t].n
  BY DEF WriteCancelled, HallInv, Holds
<1>4. lock' \in Providers /\ zones' \subseteq Zones
  BY <1>1 DEF HallInv, HallTypeOK
<1>5. call' = [call EXCEPT ![r] = NoCall]
  BY <1>1 DEF Finishes
<1>6. QED BY <1>1, <1>2, <1>3, <1>4, <1>5, NoCallIsACall, NoCallIsShaped, QuietStep

\* What a step that rewrites rows owes, besides the doors.
LEMMA RowStep ==
    ASSUME HallInv, NEW r \in Workers, NEW d \in Calls, call' = [call EXCEPT ![r] = d],
           call[r].op # "door", d.op # "door", UNCHANGED <<held, door, lock>>,
           Shaped(d), Informed(d), zones' \subseteq Zones,
           seats' \in [SeatIds -> SeatRows], SeatsGoOn,
           \A s \in SeatIds : Exists(s)' => seats'[s].zone \in zones',
           \A s, t \in SeatIds : Exists(s)' /\ Exists(t)' /\ s # t
               => <<seats'[s].zone, seats'[s].number>> # <<seats'[t].zone, seats'[t].number>>,
           \A s \in SeatIds : held[s].n > 0 => Exists(s)',
           CornersAreTransient'
    PROVE  HallInv'
<1>1. r \in Requesters
  BY DEF Requesters
<1>2. HallTypeOK'
  BY DEF HallTypeOK, HallInv, SeatRows
<1>3. DoorsAccounted'
  BY <1>1, DoorsStay
<1>4. CountsGoOn
  BY SameCountsGoOn
<1>5. BookedSeatStays'
  BY DEF BookedSeatStays
<1>6. held' \in [SeatIds -> Holds] /\ door' \in [SeatIds -> Doors] /\ lock' \in Providers
  BY DEF HallInv
<1>7. QED BY <1>1, <1>2, <1>3, <1>4, <1>5, <1>6, StepKeeps

LEMMA InsertSeatKeeps ==
    ASSUME HallInv, NEW r \in Workers, InsertSeat(r)
    PROVE  HallInv'
<1> DEFINE c == call[r]
<1>1. /\ r \in Requesters /\ c \in Calls /\ c.op = "create" /\ c.pc = "insert"
      /\ UNCHANGED <<zones, held, door, lock>>
  BY DEF Requesters, InsertSeat, Reached, HallInv
<1>2. CASE Finishes(r) /\ UNCHANGED seats
  BY <1>1, <1>2, EndKeeps
<1>3. CASE /\ c.zone \in zones /\ ~Taken(c.zone, c.number, "-")
           /\ \E s \in SeatIds :
                /\ seats[s] = Unused
                /\ seats' = [seats EXCEPT ![s] = Row(c.zone, c.number, c.status)]
           /\ Proceeds(r, "arrange")
  <2>1. PICK s \in SeatIds :
                /\ seats[s] = Unused
                /\ seats' = [seats EXCEPT ![s] = Row(c.zone, c.number, c.status)]
    BY <1>3
  <2>2. PICK row : row = Row(c.zone, c.number, c.status)
    OBVIOUS
  <2>3. c.status \in SeatStatuses /\ c.zone \in Zones
    BY <1>1, <1>3 DEF HallInv, Shaped, HallTypeOK
  <2>4. /\ row \in SeatRows /\ row.at = "row" /\ row.zone = c.zone /\ row.number = c.number
        /\ row.placed = FALSE /\ row.moved = FALSE
    BY <1>1, <2>2, <2>3 DEF Row, Unused, SeatRows, Calls
  <2>5. seats[s].at = "unused"
    BY <2>1 DEF Unused
  <2>6. /\ seats' \in [SeatIds -> SeatRows] /\ seats'[s] = row
        /\ \A t \in SeatIds \ {s} : seats'[t] = seats[t]
    BY <2>1, <2>2, <2>4 DEF HallInv
  <2>7. SeatsGoOn
    BY <2>4, <2>5, <2>6 DEF SeatsGoOn, RowGoesOn, Exists
  <2>8. PICK d \in Calls : d = [c EXCEPT !.pc = "arrange"]
    BY <1>1, GoingOn DEF Points
  <2>9. d.pc = "arrange" /\ d.op = "create" /\ d.zone = c.zone /\ d.status = c.status
    BY <1>1, <2>8, GoingOn DEF Points
  <2>10. call' = [call EXCEPT ![r] = d]
    BY <1>1, <1>3, <2>8 DEF Proceeds, HallInv
  <2>11. Shaped(d) /\ Informed(d)
    BY <2>3, <2>9 DEF Shaped, Informed
  <2>12. \A t \in SeatIds : Exists(t)' => seats'[t].zone \in zones'
    BY <1>1, <1>3, <2>4, <2>6 DEF HallInv, HallTypeOK, Exists
  <2>13. ASSUME NEW t \in SeatIds, t # s, Exists(t)
         PROVE  seats[t].zone # c.zone \/ seats[t].number # c.number
    BY <1>3, <2>13, BackOfficeAssumption DEF Taken, In
  <2>14. \A t, u \in SeatIds : Exists(t)' /\ Exists(u)' /\ t # u
             => <<seats'[t].zone, seats'[t].number>> # <<seats'[u].zone, seats'[u].number>>
    <3>1. SUFFICES ASSUME NEW t \in SeatIds, NEW u \in SeatIds, Exists(t)', Exists(u)', t # u
                   PROVE  seats'[t].zone # seats'[u].zone \/ seats'[t].number # seats'[u].number
      OBVIOUS
    <3>2. CASE t # s /\ u # s
      <4>1. seats'[t] = seats[t] /\ seats'[u] = seats[u] /\ Exists(t) /\ Exists(u)
        BY <2>6, <3>1, <3>2 DEF Exists
      <4>2. <<seats[t].zone, seats[t].number>> # <<seats[u].zone, seats[u].number>>
        BY <3>1, <4>1 DEF HallInv, HallTypeOK
      <4>3. QED BY <4>1, <4>2
    <3>3. CASE t = s
      BY <2>4, <2>6, <2>13, <3>1, <3>3 DEF Exists
    <3>4. CASE u = s
      BY <2>4, <2>6, <2>13, <3>1, <3>4 DEF Exists
    <3>5. QED BY <3>2, <3>3, <3>4
  <2>15. \A t \in SeatIds : Exists(t) => Exists(t)'
    BY <2>5, <2>6 DEF Exists
  <2>16. \A t \in SeatIds : held[t].n > 0 => Exists(t)'
    BY <2>15 DEF HallInv, BookedSeatStays
  <2>17. \A t \in SeatIds : InTheCorner(t)'
             => \/ InTheCorner(t)
                \/ r \in Workers /\ d.pc = "arrange" /\ d.zone = seats'[t].zone
    BY <2>4, <2>6, <2>9 DEF InTheCorner, Exists
  <2>18. CornersAreTransient'
    BY <1>1, <2>7, <2>10, <2>15, <2>17, CornersGoOn
  <2>19. zones' \subseteq Zones
    BY <1>1 DEF HallInv, HallTypeOK
  <2>20. QED BY <1>1, <2>6, <2>7, <2>9, <2>10, <2>11, <2>12, <2>14, <2>16, <2>18, <2>19, RowStep
<1>4. QED BY <1>2, <1>3 DEF InsertSeat

LEMMA ArrangeKeeps ==
    ASSUME HallInv, NEW r \in Workers, Arrange(r)
    PROVE  HallInv'
<1> DEFINE c == call[r]
           z == call[r].zone
<1>1. /\ r \in Requesters /\ c \in Calls /\ c.pc = "arrange" /\ c.op # "door" /\ Shaped(c)
      /\ UNCHANGED <<zones, seats, held, door, lock>>
  BY DEF Requesters, Arrange, tables, HallInv, Shaped
<1>2. PICK plan \in SUBSET SeatIds : plan = In(z)
  BY DEF In
<1>3. \A s \in plan : Exists(s) /\ seats[s].zone = z /\ seats[s].at # "unused"
  BY <1>2 DEF In, Exists
<1>4. \E d \in Calls : /\ call' = [call EXCEPT ![r] = d]
                       /\ Shaped(d) /\ Informed(d) /\ d.op # "door"
                       /\ plan = {} \/ (d.pc = "place" /\ d.plan = plan)
  <2>1. CASE plan = {}
    <3>1. call' = [call EXCEPT ![r] = NoCall]
      BY <1>2, <2>1 DEF Arrange
    <3>2. QED BY <2>1, <3>1, NoCallIsACall, NoCallIsShaped
  <2>2. CASE plan # {}
    <3>1. PICK d : d = [c EXCEPT !.pc = "place", !.plan = plan]
      OBVIOUS
    <3>2. /\ d \in Calls /\ d.pc = "place" /\ d.plan = plan /\ d.op = c.op /\ d.seat = c.seat
          /\ d.zone = z /\ d.status = c.status
      BY <1>1, <3>1 DEF Calls, Points
    <3>3. call' = [call EXCEPT ![r] = d]
      BY <1>2, <2>2, <3>1 DEF Arrange, HallInv
    <3>4. Shaped(d)
      BY <1>1, <3>2 DEF Shaped
    <3>5. Informed(d)
      BY <1>3, <3>2 DEF Informed
    <3>6. QED BY <1>1, <3>2, <3>3, <3>4, <3>5
  <2>3. QED BY <2>1, <2>2
<1>5. PICK d \in Calls : /\ call' = [call EXCEPT ![r] = d]
                         /\ Shaped(d) /\ Informed(d) /\ d.op # "door"
                         /\ plan = {} \/ (d.pc = "place" /\ d.plan = plan)
  BY <1>4
<1>6. /\ call'[r] = d /\ \A q \in Requesters \ {r} : call'[q] = call[q]
  BY <1>1, <1>5, OthersStay
<1>7. CornersAreTransient'
  <2>1. SUFFICES ASSUME MovedAndDeleted' = {}, NEW s \in SeatIds, InTheCorner(s)'
                 PROVE  \E q \in Workers : Placing(call[q], s)'
    BY DEF CornersAreTransient
  <2>2. MovedAndDeleted = {} /\ InTheCorner(s)
    BY <1>1, <2>1 DEF MovedAndDeleted, InTheCorner, Exists
  <2>3. PICK q \in Workers : Placing(call[q], s)
    BY <2>2 DEF HallInv, CornersAreTransient
  <2>4. CASE q # r
    <3>1. call'[q] = call[q]
      BY <1>6, <2>4 DEF Requesters
    <3>2. QED BY <1>1, <2>3, <3>1 DEF Placing, Exists
  <2>5. CASE q = r
    <3>1. s \in plan
      BY <1>1, <1>2, <2>2, <2>3, <2>5 DEF Placing, In, InTheCorner
    <3>2. d.pc = "place" /\ d.plan = plan
      BY <1>5, <3>1
    <3>3. Placing(call[r], s)'
      BY <1>1, <1>3, <1>6, <3>1, <3>2 DEF Placing, Exists
    <3>4. QED BY <3>3
  <2>6. QED BY <2>4, <2>5
<1>8. OnlyFlags /\ SeatsGoOn
  <2>1. OnlyFlags /\ zones' \subseteq Zones /\ held' \in [SeatIds -> Holds]
    BY <1>1, UnchangedIsOnly DEF HallInv, HallTypeOK
  <2>2. QED BY <1>1, <2>1, OnlyFlagsGoOn
<1>9. /\ seats' \in [SeatIds -> SeatRows] /\ zones' \subseteq Zones
      /\ \A s \in SeatIds : Exists(s)' => seats'[s].zone \in zones'
      /\ \A s, t \in SeatIds : Exists(s)' /\ Exists(t)' /\ s # t
               => <<seats'[s].zone, seats'[s].number>> # <<seats'[t].zone, seats'[t].number>>
      /\ \A s \in SeatIds : held[s].n > 0 => Exists(s)'
  BY <1>1 DEF HallInv, HallTypeOK, BookedSeatStays, Exists
<1>10. QED BY <1>1, <1>5, <1>7, <1>8, <1>9, RowStep

LEMMA PlaceKeeps ==
    ASSUME HallInv, NEW r \in Workers, Place(r)
    PROVE  HallInv'
<1> DEFINE c == call[r]
<1>1. /\ r \in Requesters /\ c \in Calls /\ c.pc = "place" /\ c.op # "door"
      /\ UNCHANGED <<zones, held, door, lock>> /\ call' = [call EXCEPT ![r] = NoCall]
  BY DEF Requesters, Place, Finishes, HallInv, Shaped
<1>2. \A row \in SeatRows : LET new == Laid(row) IN
          /\ new \in SeatRows /\ new.at = row.at /\ new.zone = row.zone /\ new.number = row.number
          /\ new.placed = TRUE /\ new.moved = row.moved
  BY DEF Laid, SeatRows
<1>3. ASSUME NEW s \in SeatIds
      PROVE  seats'[s] = seats[s] \/ seats'[s] = Laid(seats[s])
  BY DEF Place
<1>4. \A s \in SeatIds : seats[s] \in SeatRows
  BY DEF HallInv
<1>5. seats' \in [SeatIds -> SeatRows]
  BY <1>2, <1>4 DEF Place, HallInv
<1>6. ASSUME NEW s \in SeatIds
      PROVE  /\ seats'[s].at = seats[s].at /\ seats'[s].zone = seats[s].zone
             /\ seats'[s].number = seats[s].number /\ seats'[s].moved = seats[s].moved
             /\ seats'[s].placed = seats[s].placed \/ seats'[s].placed
  BY <1>2, <1>3, <1>4
<1>7. SeatsGoOn
  BY <1>6 DEF SeatsGoOn, RowGoesOn, Exists
<1>8. ASSUME \A t \in c.plan : Exists(t), NEW s \in c.plan
      PROVE  seats'[s].placed
  <2>1. s \in SeatIds
    BY <1>1, <1>8 DEF Calls
  <2>2. seats'[s] = Laid(seats[s])
    BY <1>8, <2>1 DEF Place
  <2>3. QED BY <1>2, <1>4, <2>1, <2>2
<1>9. /\ call'[r] = NoCall /\ \A q \in Requesters \ {r} : call'[q] = call[q]
  BY <1>1, NoCallIsACall, OthersStay
<1>10. CornersAreTransient'
  <2>1. SUFFICES ASSUME MovedAndDeleted' = {}, NEW s \in SeatIds, InTheCorner(s)'
                 PROVE  \E q \in Workers : Placing(call[q], s)'
    BY DEF CornersAreTransient
  <2>2. MovedAndDeleted = {} /\ InTheCorner(s)
    BY <1>6, <2>1 DEF MovedAndDeleted, InTheCorner, Exists
  <2>3. PICK q \in Workers : Placing(call[q], s)
    BY <2>2 DEF HallInv, CornersAreTransient
  <2>4. q # r
    BY <1>1, <1>8, <2>1, <2>3 DEF Placing, InTheCorner
  <2>5. call'[q] = call[q] /\ call[q] \in Calls
    BY <1>9, <2>4 DEF Requesters, HallInv
  <2>6. call[q].plan \subseteq SeatIds
    BY <2>5 DEF Calls
  <2>7. QED BY <1>6, <2>3, <2>5, <2>6 DEF Placing, Exists
<1>11. /\ zones' \subseteq Zones
       /\ \A s \in SeatIds : Exists(s)' => seats'[s].zone \in zones'
  BY <1>1, <1>6 DEF HallInv, HallTypeOK, Exists
<1>12. \A s, t \in SeatIds : Exists(s)' /\ Exists(t)' /\ s # t
           => <<seats'[s].zone, seats'[s].number>> # <<seats'[t].zone, seats'[t].number>>
  BY <1>6 DEF HallInv, HallTypeOK, Exists
<1>13. \A s \in SeatIds : held[s].n > 0 => Exists(s)'
  BY <1>6 DEF HallInv, BookedSeatStays, Exists
<1>14. QED BY <1>1, <1>5, <1>7, <1>10, <1>11, <1>12, <1>13, NoCallIsACall, NoCallIsShaped, RowStep

LEMMA UpdateSeatKeeps ==
    ASSUME HallInv, NEW r \in Workers, UpdateSeat(r)
    PROVE  HallInv'
<1> DEFINE c == call[r]
           s == call[r].seat
<1>1. /\ r \in Requesters /\ c \in Calls /\ c.op = "update" /\ c.pc = "write"
      /\ s \in SeatIds /\ c.status \in SeatStatuses
      /\ UNCHANGED <<zones, held, door, lock>> /\ call' = [call EXCEPT ![r] = NoCall]
  BY DEF Requesters, UpdateSeat, Finishes, Reached, HallInv, Shaped
<1>2. Finishes(r)
  BY DEF UpdateSeat
<1>3. CASE UNCHANGED seats
  BY <1>1, <1>2, <1>3, EndKeeps
<1>4. CASE seats' = [seats EXCEPT ![s].status = c.status]
  <2>1. OnlyFlags
    BY <1>1, <1>4, FlagIsOnly
  <2>2. /\ held' \in [SeatIds -> Holds] /\ lock' \in Providers /\ zones' \subseteq Zones
        /\ zones \subseteq zones' /\ \A t \in SeatIds : held'[t].n = held[t].n
    BY <1>1 DEF HallInv, HallTypeOK
  <2>3. QED BY <1>1, <2>1, <2>2, NoCallIsACall, NoCallIsShaped, QuietStep
<1>5. CASE /\ Exists(s) /\ c.zone \in zones /\ ~Taken(c.zone, c.number, s)
           /\ seats' = [seats EXCEPT ![s] = [seats[s] EXCEPT
                  !.status = c.status, !.number = c.number, !.zone = c.zone,
                  !.moved = seats[s].moved \/ seats[s].zone # c.zone]]
  <2>1. PICK old \in SeatRows : old = seats[s]
    BY <1>1 DEF HallInv
  <2>2. PICK moved \in BOOLEAN : moved = (old.moved \/ old.zone # c.zone)
    OBVIOUS
  <2>3. PICK row : row = [old EXCEPT !.status = c.status, !.number = c.number, !.zone = c.zone,
                                     !.moved = moved]
    OBVIOUS
  <2>4. c.number \in Numbers \cup {0} /\ c.zone \in Zones
    BY <1>1, <1>5 DEF Calls, HallInv, HallTypeOK
  <2>5. /\ row \in SeatRows /\ row.at = old.at /\ row.zone = c.zone /\ row.number = c.number
        /\ row.moved = moved /\ row.placed = old.placed
    BY <1>1, <2>3, <2>4 DEF SeatRows
  <2>6. seats' = [seats EXCEPT ![s] = row]
    BY <1>5, <2>1, <2>2, <2>3
  <2>7. /\ seats' \in [SeatIds -> SeatRows] /\ seats'[s] = row
        /\ \A t \in SeatIds \ {s} : seats'[t] = seats[t]
    BY <1>1, <2>5, <2>6 DEF HallInv
  <2>8. old.at = "row"
    BY <1>5, <2>1 DEF Exists
  <2>9. row.moved \/ (~old.moved /\ row.zone = old.zone)
    BY <2>2, <2>5
  <2>10. SeatsGoOn
    BY <2>1, <2>5, <2>7, <2>8, <2>9 DEF SeatsGoOn, RowGoesOn, Exists
  <2>11. \A t \in SeatIds : Exists(t)' = Exists(t)
    BY <2>1, <2>5, <2>7 DEF Exists
  <2>12. \A t \in SeatIds : Exists(t)' => seats'[t].zone \in zones'
    BY <1>1, <1>5, <2>5, <2>7, <2>11 DEF HallInv, HallTypeOK
  <2>13. ASSUME NEW t \in SeatIds, t # s, Exists(t)
         PROVE  seats[t].zone # c.zone \/ seats[t].number # c.number
    BY <1>5, <2>13 DEF Taken, In
  <2>14. \A t, u \in SeatIds : Exists(t)' /\ Exists(u)' /\ t # u
             => <<seats'[t].zone, seats'[t].number>> # <<seats'[u].zone, seats'[u].number>>
    <3>1. SUFFICES ASSUME NEW t \in SeatIds, NEW u \in SeatIds, Exists(t)', Exists(u)', t # u
                   PROVE  seats'[t].zone # seats'[u].zone \/ seats'[t].number # seats'[u].number
      OBVIOUS
    <3>2. Exists(t) /\ Exists(u)
      BY <2>11, <3>1
    <3>3. CASE t # s /\ u # s
      <4>1. seats'[t] = seats[t] /\ seats'[u] = seats[u]
        BY <2>7, <3>3
      <4>2. <<seats[t].zone, seats[t].number>> # <<seats[u].zone, seats[u].number>>
        BY <3>1, <3>2 DEF HallInv, HallTypeOK
      <4>3. QED BY <4>1, <4>2
    <3>4. CASE t = s
      BY <2>5, <2>7, <2>13, <3>1, <3>2, <3>4
    <3>5. CASE u = s
      BY <2>5, <2>7, <2>13, <3>1, <3>2, <3>5
    <3>6. QED BY <3>3, <3>4, <3>5
  <2>15. \A t \in SeatIds : held[t].n > 0 => Exists(t)'
    BY <2>11 DEF HallInv, BookedSeatStays
  <2>16. \A t \in SeatIds : InTheCorner(t)' => InTheCorner(t)
    BY <2>1, <2>5, <2>7, <2>9, <2>11 DEF InTheCorner
  <2>17. CornersAreTransient'
    BY <1>1, <2>10, <2>11, <2>16, NoCallIsACall, CornersGoOn
  <2>18. zones' \subseteq Zones
    BY <1>1 DEF HallInv, HallTypeOK
  <2>19. QED
    BY <1>1, <2>7, <2>10, <2>12, <2>14, <2>15, <2>17, <2>18, NoCallIsACall, NoCallIsShaped, RowStep
<1>6. QED BY <1>3, <1>4, <1>5 DEF UpdateSeat

\* A row that goes leaves its mark, if it was moved.
LEMMA GoneIsARow ==
    ASSUME HallInv, NEW s \in SeatIds
    PROVE  Gone(s) \in SeatRows /\ Gone(s).at = "gone" /\ Gone(s).moved = seats[s].moved
<1>1. seats[s] \in SeatRows
  BY DEF HallInv
<1>2. PICK moved \in BOOLEAN : moved = seats[s].moved
  BY <1>1 DEF SeatRows
<1>3. Unused \in SeatRows
  BY DEF Unused, SeatRows, SeatStatuses
<1>4. Gone(s) = [Unused EXCEPT !.at = "gone", !.moved = moved]
  BY <1>2 DEF Gone
<1>5. QED BY <1>2, <1>3, <1>4 DEF SeatRows

LEMMA RemoveSeatKeeps ==
    ASSUME HallInv, NEW r \in Workers, RemoveSeat(r)
    PROVE  HallInv'
<1> DEFINE c == call[r]
           s == call[r].seat
<1>1. /\ r \in Requesters /\ c \in Calls /\ c.op = "delete" /\ c.pc = "delete"
      /\ s \in SeatIds /\ Informed(c) /\ UNCHANGED <<zones, held, door, lock>>
  BY DEF Requesters, RemoveSeat, Reached, HallInv, Shaped
<1>2. CASE Finishes(r) /\ UNCHANGED seats
  BY <1>1, <1>2, EndKeeps
<1>3. CASE /\ Exists(s) /\ Deletable(s) /\ seats' = [seats EXCEPT ![s] = Gone(s)]
           /\ Proceeds(r, "arrange")
  <2>1. PICK row \in SeatRows : row = Gone(s) /\ row.at = "gone" /\ row.moved = seats[s].moved
    BY <1>1, GoneIsARow
  <2>2. /\ seats' \in [SeatIds -> SeatRows] /\ seats'[s] = row
        /\ \A t \in SeatIds \ {s} : seats'[t] = seats[t]
    BY <1>1, <1>3, <2>1 DEF HallInv
  <2>3. SeatsGoOn
    BY <2>1, <2>2 DEF SeatsGoOn, RowGoesOn, Exists
  <2>4. PICK d \in Calls : d = [c EXCEPT !.pc = "arrange"]
    BY <1>1, GoingOn DEF Points
  <2>5. d.pc = "arrange" /\ d.op = "delete" /\ d.zone = c.zone /\ d.seat = s
    BY <1>1, <2>4, GoingOn DEF Points
  <2>6. call' = [call EXCEPT ![r] = d]
    BY <1>1, <1>3, <2>4 DEF Proceeds, HallInv
  <2>7. Shaped(d) /\ Informed(d)
    BY <1>1, <2>5 DEF Shaped, Informed
  <2>8. \A t \in SeatIds : Exists(t)' => t # s /\ Exists(t) /\ seats'[t] = seats[t]
    BY <2>1, <2>2 DEF Exists
  <2>9. \A t \in SeatIds : Exists(t)' => seats'[t].zone \in zones'
    BY <1>1, <2>8 DEF HallInv, HallTypeOK
  <2>10. \A t, u \in SeatIds : Exists(t)' /\ Exists(u)' /\ t # u
             => <<seats'[t].zone, seats'[t].number>> # <<seats'[u].zone, seats'[u].number>>
    BY <2>8 DEF HallInv, HallTypeOK
  <2>11. ASSUME NEW t \in SeatIds, held[t].n > 0
         PROVE  Exists(t)'
    <3>1. Exists(t)
      BY <2>11 DEF HallInv, BookedSeatStays
    <3>2. t # s
      BY <1>3, <2>11 DEF Deletable, Fresh
    <3>3. QED BY <2>2, <3>1, <3>2 DEF Exists
  <2>12. /\ call'[r] = d /\ \A q \in Requesters \ {r} : call'[q] = call[q]
    BY <1>1, <2>6, OthersStay
  <2>13. CornersAreTransient'
    <3>1. SUFFICES ASSUME MovedAndDeleted' = {}, NEW t \in SeatIds, InTheCorner(t)'
                   PROVE  \E q \in Workers : Placing(call[q], t)'
      BY DEF CornersAreTransient
    <3>2. ~seats[s].moved
      BY <1>1, <2>1, <2>2, <3>1 DEF MovedAndDeleted
    <3>3. seats[s].zone = c.zone
      BY <1>1, <1>3, <3>2 DEF Informed
    <3>4. MovedAndDeleted = {}
      BY <2>3, <3>1 DEF MovedAndDeleted, SeatsGoOn, RowGoesOn
    <3>5. t # s /\ seats'[t] = seats[t] /\ InTheCorner(t)
      BY <2>8, <3>1 DEF InTheCorner
    <3>6. PICK q \in Workers : Placing(call[q], t)
      BY <3>4, <3>5 DEF HallInv, CornersAreTransient
    <3>7. q # r /\ q \in Requesters
      BY <1>1, <3>6 DEF Placing, Requesters
    <3>8. call'[q] = call[q] /\ call[q] \in Calls /\ Informed(call[q])
      BY <2>12, <3>7 DEF HallInv
    <3>9. CASE call[q].pc = "arrange" /\ call[q].zone = seats[t].zone
      BY <3>5, <3>8, <3>9 DEF Placing
    <3>10. CASE /\ call[q].pc = "place" /\ t \in call[q].plan
                /\ \A u \in call[q].plan : Exists(u)
      <4>1. CASE s \in call[q].plan
        <5>1. seats[s].zone = call[q].zone
          BY <1>3, <3>2, <3>8, <3>10, <4>1 DEF Informed
        <5>2. seats[t].zone = call[q].zone
          BY <3>5, <3>8, <3>10 DEF Informed, InTheCorner
        <5>3. Placing(call[r], t)'
          BY <2>5, <2>12, <3>3, <3>5, <5>1, <5>2 DEF Placing
        <5>4. QED BY <5>3
      <4>2. CASE s \notin call[q].plan
        <5>1. call[q].plan \subseteq SeatIds
          BY <3>8 DEF Calls
        <5>2. \A u \in call[q].plan : Exists(u)'
          BY <2>2, <3>10, <4>2, <5>1 DEF Exists
        <5>3. Placing(call[q], t)'
          BY <3>8, <3>10, <5>2 DEF Placing
        <5>4. QED BY <5>3
      <4>3. QED BY <4>1, <4>2
    <3>11. QED BY <3>6, <3>9, <3>10 DEF Placing
  <2>14. zones' \subseteq Zones
    BY <1>1 DEF HallInv, HallTypeOK
  <2>15. QED BY <1>1, <2>2, <2>3, <2>5, <2>6, <2>7, <2>9, <2>10, <2>11, <2>13, <2>14, RowStep
<1>4. QED BY <1>2, <1>3 DEF RemoveSeat

LEMMA RemoveZoneKeeps ==
    ASSUME HallInv, NEW r \in Workers, RemoveZone(r)
    PROVE  HallInv'
<1> DEFINE z == call[r].zone
<1>1. /\ r \in Requesters /\ call[r].op = "deleteZone" /\ call[r].pc = "delete" /\ Finishes(r)
      /\ UNCHANGED <<held, door, lock>> /\ call' = [call EXCEPT ![r] = NoCall]
  BY DEF Requesters, RemoveZone, Reached, Finishes
<1>2. CASE UNCHANGED <<zones, seats>>
  BY <1>1, <1>2, EndKeeps
<1>3. CASE /\ \A s \in In(z) : Deletable(s)
           /\ zones' = zones \ {z}
           /\ seats' = [s \in SeatIds |-> IF s \in In(z) THEN Gone(s) ELSE seats[s]]
  <2>1. \A s \in SeatIds \ In(z) : seats'[s] = seats[s]
    BY <1>3
  <2>2. \A s \in In(z) : /\ s \in SeatIds /\ Exists(s) /\ seats[s].zone = z
                         /\ seats'[s].at = "gone" /\ seats'[s].moved = seats[s].moved
    BY <1>3, GoneIsARow DEF In
  <2>3. seats' \in [SeatIds -> SeatRows]
    BY <1>3, GoneIsARow DEF HallInv
  <2>4. SeatsGoOn
    BY <2>1, <2>2 DEF SeatsGoOn, RowGoesOn, Exists
  <2>5. \A s \in SeatIds : Exists(s)' => s \notin In(z) /\ Exists(s) /\ seats'[s] = seats[s]
    BY <2>1, <2>2 DEF Exists
  <2>6. \A s \in SeatIds : Exists(s)' => seats[s].zone # z
    BY <2>5 DEF In
  <2>7. \A s \in SeatIds : Exists(s)' => seats'[s].zone \in zones'
    BY <1>3, <2>5, <2>6 DEF HallInv, HallTypeOK
  <2>8. \A t, u \in SeatIds : Exists(t)' /\ Exists(u)' /\ t # u
            => <<seats'[t].zone, seats'[t].number>> # <<seats'[u].zone, seats'[u].number>>
    BY <2>5 DEF HallInv, HallTypeOK
  <2>9. ASSUME NEW s \in SeatIds, held[s].n > 0
        PROVE  Exists(s)'
    <3>1. Exists(s)
      BY <2>9 DEF HallInv, BookedSeatStays
    <3>2. s \notin In(z)
      BY <1>3, <2>9 DEF Deletable, Fresh
    <3>3. QED BY <2>1, <3>1, <3>2 DEF Exists
  <2>10. /\ call'[r] = NoCall /\ \A q \in Requesters \ {r} : call'[q] = call[q]
    BY <1>1, NoCallIsACall, OthersStay
  <2>11. CornersAreTransient'
    <3>1. SUFFICES ASSUME MovedAndDeleted' = {}, NEW s \in SeatIds, InTheCorner(s)'
                   PROVE  \E q \in Workers : Placing(call[q], s)'
      BY DEF CornersAreTransient
    <3>2. \A t \in In(z) : ~seats[t].moved
      BY <2>2, <3>1 DEF MovedAndDeleted
    <3>3. MovedAndDeleted = {}
      BY <2>4, <3>1 DEF MovedAndDeleted, SeatsGoOn, RowGoesOn
    <3>4. seats'[s] = seats[s] /\ InTheCorner(s) /\ seats[s].zone # z
      BY <2>5, <2>6, <3>1 DEF InTheCorner
    <3>5. PICK q \in Workers : Placing(call[q], s)
      BY <3>3, <3>4 DEF HallInv, CornersAreTransient
    <3>6. q # r /\ q \in Requesters
      BY <1>1, <3>5 DEF Placing, Requesters
    <3>7. call'[q] = call[q] /\ call[q] \in Calls /\ Informed(call[q])
      BY <2>10, <3>6 DEF HallInv
    <3>8. CASE call[q].pc = "arrange" /\ call[q].zone = seats[s].zone
      BY <3>4, <3>7, <3>8 DEF Placing
    <3>9. CASE /\ call[q].pc = "place" /\ s \in call[q].plan
               /\ \A t \in call[q].plan : Exists(t)
      <4>1. call[q].zone = seats[s].zone
        BY <3>4, <3>7, <3>9 DEF Informed, InTheCorner
      <4>2. \A t \in call[q].plan : t \in SeatIds /\ t \notin In(z)
        BY <2>2, <3>2, <3>4, <3>7, <3>9, <4>1 DEF Informed, Calls
      <4>3. \A t \in call[q].plan : Exists(t)'
        BY <2>1, <3>9, <4>2 DEF Exists
      <4>4. Placing(call[q], s)'
        BY <3>7, <3>9, <4>3 DEF Placing
      <4>5. QED BY <4>4
    <3>10. QED BY <3>5, <3>8, <3>9 DEF Placing
  <2>12. zones' \subseteq Zones
    BY <1>3 DEF HallInv, HallTypeOK
  <2>13. QED BY <1>1, <2>3, <2>4, <2>7, <2>8, <2>9, <2>11, <2>12, NoCallIsACall, NoCallIsShaped,
            RowStep
<1>4. QED BY <1>2, <1>3 DEF RemoveZone

-----------------------------------------------------------------------------
(* The door.                                                               *)

\* Nothing changes at the doors of other seats.
LEMMA OtherDoors ==
    ASSUME HallInv, NEW s \in SeatIds, NEW r \in Requesters, NEW d \in Calls,
           call' = [call EXCEPT ![r] = d],
           call[r].op = "door" => call[r].seat = s, d.op = "door" => d.seat = s,
           NEW t \in SeatIds, t # s, door'[t] = door[t], held'[t].n = held[t].n
    PROVE  (door[t].met \/ PulseIsLogged(t))'
<1>1. /\ call'[r] = d /\ \A q \in Requesters \ {r} : call'[q] = call[q]
  BY OthersStay
<1>2. \A q \in Workers : AtDoor(call[q], t)' <=> AtDoor(call[q], t)
  BY <1>1 DEF AtDoor, Requesters
<1>3. \A q \in Workers : AtDoor(call[q], t) => call'[q] = call[q]
  BY <1>1 DEF AtDoor, Requesters
<1>4. DoorCalls(t)' = DoorCalls(t)
  BY <1>2 DEF DoorCalls
<1>5. \A q \in DoorCalls(t) : call'[q] = call[q]
  BY <1>3 DEF DoorCalls
<1>6. door[t].met \/ PulseIsLogged(t)
  BY DEF HallInv
<1>7. QED BY <1>4, <1>5, <1>6 DEF PulseIsLogged

\* A step of a request about the door of s, or of a booking of s.
LEMMA DoorStep ==
    ASSUME HallInv, UNCHANGED <<zones, lock>>, OnlyFlags,
           NEW s \in SeatIds, NEW r \in Workers, NEW d \in Calls, call' = [call EXCEPT ![r] = d],
           call[r].op = "door" => call[r].seat = s, d.op = "door" => d.seat = s,
           call[r].pc \notin {"arrange", "place"}, Shaped(d), Informed(d),
           held' \in [SeatIds -> Holds], CountsGoOn,
           \A t \in SeatIds : held'[t].n > 0 => Exists(t),
           \A t \in SeatIds \ {s} : door'[t] = door[t] /\ held'[t].n = held[t].n,
           door' \in [SeatIds -> Doors], (door[s].met \/ PulseIsLogged(s))'
    PROVE  HallInv'
<1>1. r \in Requesters
  BY DEF Requesters
<1>2. ASSUME NEW t \in SeatIds
      PROVE  (door[t].met \/ PulseIsLogged(t))'
  <2>1. CASE t = s
    BY <2>1
  <2>2. CASE t # s
    BY <1>1, <2>2, OtherDoors
  <2>3. QED BY <2>1, <2>2
<1>3. DoorsAccounted'
  BY <1>2 DEF DoorsAccounted
<1>4. zones \subseteq zones' /\ zones' \subseteq Zones /\ lock' \in Providers
  BY DEF HallInv, HallTypeOK
<1>5. QED BY <1>1, <1>3, <1>4, FlagStep

\* Whose request at the door of s goes on as d.
DoorCallsStep(r, d, s) ==
    /\ \A q \in Workers \ {r} : (q \in DoorCalls(s)' <=> q \in DoorCalls(s)) /\ call'[q] = call[q]
    /\ r \in DoorCalls(s)' <=> (d.op = "door" /\ d.seat = s /\ d.n = held[s].n)
    /\ r \in DoorCalls(s) <=> (call[r].op = "door" /\ call[r].seat = s /\ call[r].n = held[s].n)
    /\ DoorCalls(s)' \subseteq Workers /\ DoorCalls(s) \subseteq Workers
    /\ call'[r] = d

LEMMA DoorCallsGoOn ==
    ASSUME HallInv, NEW r \in Workers, NEW d \in Calls, call' = [call EXCEPT ![r] = d],
           NEW s \in SeatIds, held'[s].n = held[s].n
    PROVE  DoorCallsStep(r, d, s)
<1>1. /\ call'[r] = d /\ \A q \in Requesters \ {r} : call'[q] = call[q]
  BY OthersStay DEF Requesters
<1>2. QED BY <1>1 DEF DoorCallsStep, DoorCalls, AtDoor, Requesters

LEMMA OpenDoorKeeps == ASSUME HallInv, OpenDoor PROVE HallInv'
<1>1. SUFFICES ASSUME NEW s \in SeatIds,
                      Come("door", [NoCall EXCEPT !.pc = "read", !.seat = s, !.n = held[s].n]),
                      door' = [door EXCEPT ![s].met = @ \/ \E r \in Workers :
                                   call[r].op = "door" /\ call[r].seat = s]
               PROVE  HallInv'
  BY DEF OpenDoor, ListedBookings
<1>2. "door" \in Kinds /\ held[s].n \in 0..MaxBookings
  BY <1>1 DEF Come, HallInv, HallTypeOK
<1>3. PICK f, d : /\ f = [NoCall EXCEPT !.pc = "read", !.seat = s, !.n = held[s].n]
                  /\ d = [f EXCEPT !.op = "door"] /\ Come("door", f)
  BY <1>1
<1>4. d \in Calls /\ d.op = "door" /\ d.pc = "read" /\ d.seat = s /\ d.n = held[s].n
  BY <1>2, <1>3, NoCallIsACall DEF Calls, Points
<1>5. PICK r \in Workers : /\ call[r] = NoCall /\ r \in Requesters
                           /\ call' = [call EXCEPT ![r] = d]
  <2>1. [f EXCEPT !.op = "door"] \in Calls /\ Come("door", f)
    BY <1>3, <1>4
  <2>2. PICK r \in Workers : /\ call[r] = NoCall /\ r \in Requesters
                             /\ call' = [call EXCEPT ![r] = [f EXCEPT !.op = "door"]]
    BY <2>1, Coming
  <2>3. QED BY <1>3, <2>2
<1>6. UNCHANGED <<zones, seats, held, lock>>
  BY <1>1 DEF Come
<1>7. Shaped(d) /\ Informed(d)
  BY <1>2, <1>4 DEF Shaped, Informed
<1>8. PICK meets \in BOOLEAN : meets = (door[s].met \/ \E q \in Workers :
                                        call[q].op = "door" /\ call[q].seat = s)
  OBVIOUS
<1>9. door' = [door EXCEPT ![s].met = meets]
  BY <1>1, <1>8
<1>10. /\ door' \in [SeatIds -> Doors] /\ door'[s].met = meets
       /\ door'[s].recent = door[s].recent
       /\ door'[s].pulses = door[s].pulses /\ door'[s].lost = door[s].lost
       /\ \A t \in SeatIds \ {s} : door'[t] = door[t]
  BY <1>1, <1>9 DEF HallInv, Doors
<1>11. ASSUME ~meets
       PROVE  PulseIsLogged(s)'
  <2>1. \A q \in Workers : ~(call[q].op = "door" /\ call[q].seat = s)
    BY <1>8, <1>11
  <2>2. DoorCalls(s) = {}
    BY <2>1 DEF DoorCalls, AtDoor
  <2>3. PulseIsLogged(s)
    BY <1>1, <1>8, <1>11 DEF HallInv
  <2>4. DoorCallsStep(r, d, s)
    BY <1>1, <1>4, <1>5, <1>6, DoorCallsGoOn
  <2>5. DoorCalls(s)' \subseteq {r}
    BY <2>2, <2>4 DEF DoorCallsStep
  <2>6. QED BY <1>4, <1>10, <2>2, <2>3, <2>4, <2>5 DEF PulseIsLogged, DoorCallsStep
<1>12. OnlyFlags /\ CountsGoOn /\ \A t \in SeatIds : held'[t].n > 0 => Exists(t)
  BY <1>1, <1>6, UnchangedIsOnly, SameCountsGoOn DEF HallInv, BookedSeatStays
<1>13. held' \in [SeatIds -> Holds] /\ \A t \in SeatIds : held'[t].n = held[t].n
  BY <1>1, <1>6 DEF HallInv
<1>14. call[r].pc \notin {"arrange", "place"} /\ call[r].op # "door"
  BY <1>5, NoCallIsACall
<1>15. (door[s].met \/ PulseIsLogged(s))'
  BY <1>10, <1>11
<1>16. QED BY <1>1, <1>4, <1>5, <1>6, <1>7, <1>10, <1>12, <1>13, <1>14, <1>15, DoorStep

\* What a handler that is about the door knows, and what a step of it owes.
LEMMA AboutDoor ==
    ASSUME HallInv, NEW r \in Workers, call[r].op = "door",
           call[r].pc \in {"read", "open", "begin", "log"},
           UNCHANGED <<zones, lock>>, OnlyFlags,
           held' \in [SeatIds -> Holds], \A t \in SeatIds : held'[t].n = held[t].n,
           NEW s, s = call[r].seat,
           door' \in [SeatIds -> Doors], \A t \in SeatIds \ {s} : door'[t] = door[t],
           NEW d \in Calls, call' = [call EXCEPT ![r] = d],
           \/ d = NoCall
           \/ /\ d.op = "door" /\ d.seat = s /\ d.n = call[r].n
              /\ d.pc \in {"read", "open", "begin", "log"},
           (door[s].met \/ PulseIsLogged(s))'
    PROVE  HallInv'
<1>1. PICK c \in Calls : c = call[r]
  BY DEF HallInv, Requesters
<1>2. Shaped(c)
  BY <1>1 DEF HallInv, Requesters
<1>3. Shaped(d) /\ Informed(d)
  BY <1>1, <1>2, NoCallIsShaped DEF Shaped, Informed
<1>4. s \in SeatIds
  BY <1>1, <1>2 DEF Shaped
<1>5. CountsGoOn /\ \A t \in SeatIds : held'[t].n > 0 => Exists(t)
  BY SameCountsGoOn DEF HallInv, BookedSeatStays
<1>6. d.op = "door" => d.seat = s
  BY NoCallIsACall
<1>7. QED BY <1>3, <1>4, <1>5, <1>6, DoorStep

\* Nothing is pulsed or logged, and whoever has pulsed for the present booking goes on.
LEMMA PulseStays ==
    ASSUME NEW r \in Workers, NEW d, NEW s, DoorCallsStep(r, d, s), PulseIsLogged(s),
           door'[s] = door[s], r \in DoorCalls(s)' => r \in DoorCalls(s),
           r \in DoorCalls(s)' /\ door[s].recent => d.pc # "open",
           r \in DoorCalls(s) /\ call[r].pc \in {"begin", "log"}
               => r \in DoorCalls(s)' /\ d.pc \in {"begin", "log"}
    PROVE  PulseIsLogged(s)'
<1>1. DoorCalls(s)' \subseteq DoorCalls(s)
  BY DEF DoorCallsStep
<1>2. \A q, u \in DoorCalls(s)' : q = u
  BY <1>1 DEF PulseIsLogged
<1>3. ASSUME door[s].recent, NEW q \in DoorCalls(s)'
      PROVE  call'[q].pc # "open"
  BY <1>1, <1>3 DEF PulseIsLogged, DoorCallsStep
<1>4. ASSUME door[s].pulses > door[s].lost, ~door[s].recent
      PROVE  \E q \in DoorCalls(s)' : call'[q].pc \in {"begin", "log"}
  <2>1. PICK q \in DoorCalls(s) : call[q].pc \in {"begin", "log"}
    BY <1>4 DEF PulseIsLogged
  <2>2. CASE q = r
    BY <2>1, <2>2 DEF DoorCallsStep
  <2>3. CASE q # r
    BY <2>1, <2>3 DEF DoorCallsStep
  <2>4. QED BY <2>2, <2>3
<1>5. QED BY <1>2, <1>3, <1>4 DEF PulseIsLogged

LEMMA ReadSessionKeeps ==
    ASSUME HallInv, NEW r \in Workers, ReadSession(r)
    PROVE  HallInv'
<1>1. PICK c \in Calls : c = call[r] /\ Shaped(c)
  BY DEF HallInv, Requesters
<1>2. PICK s \in SeatIds : /\ s = c.seat /\ r \in Requesters /\ c.op = "door" /\ c.pc = "read"
                           /\ UNCHANGED <<zones, seats, held, door, lock>>
  BY <1>1 DEF Requesters, ReadSession, Reached, tables, Shaped
<1>3. \E d \in Calls :
          /\ call' = [call EXCEPT ![r] = d]
          /\ \/ d = NoCall
             \/ /\ d.op = "door" /\ d.seat = s /\ d.n = c.n /\ d.pc = "open"
                /\ ~door[s].recent /\ held[s].n = c.n
  <2>1. CASE call' = [call EXCEPT ![r] = NoCall]
    BY <2>1, NoCallIsACall
  <2>2. CASE /\ call' = [call EXCEPT ![r] = [call[r] EXCEPT !.pc = "open", !.seen = lock]]
             /\ ~door[s].recent /\ held[s].n = c.n
    <3>1. PICK d : d = [c EXCEPT !.pc = "open", !.seen = lock]
      OBVIOUS
    <3>2. lock \in Providers
      BY DEF HallInv
    <3>3. d \in Calls /\ d.op = "door" /\ d.seat = s /\ d.n = c.n /\ d.pc = "open"
      BY <1>1, <1>2, <3>1, <3>2 DEF Calls, Points
    <3>4. QED BY <1>1, <2>2, <3>1, <3>3
  <2>3. s = call[r].seat /\ c = call[r]
    BY <1>1, <1>2
  <2>4. CASE /\ held[s].n = c.n /\ held[s].now \in {"soon", "active"} /\ ~door[s].recent
    BY <2>2, <2>3, <2>4 DEF ReadSession
  <2>5. CASE ~(/\ held[s].n = c.n /\ held[s].now \in {"soon", "active"} /\ ~door[s].recent)
    BY <2>1, <2>3, <2>5 DEF ReadSession
  <2>6. QED BY <2>4, <2>5
<1>4. PICK d \in Calls :
          /\ call' = [call EXCEPT ![r] = d]
          /\ \/ d = NoCall
             \/ /\ d.op = "door" /\ d.seat = s /\ d.n = c.n /\ d.pc = "open"
                /\ ~door[s].recent /\ held[s].n = c.n
  BY <1>3
<1>5. ASSUME ~door[s].met
      PROVE  PulseIsLogged(s)'
  <2>1. PulseIsLogged(s)
    BY <1>2, <1>5 DEF HallInv
  <2>2. DoorCallsStep(r, d, s)
    BY <1>2, <1>4, DoorCallsGoOn
  <2>3. r \in DoorCalls(s)' => r \in DoorCalls(s)
    BY <1>1, <1>2, <1>4, <2>2, NoCallIsACall DEF DoorCallsStep
  <2>4. r \in DoorCalls(s)' /\ door[s].recent => d.pc # "open"
    BY <1>4, NoCallIsACall
  <2>5. call[r].pc \notin {"begin", "log"} /\ door'[s] = door[s]
    BY <1>1, <1>2
  <2>6. QED BY <2>1, <2>2, <2>3, <2>4, <2>5, PulseStays
<1>6. (door[s].met \/ PulseIsLogged(s))'
  BY <1>2, <1>5
<1>7. OnlyFlags /\ held' \in [SeatIds -> Holds] /\ door' \in [SeatIds -> Doors]
  BY <1>2, UnchangedIsOnly DEF HallInv
<1>8. QED BY <1>1, <1>2, <1>4, <1>6, <1>7, AboutDoor

LEMMA ProceedsAs ==
    ASSUME HallInv, NEW r \in Workers, NEW pc \in Points, Proceeds(r, pc)
    PROVE  \E d \in Calls : /\ call' = [call EXCEPT ![r] = d] /\ d.pc = pc
                            /\ d.op = call[r].op /\ d.seat = call[r].seat /\ d.n = call[r].n
<1>1. PICK c \in Calls : c = call[r]
  BY DEF HallInv, Requesters
<1>2. PICK d \in Calls : d = [c EXCEPT !.pc = pc]
  BY GoingOn
<1>3. d.pc = pc /\ d.op = c.op /\ d.seat = c.seat /\ d.n = c.n
  BY <1>2, GoingOn
<1>4. call' = [call EXCEPT ![r] = d]
  BY <1>1, <1>2 DEF Proceeds, HallInv
<1>5. QED BY <1>1, <1>3, <1>4

LEMMA PulseKeeps ==
    ASSUME HallInv, NEW r \in Workers, Pulse(r)
    PROVE  HallInv'
<1>1. PICK c \in Calls : c = call[r] /\ Shaped(c)
  BY DEF HallInv, Requesters
<1>2. PICK s \in SeatIds : /\ s = c.seat /\ r \in Requesters /\ c.op = "door" /\ c.pc = "open"
                           /\ UNCHANGED <<zones, seats, held, lock>>
  BY <1>1 DEF Requesters, Pulse, Reached, Shaped
<1>3. OnlyFlags /\ held' \in [SeatIds -> Holds]
  BY <1>2, UnchangedIsOnly DEF HallInv
<1>4. s = call[r].seat /\ c = call[r] /\ held'[s].n = held[s].n
  BY <1>1, <1>2
<1>5. \A t \in SeatIds : held'[t].n = held[t].n
  BY <1>2
<1>6. CASE Finishes(r) /\ UNCHANGED door
  <2>1. call' = [call EXCEPT ![r] = NoCall]
    BY <1>6 DEF Finishes
  <2>2. ASSUME ~door[s].met
        PROVE  PulseIsLogged(s)'
    <3>1. PulseIsLogged(s)
      BY <2>2 DEF HallInv
    <3>2. DoorCallsStep(r, NoCall, s)
      BY <1>4, <2>1, NoCallIsACall, DoorCallsGoOn
    <3>3. r \notin DoorCalls(s)' /\ call[r].pc \notin {"begin", "log"}
      BY <1>1, <1>2, <3>2, NoCallIsACall DEF DoorCallsStep
    <3>4. QED BY <1>6, <3>1, <3>2, <3>3, PulseStays
  <2>3. (door[s].met \/ PulseIsLogged(s))'
    BY <1>6, <2>2
  <2>4. door' \in [SeatIds -> Doors]
    BY <1>6 DEF HallInv
  <2>5. QED BY <1>1, <1>2, <1>3, <1>4, <1>5, <1>6, <2>1, <2>3, <2>4, NoCallIsACall, AboutDoor
<1>7. ASSUME NEW lost \in {0, 1}, Opens(r, lost), NEW d \in Calls,
             call' = [call EXCEPT ![r] = d],
             \/ lost = 0 /\ d.pc = "begin" /\ d.op = "door" /\ d.seat = s /\ d.n = c.n
             \/ lost = 1 /\ d = NoCall
      PROVE  HallInv'
  <2>1. DoorCallsStep(r, d, s)
    BY <1>4, <1>7, DoorCallsGoOn
  <2>2. d.op = "door" => lost = 0 /\ d.pc = "begin"
    BY <1>7, NoCallIsACall
  <2>3. CASE held[s].n # c.n
    <3>1. UNCHANGED door
      BY <1>4, <1>7, <2>3 DEF Opens
    <3>2. r \notin DoorCalls(s)' /\ r \notin DoorCalls(s)
      BY <1>4, <1>7, <2>1, <2>3, NoCallIsACall DEF DoorCallsStep
    <3>3. ASSUME ~door[s].met
          PROVE  PulseIsLogged(s)'
      <4>1. PulseIsLogged(s)
        BY <3>3 DEF HallInv
      <4>2. QED BY <2>1, <3>1, <3>2, <4>1, PulseStays
    <3>4. (door[s].met \/ PulseIsLogged(s))' /\ door' \in [SeatIds -> Doors]
      BY <3>1, <3>3 DEF HallInv
    <3>5. QED BY <1>1, <1>2, <1>3, <1>4, <1>5, <1>7, <3>1, <3>4, AboutDoor
  <2>4. CASE held[s].n = c.n
    <3>1. PICK pulses \in Nat, left \in Nat :
              pulses = door[s].pulses + 1 /\ left = door[s].lost + lost
      BY DEF HallInv, Doors
    <3>2. door' = [door EXCEPT ![s].pulses = pulses, ![s].lost = left]
      BY <1>4, <1>7, <2>4, <3>1 DEF Opens
    <3>3. /\ door' \in [SeatIds -> Doors] /\ door'[s].pulses = pulses /\ door'[s].lost = left
          /\ door'[s].met = door[s].met /\ door'[s].recent = door[s].recent
          /\ \A t \in SeatIds \ {s} : door'[t] = door[t]
      BY <3>2 DEF HallInv, Doors
    <3>4. r \in DoorCalls(s) /\ (r \in DoorCalls(s)' <=> lost = 0)
      BY <1>1, <1>2, <1>7, <2>1, <2>2, <2>4, NoCallIsACall DEF DoorCallsStep
    <3>5. ASSUME ~door[s].met
          PROVE  PulseIsLogged(s)'
      <4>1. PulseIsLogged(s)
        BY <3>5 DEF HallInv
      <4>2. \A q \in DoorCalls(s) : q = r
        BY <3>4, <4>1 DEF PulseIsLogged
      <4>3. ~door[s].recent
        BY <1>1, <1>2, <3>4, <4>1 DEF PulseIsLogged
      <4>4. /\ door[s].pulses \in Nat /\ door[s].lost \in Nat
            /\ ~(door[s].pulses > door[s].lost)
        BY <1>1, <1>2, <4>1, <4>2, <4>3 DEF PulseIsLogged, HallInv, Doors
      <4>5. pulses <= 1 + left /\ (lost = 1 => ~(pulses > left))
        BY <3>1, <4>4
      <4>6. \A q \in DoorCalls(s)' : q = r /\ call'[q] = d /\ lost = 0
        BY <2>1, <3>4, <4>2 DEF DoorCallsStep
      <4>7. QED BY <1>7, <3>3, <3>4, <4>3, <4>5, <4>6 DEF PulseIsLogged
    <3>6. (door[s].met \/ PulseIsLogged(s))'
      BY <3>3, <3>5
    <3>7. QED BY <1>1, <1>2, <1>3, <1>4, <1>5, <1>7, <2>2, <3>3, <3>6, AboutDoor
  <2>5. QED BY <2>3, <2>4
<1>8. CASE Proceeds(r, "begin") /\ Opens(r, 0)
  <2>1. PICK d \in Calls : /\ call' = [call EXCEPT ![r] = d] /\ d.pc = "begin"
                           /\ d.op = "door" /\ d.seat = s /\ d.n = c.n
    BY <1>1, <1>2, <1>8, ProceedsAs DEF Points
  <2>2. QED BY <1>7, <1>8, <2>1
<1>9. CASE Finishes(r) /\ Opens(r, 1)
  BY <1>7, <1>9, NoCallIsACall DEF Finishes
<1>10. QED BY <1>6, <1>8, <1>9 DEF Pulse

LEMMA BeginAtDoorKeeps ==
    ASSUME HallInv, NEW r \in Workers, BeginAtDoor(r)
    PROVE  HallInv'
<1>1. PICK c \in Calls : c = call[r] /\ Shaped(c)
  BY DEF HallInv, Requesters
<1>2. PICK s \in SeatIds : /\ s = c.seat /\ r \in Requesters /\ c.op = "door" /\ c.pc = "begin"
                           /\ UNCHANGED <<zones, door, lock>> /\ Proceeds(r, "log")
  BY <1>1 DEF Requesters, BeginAtDoor, Reached, Shaped
<1>3. s = call[r].seat /\ c = call[r]
  BY <1>1, <1>2
<1>4. OnlyFlags
  BY FlagIsOnly, UnchangedIsOnly DEF BeginAtDoor, SeatStatuses
<1>5. UNCHANGED held \/ held' = [held EXCEPT ![s].now = "active"]
  BY <1>3 DEF BeginAtDoor
<1>6. held' \in [SeatIds -> Holds] /\ \A t \in SeatIds : held'[t].n = held[t].n
  BY <1>5 DEF HallInv, Holds, Current
<1>7. PICK d \in Calls : /\ call' = [call EXCEPT ![r] = d] /\ d.pc = "log"
                         /\ d.op = "door" /\ d.seat = s /\ d.n = c.n
  BY <1>1, <1>2, ProceedsAs DEF Points
<1>8. DoorCallsStep(r, d, s)
  BY <1>6, <1>7, DoorCallsGoOn
<1>9. r \in DoorCalls(s)' <=> r \in DoorCalls(s)
  BY <1>1, <1>2, <1>7, <1>8 DEF DoorCallsStep
<1>10. ASSUME ~door[s].met
       PROVE  PulseIsLogged(s)'
  <2>1. PulseIsLogged(s)
    BY <1>10 DEF HallInv
  <2>2. d.pc # "open" /\ d.pc \in {"begin", "log"} /\ door'[s] = door[s]
    BY <1>2, <1>7
  <2>3. QED BY <1>8, <1>9, <2>1, <2>2, PulseStays
<1>11. (door[s].met \/ PulseIsLogged(s))' /\ door' \in [SeatIds -> Doors]
  BY <1>2, <1>10 DEF HallInv
<1>12. QED BY <1>1, <1>2, <1>3, <1>4, <1>6, <1>7, <1>11, AboutDoor

LEMMA LogOpenedKeeps ==
    ASSUME HallInv, NEW r \in Workers, LogOpened(r)
    PROVE  HallInv'
<1>1. PICK c \in Calls : c = call[r] /\ Shaped(c)
  BY DEF HallInv, Requesters
<1>2. PICK s \in SeatIds : /\ s = c.seat /\ r \in Requesters /\ c.op = "door" /\ c.pc = "log"
                           /\ UNCHANGED <<zones, seats, held, lock>>
                           /\ call' = [call EXCEPT ![r] = NoCall]
  BY <1>1 DEF Requesters, LogOpened, Reached, Shaped, Finishes
<1>3. OnlyFlags /\ held' \in [SeatIds -> Holds] /\ \A t \in SeatIds : held'[t].n = held[t].n
  BY <1>2, UnchangedIsOnly DEF HallInv
<1>4. s = call[r].seat /\ c = call[r]
  BY <1>1, <1>2
<1>5. DoorCallsStep(r, NoCall, s)
  BY <1>2, <1>3, NoCallIsACall, DoorCallsGoOn
<1>6. r \notin DoorCalls(s)'
  BY <1>5, NoCallIsACall DEF DoorCallsStep
<1>7. CASE held[s].n # c.n
  <2>1. UNCHANGED door
    BY <1>4, <1>7 DEF LogOpened
  <2>2. r \notin DoorCalls(s)
    BY <1>4, <1>5, <1>7 DEF DoorCallsStep
  <2>3. ASSUME ~door[s].met
        PROVE  PulseIsLogged(s)'
    <3>1. PulseIsLogged(s)
      BY <2>3 DEF HallInv
    <3>2. QED BY <1>5, <1>6, <2>1, <2>2, <3>1, PulseStays
  <2>4. (door[s].met \/ PulseIsLogged(s))' /\ door' \in [SeatIds -> Doors]
    BY <2>1, <2>3 DEF HallInv
  <2>5. QED BY <1>1, <1>2, <1>3, <1>4, <2>1, <2>4, NoCallIsACall, AboutDoor
<1>8. CASE held[s].n = c.n
  <2>1. door' = [door EXCEPT ![s].recent = TRUE]
    BY <1>4, <1>8 DEF LogOpened
  <2>2. /\ door' \in [SeatIds -> Doors] /\ door'[s].recent = TRUE
        /\ door'[s].met = door[s].met
        /\ door'[s].pulses = door[s].pulses /\ door'[s].lost = door[s].lost
        /\ \A t \in SeatIds \ {s} : door'[t] = door[t]
    BY <2>1 DEF HallInv, Doors
  <2>3. ASSUME ~door[s].met
        PROVE  PulseIsLogged(s)'
    <3>1. PulseIsLogged(s)
      BY <2>3 DEF HallInv
    <3>2. r \in DoorCalls(s)
      BY <1>1, <1>2, <1>5, <1>8 DEF DoorCallsStep
    <3>3. DoorCalls(s)' = {}
      BY <1>5, <1>6, <3>1, <3>2 DEF PulseIsLogged, DoorCallsStep
    <3>4. QED BY <2>2, <3>1, <3>3 DEF PulseIsLogged
  <2>4. (door[s].met \/ PulseIsLogged(s))'
    BY <2>2, <2>3
  <2>5. QED BY <1>1, <1>2, <1>3, <1>4, <2>2, <2>4, NoCallIsACall, AboutDoor
<1>9. QED BY <1>7, <1>8

LEMMA ShutIsADoor ==
    Shut \in Doors /\ ~Shut.recent /\ Shut.pulses = 0 /\ Shut.lost = 0 /\ ~Shut.met
BY DEF Shut, Doors

\* A new booking: the requests on their way are about an earlier one.
LEMMA InsertBookingKeeps ==
    ASSUME HallInv, NEW r \in Workers, InsertBooking(r)
    PROVE  HallInv'
<1>1. PICK c \in Calls : c = call[r] /\ Shaped(c)
  BY DEF HallInv, Requesters
<1>2. PICK s \in SeatIds : /\ s = c.seat /\ r \in Requesters /\ c.op = "book" /\ c.pc = "insert"
                           /\ UNCHANGED <<zones, seats, lock>>
  BY <1>1 DEF Requesters, InsertBooking, Reached, Shaped
<1>3. s = call[r].seat /\ c = call[r]
  BY <1>1, <1>2
<1>4. CASE Finishes(r) /\ UNCHANGED <<held, door>>
  BY <1>1, <1>2, <1>4, EndKeeps
<1>5. CASE /\ Exists(s) /\ held[s].n < MaxBookings
           /\ \E now \in {"later", "soon"} :
                 held' = [held EXCEPT ![s] = [now |-> now, n |-> held[s].n + 1]]
           /\ door' = [door EXCEPT ![s] = Shut] /\ Proceeds(r, "look")
  <2>1. held[s].n \in Nat /\ held[s].n + 1 \in 0..MaxBookings
    BY <1>5, BackOfficeAssumption DEF HallInv, Holds
  <2>2. PICK hold \in Holds : held' = [held EXCEPT ![s] = hold] /\ hold.n = held[s].n + 1
    <3>1. PICK now \in {"later", "soon"} :
              held' = [held EXCEPT ![s] = [now |-> now, n |-> held[s].n + 1]]
      BY <1>5
    <3>2. PICK hold : hold = [now |-> now, n |-> held[s].n + 1]
      OBVIOUS
    <3>3. hold \in Holds /\ hold.n = held[s].n + 1
      BY <2>1, <3>2 DEF Holds, Current
    <3>4. QED BY <3>1, <3>2, <3>3
  <2>3. /\ held' \in [SeatIds -> Holds] /\ held'[s].n = held[s].n + 1
        /\ \A t \in SeatIds \ {s} : held'[t] = held[t]
    BY <2>2 DEF HallInv
  <2>4. CountsGoOn
    <3>1. \A t \in SeatIds : held[t].n \in Nat
      BY BackOfficeAssumption DEF HallInv, Holds
    <3>2. QED BY <2>3, <3>1 DEF CountsGoOn
  <2>5. \A t \in SeatIds : held'[t].n > 0 => Exists(t)
    BY <1>5, <2>3 DEF HallInv, BookedSeatStays
  <2>6. /\ door' \in [SeatIds -> Doors] /\ door'[s] = Shut
        /\ \A t \in SeatIds \ {s} : door'[t] = door[t]
    BY <1>5, ShutIsADoor DEF HallInv
  <2>7. PICK d \in Calls : /\ call' = [call EXCEPT ![r] = d] /\ d.pc = "look"
                           /\ d.op = "book" /\ d.seat = s /\ d.n = c.n
    BY <1>1, <1>2, <1>5, ProceedsAs DEF Points
  <2>8. Shaped(d) /\ Informed(d)
    BY <2>7 DEF Shaped, Informed
  <2>9. /\ call'[r] = d /\ \A q \in Requesters \ {r} : call'[q] = call[q]
    BY <1>2, <2>7, OthersStay
  <2>10. DoorCalls(s)' = {}
    <3>1. SUFFICES ASSUME NEW q \in Workers, AtDoor(call[q], s)'
                   PROVE  FALSE
      BY DEF DoorCalls
    <3>2. q # r
      BY <2>7, <2>9, <3>1 DEF AtDoor
    <3>3. call'[q] = call[q]
      BY <2>9, <3>2 DEF Requesters
    <3>4. call[q].op = "door" /\ call[q].seat = s /\ call[q].n = held'[s].n
      BY <3>1, <3>3 DEF AtDoor
    <3>5. call[q].n <= held[s].n
      BY <3>4 DEF HallInv, Shaped, Requesters
    <3>6. QED BY <2>1, <2>3, <3>4, <3>5
  <2>11. (door[s].met \/ PulseIsLogged(s))'
    BY <2>6, <2>10, ShutIsADoor DEF PulseIsLogged
  <2>12. OnlyFlags
    BY <1>2, UnchangedIsOnly
  <2>13. call[r].op # "door" /\ call[r].pc \notin {"arrange", "place"}
    BY <1>1, <1>2
  <2>14. QED
    BY <1>2, <2>3, <2>4, <2>5, <2>6, <2>7, <2>8, <2>11, <2>12, <2>13, DoorStep
<1>6. QED BY <1>3, <1>4, <1>5 DEF InsertBooking

LEMMA CooldownOverKeeps ==
    ASSUME HallInv, NEW s \in SeatIds, CooldownOver(s)
    PROVE  HallInv'
<1>1. /\ UNCHANGED <<zones, seats, held, lock, call>> /\ door' = [door EXCEPT ![s] = Shut]
      /\ \A r \in Workers : ~(call[r].op = "door" /\ call[r].seat = s)
  BY DEF CooldownOver
<1>2. "pass" \in Requesters /\ "pass" \notin Workers
  BY BackOfficeAssumption DEF Requesters
<1>3. PICK d \in Calls : d = call["pass"] /\ Shaped(d) /\ Informed(d)
  BY <1>2 DEF HallInv
<1>4. call' = [call EXCEPT !["pass"] = d]
  BY <1>1, <1>2, <1>3 DEF HallInv
<1>5. /\ door' \in [SeatIds -> Doors] /\ door'[s] = Shut
      /\ \A t \in SeatIds \ {s} : door'[t] = door[t]
  BY <1>1, ShutIsADoor DEF HallInv
<1>6. DoorCalls(s)' = {}
  BY <1>1 DEF DoorCalls, AtDoor
<1>7. DoorsAccounted'
  <2>1. SUFFICES ASSUME NEW t \in SeatIds PROVE (door[t].met \/ PulseIsLogged(t))'
    BY DEF DoorsAccounted
  <2>2. CASE t = s
    BY <1>5, <1>6, <2>2, ShutIsADoor DEF PulseIsLogged
  <2>3. CASE t # s
    <3>1. DoorCalls(t)' = DoorCalls(t) /\ door'[t] = door[t]
      BY <1>1, <1>5, <2>3 DEF DoorCalls, AtDoor
    <3>2. door[t].met \/ PulseIsLogged(t)
      BY DEF HallInv
    <3>3. QED BY <1>1, <3>1, <3>2 DEF PulseIsLogged
  <2>4. QED BY <2>2, <2>3
<1>8. OnlyFlags /\ CountsGoOn /\ \A t \in SeatIds : held'[t].n > 0 => Exists(t)
  BY <1>1, UnchangedIsOnly, SameCountsGoOn DEF HallInv, BookedSeatStays
<1>9. zones \subseteq zones' /\ zones' \subseteq Zones /\ lock' \in Providers
      /\ held' \in [SeatIds -> Holds]
  BY <1>1 DEF HallInv, HallTypeOK
<1>10. QED BY <1>2, <1>3, <1>4, <1>5, <1>7, <1>8, <1>9, FlagStep

-----------------------------------------------------------------------------
(* The invariant.                                                          *)

LEMMA HallInitially == HallInit => HallInv
<1>1. SUFFICES ASSUME HallInit PROVE HallInv
  OBVIOUS
<1>2. ASSUME NEW s \in DOMAIN FirstSeats
      PROVE  /\ s \in SeatIds /\ seats[s] \in SeatRows /\ seats[s].at = "row"
             /\ seats[s].zone = FirstSeats[s].zone /\ seats[s].number = FirstSeats[s].number
             /\ seats[s].status = "free" /\ seats[s].placed
  <2>1. FirstSeats[s].zone \in Zones /\ FirstSeats[s].number \in Numbers /\ s \in SeatIds
    BY BackOfficeAssumption
  <2>2. seats[s] = [Row(FirstSeats[s].zone, FirstSeats[s].number, "free") EXCEPT !.placed = TRUE]
    BY <1>1, <2>1 DEF HallInit
  <2>3. PICK row : row = Row(FirstSeats[s].zone, FirstSeats[s].number, "free")
    OBVIOUS
  <2>4. /\ row \in SeatRows /\ row.at = "row" /\ row.zone = FirstSeats[s].zone
        /\ row.number = FirstSeats[s].number /\ row.status = "free"
    BY <2>1, <2>3 DEF Row, Unused, SeatRows, SeatStatuses
  <2>5. seats[s] = [row EXCEPT !.placed = TRUE]
    BY <2>2, <2>3
  <2>6. QED BY <2>1, <2>4, <2>5 DEF SeatRows
<1>3. ASSUME NEW s \in SeatIds, s \notin DOMAIN FirstSeats
      PROVE  seats[s] = Unused /\ seats[s] \in SeatRows /\ ~Exists(s) /\ seats[s].at = "unused"
  BY <1>1, <1>3 DEF HallInit, Unused, SeatRows, SeatStatuses, Exists
<1>4. \A s \in SeatIds : Exists(s) <=> s \in DOMAIN FirstSeats
  BY <1>2, <1>3 DEF Exists
<1>5. seats \in [SeatIds -> SeatRows]
  <2>1. \A s \in SeatIds : seats[s] \in SeatRows
    BY <1>2, <1>3
  <2>2. DOMAIN seats = SeatIds /\ seats = [s \in SeatIds |-> seats[s]]
    BY <1>1 DEF HallInit
  <2>3. QED BY <2>1, <2>2
<1>6. held \in [SeatIds -> Holds] /\ \A s \in SeatIds : held[s].n > 0 => Exists(s)
  <2>1. Fresh \in Holds /\ Fresh.n = 0
    BY BackOfficeAssumption DEF Fresh, Holds
  <2>2. [now |-> "soon", n |-> 1] \in Holds
    BY BackOfficeAssumption DEF Holds, Current
  <2>3. CASE held = [s \in SeatIds |-> Fresh]
    BY <2>1, <2>3
  <2>4. CASE held = [s \in SeatIds |-> IF s \in DOMAIN FirstSeats
                                       THEN [now |-> "soon", n |-> 1] ELSE Fresh]
    BY <1>4, <2>1, <2>2, <2>4
  <2>5. QED BY <1>1, <2>3, <2>4 DEF HallInit
<1>7. door \in [SeatIds -> Doors] /\ \A s \in SeatIds : door[s] = Shut
  BY <1>1, ShutIsADoor DEF HallInit
<1>8. call \in [Requesters -> Calls] /\ \A r \in Requesters : call[r] = NoCall
  BY <1>1, NoCallIsACall DEF HallInit
<1>9. lock \in Providers
  BY <1>1 DEF HallInit, Providers
<1>10. HallTypeOK
  <2>1. zones \subseteq Zones /\ \A s \in DOMAIN FirstSeats : FirstSeats[s].zone \in zones
    BY <1>1, BackOfficeAssumption DEF HallInit
  <2>2. \A s \in SeatIds : Exists(s) => seats[s].zone \in zones /\ seats[s].status \in SeatStatuses
    BY <1>2, <1>4, <2>1 DEF SeatStatuses
  <2>3. ASSUME NEW s \in DOMAIN FirstSeats, NEW t \in DOMAIN FirstSeats, s # t
        PROVE  \/ FirstSeats[s].zone # FirstSeats[t].zone
               \/ FirstSeats[s].number # FirstSeats[t].number
    <3>1. FirstSeats[s] # FirstSeats[t]
      BY <2>3, BackOfficeAssumption
    <3>2. /\ FirstSeats[s] \in [zone : Zones, number : Numbers]
          /\ FirstSeats[t] \in [zone : Zones, number : Numbers]
      BY BackOfficeAssumption
    <3>3. QED BY <3>1, <3>2
  <2>4. \A s, t \in SeatIds : Exists(s) /\ Exists(t) /\ s # t
             => <<seats[s].zone, seats[s].number>> # <<seats[t].zone, seats[t].number>>
    BY <1>2, <1>4, <2>3
  <2>5. \A s \in SeatIds : held[s].now \in Current \cup {"none"} /\ held[s].n \in 0..MaxBookings
    BY <1>6 DEF Holds
  <2>6. QED BY <2>1, <2>2, <2>4, <2>5 DEF HallTypeOK
<1>11. \A r \in Requesters : Shaped(call[r]) /\ Informed(call[r])
  BY <1>8, NoCallIsShaped
<1>12. CornersAreTransient
  BY <1>2, <1>4 DEF CornersAreTransient, InTheCorner
<1>13. \A s \in SeatIds : PulseIsLogged(s)
  <2>1. \A s : DoorCalls(s) = {}
    BY <1>8, NoCallIsACall DEF DoorCalls, AtDoor, Requesters
  <2>2. QED BY <1>7, <2>1, ShutIsADoor DEF PulseIsLogged
<1>14. QED
  BY <1>5, <1>6, <1>7, <1>8, <1>9, <1>10, <1>11, <1>12, <1>13 DEF HallInv, BookedSeatStays

LEMMA RequestsKeep == HallInv /\ Requests => HallInv'
BY CreateSeatKeeps, SaveSeatKeeps, QuickStatusKeeps, DeleteSeatKeeps, CreateZoneKeeps,
   DeleteZoneKeeps, CancelBookingKeeps, BookKeeps, OpenDoorKeeps, SaveLockKeeps DEF Requests

LEMMA HandlersKeep == ASSUME HallInv, NEW r \in Workers, HallHandler(r) PROVE HallInv'
BY ReadingKeeps, InsertSeatKeeps, ArrangeKeeps, PlaceKeeps, UpdateSeatKeeps, CheckDeletableKeeps,
   RemoveSeatKeeps, RemoveZoneKeeps, WriteCancelledKeeps, InsertBookingKeeps, ReadSessionKeeps,
   PulseKeeps, BeginAtDoorKeeps, LogOpenedKeeps DEF HallHandler

LEMMA StutterKeeps == HallInv /\ UNCHANGED hallVars => HallInv'
<1>1. SUFFICES ASSUME HallInv, UNCHANGED hallVars PROVE HallInv'
  OBVIOUS
<1>2. UNCHANGED <<zones, seats, held, door, lock, call>>
  BY <1>1 DEF hallVars
<1>3. OnlyFlags /\ zones' \subseteq Zones /\ lock' \in Providers /\ held' \in [SeatIds -> Holds]
  BY <1>1, <1>2, UnchangedIsOnly DEF HallInv, HallTypeOK
<1>4. QED BY <1>1, <1>2, <1>3, AloneKeeps

\* The invariant holds of every state (the whole of AdminService, the door and the pass).
THEOREM HallInductive == HallSpec => []HallInv
<1>1. HallInv /\ [HallNext]_hallVars => HallInv'
  <2>1. SUFFICES ASSUME HallInv, [HallNext]_hallVars PROVE HallInv'
    OBVIOUS
  <2>2. CASE \E s \in SeatIds : Progress(s) \/ CooldownOver(s)
    BY <2>1, <2>2, ProgressKeeps, CooldownOverKeeps
  <2>3. CASE \E r \in Requesters : Recompute(r)
    BY <2>1, <2>3, LookKeeps, WeighKeeps, FlagKeeps DEF Recompute
  <2>4. CASE \E r \in Workers : HallHandler(r)
    BY <2>1, <2>4, HandlersKeep
  <2>5. QED BY <2>1, <2>2, <2>3, <2>4, RequestsKeep, StartPassKeeps, NextSeatKeeps, StutterKeeps
            DEF HallNext
<1>2. QED BY <1>1, HallInitially, PTL DEF HallSpec

\* A seat that was ever booked keeps its row (deleteSeat, deleteZone).
THEOREM BookedSeatsAreKept == HallSpec => []BookedSeatStays
<1>1. HallInv => BookedSeatStays
  BY DEF HallInv
<1>2. QED BY <1>1, HallInductive, PTL

\* A new seat does not stay in the corner of the map (createSeat, relayoutZoneSeats).
THEOREM NewSeatsGetAPlace == HallSpec => []NewSeatsArePlaced
<1>1. HallInv => NewSeatsArePlaced
  <2>1. SUFFICES ASSUME HallInv, \A r \in Workers : call[r] = NoCall, MovedAndDeleted = {},
                        NEW s \in SeatIds, InTheCorner(s)
                 PROVE  FALSE
    BY DEF NewSeatsArePlaced, InTheCorner
  <2>2. PICK r \in Workers : Placing(call[r], s)
    BY <2>1 DEF HallInv, CornersAreTransient
  <2>3. QED BY <2>1, <2>2, NoCallIsACall DEF Placing
<1>2. QED BY <1>1, HallInductive, PTL

\* One pulse within a cooldown and one more for each the bridge reported as a failure, unless a
\* request came before the row of an earlier one was written (openMainDoor).
THEOREM OnePulsePerCooldown == HallSpec => []DoorOncePerCooldown
<1>1. HallInv => DoorOncePerCooldown
  <2>1. SUFFICES ASSUME HallInv, NEW s \in SeatIds, ~door[s].met
                 PROVE  door[s].pulses <= 1 + door[s].lost
    BY DEF DoorOncePerCooldown
  <2>2. PulseIsLogged(s)
    BY <2>1 DEF HallInv
  <2>3. QED BY <2>2 DEF PulseIsLogged
<1>2. QED BY <1>1, HallInductive, PTL

\* The keys of the schema hold of the seats (Seat).
THEOREM HallTypeCorrect == HallSpec => []HallTypeOK
<1>1. HallInv => HallTypeOK
  BY DEF HallInv
<1>2. QED BY <1>1, HallInductive, PTL

-----------------------------------------------------------------------------
(* A seat out of service.                                                  *)

LateCall(c, s) == /\ c.seat = s
                  /\ \/ c.pc \in {"weigh", "flag"} /\ c.seen # "repair"
                     \/ c.op = "book" /\ c.pc = "insert"
Comes(r, s) == \E d : call' = [call EXCEPT ![r] = d] /\ ~LateCall(d, s)
StaysOut(s) == seats'[s].at = "row" /\ seats'[s].status = "repair" /\ held'[s].now = "none"

LEMMA NobodyIsLate ==
    ASSUME HallInv, NEW s, Late(s) = {}, NEW r \in Requesters, Comes(r, s)
    PROVE  Late(s)' = {}
<1>1. PICK d : call' = [call EXCEPT ![r] = d] /\ ~LateCall(d, s)
  BY DEF Comes
<1>2. call'[r] = d /\ \A q \in Requesters \ {r} : call'[q] = call[q]
  BY <1>1 DEF HallInv
<1>3. \A q \in Requesters : ~LateCall(call[q], s)
  BY DEF Late, LateCall, Reached
<1>4. \A q \in Requesters : ~LateCall(call'[q], s)
  BY <1>1, <1>2, <1>3
<1>5. QED BY <1>4 DEF Late, LateCall, Reached

LEMMA EndComes ==
    ASSUME NEW r, Finishes(r), NEW s PROVE Comes(r, s)
BY NoCallIsACall DEF Finishes, Comes, LateCall

LEMMA ProceedComes ==
    ASSUME HallInv, NEW r \in Requesters, NEW pc \in Points \ {"weigh", "flag"}, Proceeds(r, pc),
           NEW s, call[r].seat = s => call[r].op # "book" \/ pc # "insert"
    PROVE  Comes(r, s)
<1>1. PICK c \in Calls : c = call[r]
  BY DEF HallInv
<1>2. PICK d \in Calls : d = [c EXCEPT !.pc = pc]
  BY GoingOn
<1>3. d.pc = pc /\ d.op = c.op /\ d.seat = c.seat
  BY <1>2, GoingOn
<1>4. call' = [call EXCEPT ![r] = d]
  BY <1>1, <1>2 DEF Proceeds, HallInv
<1>5. ~LateCall(d, s)
  BY <1>1, <1>3 DEF LateCall
<1>6. QED BY <1>4, <1>5 DEF Comes

LEMMA RowsStayOut ==
    ASSUME NEW s, OutOfService(s), UNCHANGED <<seats, held>>
    PROVE  StaysOut(s)
BY DEF StaysOut, OutOfService, Exists

LEMMA OutIsTyped ==
    ASSUME HallInv, NEW s \in SeatIds, OutOfService(s)
    PROVE  /\ seats[s].at = "row" /\ seats[s].status = "repair" /\ held[s].now = "none"
           /\ Late(s) = {} /\ \A r \in Requesters : ~LateCall(call[r], s)
BY DEF OutOfService, Exists, Late, LateCall, Reached

\* A request that comes has seen nothing yet.
LEMMA ComeStaysOut ==
    ASSUME HallInv, NEW s \in SeatIds, OutOfService(s), NEW op, NEW first, Come(op, first),
           NEW d, d = [first EXCEPT !.op = op], d.pc \in {"check", "read", "count"}
    PROVE  StaysOut(s) /\ \E r \in Requesters : Comes(r, s)
<1>1. PICK r \in Requesters : call' = [call EXCEPT ![r] = d]
  BY Coming
<1>2. ~LateCall(d, s)
  BY DEF LateCall
<1>3. StaysOut(s)
  BY RowsStayOut DEF Come
<1>4. QED BY <1>1, <1>2, <1>3 DEF Comes

LEMMA NoCallStaysOut ==
    ASSUME HallInv, NEW s \in SeatIds, OutOfService(s), UNCHANGED call
    PROVE  \E r \in Requesters : Comes(r, s)
<1>1. "pass" \in Requesters /\ ~LateCall(call["pass"], s)
  BY OutIsTyped DEF Requesters
<1>2. call' = [call EXCEPT !["pass"] = call["pass"]]
  BY <1>1 DEF HallInv
<1>3. QED BY <1>1, <1>2 DEF Comes

LEMMA RequestsStayOut ==
    ASSUME HallInv, NEW s \in SeatIds, OutOfService(s), Requests
    PROVE  StaysOut(s) /\ \E r \in Requesters : Comes(r, s)
<1>1. CASE CreateZone \/ SaveLock
  BY <1>1, NoCallStaysOut, RowsStayOut DEF CreateZone, SaveLock
<1>2. ASSUME NEW op, NEW first, Come(op, first),
             [first EXCEPT !.op = op].pc \in {"check", "read", "count"}
      PROVE  StaysOut(s) /\ \E r \in Requesters : Comes(r, s)
  BY <1>2, ComeStaysOut
<1>3. DOMAIN NoCall = DOMAIN [NoCall EXCEPT !.op = "none"] /\ "pc" \in DOMAIN NoCall
  BY NoCallIsACall DEF Calls
<1>4. CASE CreateSeat
  BY <1>2, <1>3, <1>4 DEF CreateSeat
<1>5. CASE SaveSeat
  BY <1>2, <1>3, <1>5 DEF SaveSeat
<1>6. CASE QuickStatus
  BY <1>2, <1>3, <1>6 DEF QuickStatus
<1>7. CASE DeleteSeat
  BY <1>2, <1>3, <1>7 DEF DeleteSeat
<1>8. CASE DeleteZone
  BY <1>2, <1>3, <1>8 DEF DeleteZone
<1>9. CASE CancelBooking
  BY <1>2, <1>3, <1>9 DEF CancelBooking
<1>10. CASE Book
  BY <1>2, <1>3, <1>10 DEF Book
<1>11. CASE OpenDoor
  BY <1>2, <1>3, <1>11 DEF OpenDoor
<1>12. QED
  BY <1>1, <1>4, <1>5, <1>6, <1>7, <1>8, <1>9, <1>10, <1>11 DEF Requests

LEMMA ReadingStaysOut ==
    ASSUME HallInv, NEW s \in SeatIds, OutOfService(s), NEW r \in Workers,
           \/ CheckNew(r) \/ ReadSeat(r) \/ GuardFree(r)
           \/ CountSeats(r) \/ ReadBooking(r) \/ ReadFree(r)
    PROVE  StaysOut(s) /\ Comes(r, s)
<1>1. r \in Requesters
  BY DEF Requesters
<1>2. StaysOut(s)
  BY RowsStayOut DEF CheckNew, ReadSeat, GuardFree, CountSeats, ReadBooking, ReadFree, tables
<1>3. \/ Finishes(r)
      \/ \E pc \in {"insert", "guard", "write", "delete"} :
            Proceeds(r, pc) /\ (call[r].seat = s => call[r].op # "book" \/ pc # "insert")
  BY OutIsTyped DEF CheckNew, ReadSeat, GuardFree, CountSeats, ReadBooking, ReadFree, Reached
<1>4. {"insert", "guard", "write", "delete"} \subseteq Points \ {"weigh", "flag"}
  BY DEF Points
<1>5. QED BY <1>1, <1>2, <1>3, <1>4, EndComes, ProceedComes

LEMMA CheckDeletableStaysOut ==
    ASSUME HallInv, NEW s \in SeatIds, OutOfService(s), NEW r \in Workers, CheckDeletable(r)
    PROVE  StaysOut(s) /\ Comes(r, s)
<1>1. StaysOut(s)
  BY RowsStayOut DEF CheckDeletable, tables
<1>2. PICK z : z = seats[call[r].seat].zone
  OBVIOUS
<1>3. PICK c \in Calls : c = call[r] /\ c.op = "delete" /\ r \in Requesters
  BY DEF HallInv, CheckDeletable, Reached, Requesters
<1>4. \/ call' = [call EXCEPT ![r] = NoCall]
      \/ call' = [call EXCEPT ![r] = [c EXCEPT !.pc = "delete", !.zone = z]]
  BY <1>2, <1>3 DEF CheckDeletable, HallInv
<1>5. ~LateCall([c EXCEPT !.pc = "delete", !.zone = z], s)
  BY <1>3 DEF LateCall, Calls
<1>6. ~LateCall(NoCall, s)
  BY NoCallIsACall DEF LateCall
<1>7. QED BY <1>1, <1>4, <1>5, <1>6 DEF Comes

\* Another seat is written, or this one with a place of its own.
LEMMA ElsewhereStaysOut ==
    ASSUME HallInv, NEW s \in SeatIds, OutOfService(s),
           held'[s].now = held[s].now,
           seats'[s].at = seats[s].at, seats'[s].status = seats[s].status
    PROVE  StaysOut(s)
BY OutIsTyped DEF StaysOut

LEMMA InsertSeatStaysOut ==
    ASSUME HallInv, NEW s \in SeatIds, OutOfService(s), NEW r \in Workers, InsertSeat(r)
    PROVE  StaysOut(s) /\ Comes(r, s)
<1>1. UNCHANGED held /\ call[r].op = "create" /\ r \in Requesters /\ "arrange" \in Points
  BY DEF InsertSeat, Reached, Requesters, Points
<1>2. Comes(r, s)
  BY <1>1, EndComes, ProceedComes DEF InsertSeat
<1>3. seats'[s] = seats[s]
  <2>1. CASE UNCHANGED seats
    BY <2>1
  <2>2. CASE \E t \in SeatIds :
                /\ seats[t] = Unused
                /\ seats' = [seats EXCEPT ![t] = Row(call[r].zone, call[r].number, call[r].status)]
    <3>1. Unused.at = "unused"
      BY DEF Unused
    <3>2. seats[s].at = "row"
      BY OutIsTyped
    <3>3. QED BY <2>2, <3>1, <3>2 DEF HallInv
  <2>3. QED BY <2>1, <2>2 DEF InsertSeat
<1>4. QED BY <1>1, <1>2, <1>3, ElsewhereStaysOut

LEMMA ArrangeStaysOut ==
    ASSUME HallInv, NEW s \in SeatIds, OutOfService(s), NEW r \in Workers, Arrange(r)
    PROVE  StaysOut(s) /\ Comes(r, s)
<1>1. StaysOut(s)
  BY RowsStayOut DEF Arrange, tables
<1>2. PICK c \in Calls : c = call[r] /\ r \in Requesters
  BY DEF HallInv, Requesters
<1>3. PICK plan : plan = In(call[r].zone)
  OBVIOUS
<1>4. \/ call' = [call EXCEPT ![r] = NoCall]
      \/ call' = [call EXCEPT ![r] = [c EXCEPT !.pc = "place", !.plan = plan]]
  BY <1>2, <1>3 DEF Arrange, HallInv
<1>5. ~LateCall([c EXCEPT !.pc = "place", !.plan = plan], s)
  BY <1>2 DEF LateCall, Calls
<1>6. ~LateCall(NoCall, s)
  BY NoCallIsACall DEF LateCall
<1>7. QED BY <1>1, <1>4, <1>5, <1>6 DEF Comes

LEMMA PlaceStaysOut ==
    ASSUME HallInv, NEW s \in SeatIds, OutOfService(s), NEW r \in Workers, Place(r)
    PROVE  StaysOut(s) /\ Comes(r, s)
<1>1. Comes(r, s) /\ UNCHANGED held
  BY EndComes DEF Place
<1>2. seats'[s] = seats[s] \/ seats'[s] = Laid(seats[s])
  BY DEF Place
<1>3. PICK row \in SeatRows : row = seats[s]
  BY DEF HallInv
<1>4. Laid(row).at = row.at /\ Laid(row).status = row.status
  BY DEF Laid, SeatRows
<1>5. QED BY <1>1, <1>2, <1>3, <1>4, ElsewhereStaysOut

\* The requests of administrators that write a seat.
LEMMA UpdateSeatStaysOut ==
    ASSUME HallInv, NEW s \in SeatIds, OutOfService(s), NEW r \in Workers, UpdateSeat(r)
    PROVE  (StaysOut(s) /\ Comes(r, s)) \/ Changed(s)
<1>1. Finishes(r) /\ Reached(r, "update", "write") /\ UNCHANGED held /\ r \in Requesters
  BY DEF UpdateSeat, Requesters
<1>2. CASE call[r].seat = s
  <2>1. call'[r] = NoCall
    BY <1>1 DEF Finishes, HallInv
  <2>2. call'[r] # call[r]
    BY <1>1, <2>1, NoCallIsACall DEF Reached
  <2>3. QED BY <1>1, <1>2, <2>2 DEF Changed, Writes
<1>3. CASE call[r].seat # s
  <2>1. seats'[s] = seats[s]
    BY <1>3 DEF UpdateSeat, HallInv
  <2>2. QED BY <1>1, <2>1, EndComes, ElsewhereStaysOut
<1>4. QED BY <1>2, <1>3

LEMMA WriteCancelledStaysOut ==
    ASSUME HallInv, NEW s \in SeatIds, OutOfService(s), NEW r \in Workers, WriteCancelled(r)
    PROVE  (StaysOut(s) /\ Comes(r, s)) \/ Changed(s)
<1>1. Finishes(r) /\ Reached(r, "cancel", "write") /\ r \in Requesters
  BY DEF WriteCancelled, Requesters
<1>2. CASE call[r].seat = s
  <2>1. call'[r] = NoCall
    BY <1>1 DEF Finishes, HallInv
  <2>2. call'[r] # call[r]
    BY <1>1, <2>1, NoCallIsACall DEF Reached
  <2>3. QED BY <1>1, <1>2, <2>2 DEF Changed, Writes
<1>3. CASE call[r].seat # s
  <2>1. seats'[s] = seats[s] /\ held'[s] = held[s]
    BY <1>3 DEF WriteCancelled, HallInv
  <2>2. QED BY <1>1, <2>1, EndComes, ElsewhereStaysOut
<1>4. QED BY <1>2, <1>3

LEMMA RemoveSeatStaysOut ==
    ASSUME HallInv, NEW s \in SeatIds, OutOfService(s), NEW r \in Workers, RemoveSeat(r)
    PROVE  (StaysOut(s) /\ Comes(r, s)) \/ Changed(s)
<1>1. Reached(r, "delete", "delete") /\ UNCHANGED held /\ r \in Requesters /\ "arrange" \in Points
  BY DEF RemoveSeat, Requesters, Points
<1>2. PICK c \in Calls : c = call[r]
  BY <1>1 DEF HallInv
<1>3. Comes(r, s)
  BY <1>1, EndComes, ProceedComes DEF RemoveSeat, Reached
<1>4. CASE call[r].seat = s
  <2>1. call'[r] = NoCall \/ call'[r] = [c EXCEPT !.pc = "arrange"]
    BY <1>1, <1>2 DEF RemoveSeat, Finishes, Proceeds, HallInv
  <2>2. call'[r].pc = "-" \/ call'[r].pc = "arrange"
    BY <2>1, NoCallIsACall DEF Calls
  <2>3. call'[r] # call[r]
    BY <1>1, <2>2 DEF Reached
  <2>4. QED BY <1>1, <1>4, <2>3 DEF Changed, Writes
<1>5. CASE call[r].seat # s
  <2>1. seats'[s] = seats[s]
    BY <1>5 DEF RemoveSeat, HallInv
  <2>2. QED BY <1>1, <1>3, <2>1, ElsewhereStaysOut
<1>6. QED BY <1>4, <1>5

LEMMA RemoveZoneStaysOut ==
    ASSUME HallInv, NEW s \in SeatIds, OutOfService(s), NEW r \in Workers, RemoveZone(r)
    PROVE  (StaysOut(s) /\ Comes(r, s)) \/ Changed(s)
<1>1. Finishes(r) /\ Reached(r, "deleteZone", "delete") /\ UNCHANGED held /\ r \in Requesters
  BY DEF RemoveZone, Requesters
<1>2. CASE call[r].zone = seats[s].zone
  <2>1. call'[r] = NoCall
    BY <1>1 DEF Finishes, HallInv
  <2>2. call'[r] # call[r]
    BY <1>1, <2>1, NoCallIsACall DEF Reached
  <2>3. QED BY <1>1, <1>2, <2>2 DEF Changed, Writes
<1>3. CASE call[r].zone # seats[s].zone
  <2>1. seats'[s] = seats[s]
    BY <1>3 DEF RemoveZone, In
  <2>2. QED BY <1>1, <2>1, EndComes, ElsewhereStaysOut
<1>4. QED BY <1>2, <1>3

\* A booking of the seat would be late.
LEMMA InsertBookingStaysOut ==
    ASSUME HallInv, NEW s \in SeatIds, OutOfService(s), NEW r \in Workers, InsertBooking(r)
    PROVE  StaysOut(s) /\ Comes(r, s)
<1>1. /\ call[r].op = "book" /\ call[r].pc = "insert" /\ UNCHANGED seats
      /\ r \in Requesters /\ "look" \in Points
  BY DEF InsertBooking, Reached, Requesters, Points
<1>2. call[r].seat # s
  BY <1>1, OutIsTyped DEF LateCall
<1>3. Comes(r, s)
  BY <1>1, EndComes, ProceedComes DEF InsertBooking
<1>4. held'[s] = held[s]
  BY <1>2 DEF InsertBooking, HallInv
<1>5. QED BY <1>1, <1>3, <1>4, ElsewhereStaysOut

LEMMA DoorStaysOut ==
    ASSUME HallInv, NEW s \in SeatIds, OutOfService(s), NEW r \in Workers,
           ReadSession(r) \/ Pulse(r) \/ BeginAtDoor(r) \/ LogOpened(r)
    PROVE  StaysOut(s) /\ Comes(r, s)
<1>1. call[r].op = "door" /\ r \in Requesters /\ {"begin", "log"} \subseteq Points
  BY DEF ReadSession, Pulse, BeginAtDoor, LogOpened, Reached, Requesters, Points
<1>2. PICK c \in Calls : c = call[r]
  BY <1>1 DEF HallInv
<1>3. CASE ReadSession(r)
  <2>1. \/ call' = [call EXCEPT ![r] = NoCall]
        \/ call' = [call EXCEPT ![r] = [c EXCEPT !.pc = "open", !.seen = lock]]
    BY <1>1, <1>2, <1>3 DEF ReadSession, HallInv
  <2>2. ~LateCall([c EXCEPT !.pc = "open", !.seen = lock], s)
    BY <1>2 DEF LateCall, Calls
  <2>3. ~LateCall(NoCall, s)
    BY NoCallIsACall DEF LateCall
  <2>4. QED BY <1>3, <2>1, <2>2, <2>3, RowsStayOut DEF Comes, ReadSession, tables
<1>4. CASE Pulse(r)
  BY <1>1, <1>4, EndComes, ProceedComes, RowsStayOut DEF Pulse
<1>5. CASE BeginAtDoor(r)
  <2>1. Comes(r, s)
    BY <1>1, <1>5, ProceedComes DEF BeginAtDoor
  <2>2. CASE call[r].seat = s
    <3>1. UNCHANGED <<held, seats>>
      BY <1>5, <2>2, OutIsTyped DEF BeginAtDoor
    <3>2. QED BY <2>1, <3>1, RowsStayOut
  <2>3. CASE call[r].seat # s
    <3>1. held'[s] = held[s] /\ seats'[s] = seats[s]
      BY <1>5, <2>3 DEF BeginAtDoor, HallInv
    <3>2. QED BY <2>1, <3>1, ElsewhereStaysOut
  <2>4. QED BY <2>2, <2>3
<1>6. CASE LogOpened(r)
  BY <1>6, EndComes, RowsStayOut DEF LogOpened
<1>7. QED BY <1>3, <1>4, <1>5, <1>6

\* The pass passes over a seat it finds under repair, and is not late for it.
LEMMA RecomputedComes ==
    ASSUME HallInv, NEW s \in SeatIds, NEW r \in Requesters, Recomputed(r)
    PROVE  Comes(r, s)
<1>1. "next" \in Points \ {"weigh", "flag"}
  BY DEF Points
<1>2. QED BY <1>1, EndComes, ProceedComes DEF Recomputed

LEMMA RecomputeStaysOut ==
    ASSUME HallInv, NEW s \in SeatIds, OutOfService(s), NEW r \in Requesters, Recompute(r)
    PROVE  StaysOut(s) /\ Comes(r, s)
<1>1. PICK c \in Calls : c = call[r] /\ Shaped(c)
  BY DEF HallInv
<1>2. CASE Look(r)
  <2>1. StaysOut(s)
    BY <1>2, RowsStayOut DEF Look, tables
  <2>2. CASE Recomputed(r)
    BY <2>1, <2>2, RecomputedComes
  <2>3. CASE ~Recomputed(r)
    <3>1. PICK seen : seen = seats[c.seat].status
      OBVIOUS
    <3>2. call' = [call EXCEPT ![r] = [c EXCEPT !.pc = "weigh", !.seen = seen]] /\ seen # "repair"
      BY <1>1, <1>2, <2>3, <3>1 DEF Look, HallInv
    <3>3. c.seat # s
      BY <3>1, <3>2, OutIsTyped
    <3>4. ~LateCall([c EXCEPT !.pc = "weigh", !.seen = seen], s)
      BY <3>3 DEF LateCall, Calls
    <3>5. QED BY <2>1, <3>2, <3>4 DEF Comes
  <2>4. QED BY <2>2, <2>3
<1>3. CASE Weigh(r)
  <2>1. StaysOut(s)
    BY <1>3, RowsStayOut DEF Weigh, tables
  <2>2. CASE Recomputed(r)
    BY <2>1, <2>2, RecomputedComes
  <2>3. CASE ~Recomputed(r)
    <3>1. PICK status : status = Display(c.seat)
      OBVIOUS
    <3>2. call' = [call EXCEPT ![r] = [c EXCEPT !.pc = "flag", !.status = status]]
      BY <1>1, <1>3, <2>3, <3>1 DEF Weigh, HallInv
    <3>3. c.seat # s
      BY <1>1, <1>3, OutIsTyped DEF Weigh, Shaped, LateCall
    <3>4. ~LateCall([c EXCEPT !.pc = "flag", !.status = status], s)
      BY <3>3 DEF LateCall, Calls
    <3>5. QED BY <2>1, <3>2, <3>4 DEF Comes
  <2>4. QED BY <2>2, <2>3
<1>4. CASE Flag(r)
  <2>1. call[r].seat # s
    BY <1>1, <1>4, OutIsTyped DEF Flag, Shaped, LateCall
  <2>2. seats'[s] = seats[s] /\ UNCHANGED held
    BY <1>4, <2>1 DEF Flag, HallInv
  <2>3. Comes(r, s)
    BY <1>4, EndComes, RecomputedComes DEF Flag
  <2>4. QED BY <2>2, <2>3, ElsewhereStaysOut
<1>5. QED BY <1>2, <1>3, <1>4 DEF Recompute

LEMMA PassStaysOut ==
    ASSUME HallInv, NEW s \in SeatIds, OutOfService(s), StartPass \/ NextSeat
    PROVE  StaysOut(s) /\ Comes("pass", s)
<1>1. "pass" \in Requesters
  BY DEF Requesters
<1>2. StaysOut(s)
  BY RowsStayOut DEF StartPass, NextSeat, tables
<1>3. CASE StartPass
  <2>1. PICK d : /\ call' = [call EXCEPT !["pass"] = d] /\ d.pc = "next" /\ d.op = "pass"
    <3>1. PICK todo : call' = [call EXCEPT !["pass"] =
                          [NoCall EXCEPT !.op = "pass", !.pc = "next", !.todo = todo]]
      BY <1>3 DEF StartPass
    <3>2. PICK d : d = [NoCall EXCEPT !.op = "pass", !.pc = "next", !.todo = todo]
      OBVIOUS
    <3>3. d.pc = "next" /\ d.op = "pass"
      BY <3>2, NoCallIsACall DEF Calls
    <3>4. QED BY <3>1, <3>2, <3>3
  <2>2. QED BY <1>2, <2>1 DEF Comes, LateCall
<1>4. CASE NextSeat
  <2>1. PICK c \in Calls : c = call["pass"] /\ c.op = "pass"
    BY <1>1, <1>4 DEF HallInv, NextSeat, Reached
  <2>2. CASE Finishes("pass")
    BY <1>2, <2>2, EndComes
  <2>3. CASE \E t \in c.todo : call' = [call EXCEPT !["pass"] =
                 [c EXCEPT !.pc = "look", !.seat = t, !.todo = c.todo \ {t}]]
    <3>1. PICK t \in c.todo : call' = [call EXCEPT !["pass"] =
                 [c EXCEPT !.pc = "look", !.seat = t, !.todo = c.todo \ {t}]]
      BY <2>3
    <3>2. ~LateCall([c EXCEPT !.pc = "look", !.seat = t, !.todo = c.todo \ {t}], s)
      BY <2>1 DEF LateCall, Calls
    <3>3. QED BY <1>2, <3>1, <3>2 DEF Comes
  <2>4. QED BY <1>4, <2>1, <2>2, <2>3 DEF NextSeat
<1>5. QED BY <1>3, <1>4

LEMMA TimeStaysOut ==
    ASSUME HallInv, NEW s \in SeatIds, OutOfService(s), NEW t \in SeatIds,
           Progress(t) \/ CooldownOver(t)
    PROVE  StaysOut(s) /\ \E r \in Requesters : Comes(r, s)
<1>1. UNCHANGED call
  BY DEF Progress, CooldownOver
<1>2. CASE CooldownOver(t)
  BY <1>1, <1>2, NoCallStaysOut, RowsStayOut DEF CooldownOver
<1>3. CASE Progress(t)
  <2>1. t # s
    BY <1>3, OutIsTyped DEF Progress, DoorWindow, Begin, Over, Current
  <2>2. held'[s] = held[s] /\ seats'[s] = seats[s]
    BY <1>3, <2>1 DEF Progress, DoorWindow, Begin, Over, HallInv
  <2>3. QED BY <1>1, <2>2, NoCallStaysOut, ElsewhereStaysOut
<1>4. QED BY <1>2, <1>3

LEMMA StepStaysOut ==
    ASSUME HallInv, NEW s \in SeatIds, OutOfService(s), HallNext
    PROVE  (StaysOut(s) /\ \E r \in Requesters : Comes(r, s)) \/ Changed(s)
<1>1. CASE Requests
  BY <1>1, RequestsStayOut
<1>2. ASSUME NEW r \in Workers, HallHandler(r)
      PROVE  (StaysOut(s) /\ \E q \in Requesters : Comes(q, s)) \/ Changed(s)
  <2>1. r \in Requesters
    BY DEF Requesters
  <2>2. (StaysOut(s) /\ Comes(r, s)) \/ Changed(s)
    BY <1>2, ReadingStaysOut, CheckDeletableStaysOut, InsertSeatStaysOut, ArrangeStaysOut,
       PlaceStaysOut, UpdateSeatStaysOut, WriteCancelledStaysOut, RemoveSeatStaysOut,
       RemoveZoneStaysOut, InsertBookingStaysOut, DoorStaysOut DEF HallHandler
  <2>3. QED BY <2>1, <2>2
<1>3. CASE \E r \in Requesters : Recompute(r)
  BY <1>3, RecomputeStaysOut
<1>4. CASE \E t \in SeatIds : Progress(t) \/ CooldownOver(t)
  BY <1>4, TimeStaysOut
<1>5. CASE StartPass \/ NextSeat
  BY <1>5, PassStaysOut DEF Requesters
<1>6. QED BY <1>1, <1>2, <1>3, <1>4, <1>5 DEF HallNext

\* A seat out of service stays so until an administrator's request about it, or its zone, writes
\* (createBooking, updateSeat, recomputeSeatDbStatus).
THEOREM OutOfServiceIsKept == HallSpec => OutOfServiceStays
<1>1. ASSUME HallInv, [HallNext]_hallVars
      PROVE  [\A s \in SeatIds : OutOfService(s) /\ ~OutOfService(s)' => Changed(s)]_hallVars
  <2>1. SUFFICES ASSUME HallNext, NEW s \in SeatIds, OutOfService(s), ~OutOfService(s)', ~Changed(s)
                 PROVE  FALSE
    BY <1>1
  <2>2. PICK r \in Requesters : StaysOut(s) /\ Comes(r, s)
    BY <1>1, <2>1, StepStaysOut
  <2>3. Late(s)' = {}
    BY <1>1, <2>1, <2>2, NobodyIsLate DEF OutOfService
  <2>4. OutOfService(s)'
    BY <2>2, <2>3 DEF OutOfService, StaysOut, Exists
  <2>5. QED BY <2>1, <2>4
<1>2. QED BY <1>1, HallInductive, PTL DEF HallSpec, OutOfServiceStays
=============================================================================
