------------------------- MODULE WalletTopup_proofs -------------------------
(***************************************************************************)
(* Proofs about WalletTopup, for any payments, requests, amounts and       *)
(* bounds: a wallet grows only by what was reported paid, a settled        *)
(* payment stays settled, and, while only one request runs at a time, the  *)
(* promise of TopupPromise.  The messages the webhook gets are arbitrary.  *)
(***************************************************************************)
EXTENDS WalletTopup, TLAPS

PaymentRow == [status : Statuses, provider : Providers, known : BOOLEAN]

RequestRow == [kind : Kinds, at : Awaits \cup {"idle"}, pay : Payments]

USE DEF Asking, Senders

LEMMA IdleType == Idle \in RequestRow
BY TopupAssumption DEF Idle, RequestRow, Kinds, Asking, Awaits

\* Writing one field of a payment row changes that field of that row only.
LEMMA SetStatusType ==
    ASSUME payment \in [Payments -> PaymentRow], NEW p \in Payments,
           NEW st \in Statuses, SetStatus(p, st)
    PROVE  /\ payment' \in [Payments -> PaymentRow]
           /\ \A r \in Payments : payment'[r].provider = payment[r].provider
           /\ \A r \in Payments : r # p => payment'[r].status = payment[r].status
           /\ payment'[p].status = st
BY DEF SetStatus, PaymentRow

\* The same for the row createTopup and mockTopup insert.
LEMMA InsertType ==
    ASSUME payment \in [Payments -> PaymentRow], NEW p \in Payments,
           NEW prov \in Providers, NEW st \in Statuses, Insert(p, prov, st)
    PROVE  /\ payment' \in [Payments -> PaymentRow]
           /\ \A r \in Payments : r # p => payment'[r] = payment[r]
           /\ payment'[p].provider = prov /\ payment'[p].status = st
BY DEF Insert, PaymentRow

\* The three ways a handler writes its own slot, and no other.
LEMMA BeginType ==
    ASSUME request \in [Requests -> RequestRow], NEW q \in Requests,
           NEW k \in Kinds, NEW p \in Payments, NEW a \in Awaits, Begin(q, k, p, a)
    PROVE  /\ request' \in [Requests -> RequestRow]
           /\ \A r \in Requests : r # q => request'[r] = request[r]
           /\ request'[q].kind = k /\ request'[q].at = a /\ request'[q].pay = p
BY DEF Begin, RequestRow

LEMMA AwaitType ==
    ASSUME request \in [Requests -> RequestRow], NEW q \in Requests,
           NEW a \in Awaits, Await(q, a)
    PROVE  /\ request' \in [Requests -> RequestRow]
           /\ \A r \in Requests : r # q => request'[r] = request[r]
           /\ request'[q].kind = request[q].kind /\ request'[q].pay = request[q].pay
           /\ request'[q].at = a
BY DEF Await, RequestRow

LEMMA FinishType ==
    ASSUME request \in [Requests -> RequestRow], NEW q \in Requests, Finish(q)
    PROVE  /\ request' \in [Requests -> RequestRow]
           /\ \A r \in Requests : r # q => request'[r] = request[r]
           /\ request'[q].at = "idle" /\ request'[q].kind = "create"
<1>1. request' \in [Requests -> RequestRow]
  BY IdleType DEF Finish
<1>2. QED BY <1>1 DEF Finish, Idle

\* A request that has done its part of the crediting only waits to answer.
LEMMA ReturnType ==
    ASSUME request \in [Requests -> RequestRow], hooked \subseteq Payments,
           NEW q \in Requests, Return(q)
    PROVE  /\ request' \in [Requests -> RequestRow]
           /\ \A r \in Requests : r # q => request'[r] = request[r]
           /\ request'[q].at \in {"idle", "refresh"}
           /\ request'[q].kind \in Asking =>
                  request[q].kind \in Asking /\ request'[q].pay = request[q].pay
           /\ hooked' \subseteq Payments
<1>1. CASE request[q].kind \in Asking
  <2>1. Await(q, "refresh") BY <1>1 DEF Return
  <2>2. hooked' \subseteq Payments BY <1>1 DEF Return
  <2>3. QED BY <2>1, <2>2, AwaitType DEF Awaits
<1>2. CASE request[q].kind \notin Asking
  <2>1. Finish(q) BY <1>2 DEF Return
  <2>2. hooked' \subseteq Payments BY DEF Return, RequestRow
  <2>3. QED BY <2>1, <2>2, FinishType
<1>3. QED BY <1>1, <1>2

\* An answer only moves its screen, and only to a screen.
LEMMA AnswerType ==
    ASSUME screen \in [Payments -> Screens], polls \in [Payments -> Nat],
           NEW p \in Payments, NEW kind, NEW st, Answer(p, kind, st)
    PROVE  /\ screen' \in [Payments -> Screens] /\ polls' \in [Payments -> Nat]
           /\ \A r \in Payments :
                  screen[r] = screen'[r] \/ screen'[r] \in {"succeeded", "pending", "error"}
           /\ \A r \in Payments : r # p => screen'[r] = screen[r]
<1>1. CASE kind = "poll" BY <1>1 DEF Answer, Show, Screens, client
<1>2. CASE kind # "poll" BY <1>2 DEF Answer, Check, Screens
<1>3. QED BY <1>1, <1>2

-----------------------------------------------------------------------------

LEMMA InitInv == Init => IInv
<1> SUFFICES ASSUME Init PROVE IInv
  OBVIOUS
<1>1. request \in [Requests -> RequestRow] 
     /\ \A q \in Requests : request[q].at = "idle" /\ request[q].kind = "create"
  BY IdleType DEF Init, Idle
<1>2. TypeOK
  BY <1>1 DEF Init, TypeOK, RequestRow, Statuses, Providers, Remotes, Screens
<1>3. QED
  BY <1>1, <1>2 DEF Init, IInv, Grounded, Creating, OneCreator, NewIsUntouched, MarkedIsPaid,
                    CreditIsPaid

-----------------------------------------------------------------------------

\* A step that writes no table and leaves new screens alone keeps the
\* invariant when the requests it moves are grounded where they arrive.
LEMMA QuietStep ==
    ASSUME IInv, TypeOK', UNCHANGED <<payment, credits, remote>>,
           misled \subseteq misled', \A p \in misled' : p \in misled \/ payment[p].status # "none",
           \A p \in Payments : screen[p] = "none" <=> screen'[p] = "none",
           \A r \in Requests :
              request'[r].kind \in Asking => screen'[request'[r].pay] # "none",
           \A r \in Requests :
              \/ request'[r] = request[r]
              \/ request'[r].at \in {"idle", "fetch", "refresh"}
              \/ /\ request'[r].at \in {"complete", "mark"}
                 /\ request'[r].kind \in Asking \cup Senders
                 /\ remote[request'[r].pay] = "succeeded" \/ request'[r].pay \in misled'
              \/ /\ request'[r].at \in {"find", "credit"}
                 /\ \/ payment[request'[r].pay].status = "succeeded"
                    \/ request'[r].pay \in misled
    PROVE  IInv'
<1>1. \A r \in Requests : Creating(r)' => request'[r] = request[r]
  BY DEF Creating
<1>2. \A r \in Requests : request'[r].pay \in Payments
  BY DEF TypeOK
<1>3. \A r \in Requests : Grounded(r)'
  <2> TAKE r \in Requests
  <2>1. CASE request'[r] = request[r]
    BY <2>1, <1>2 DEF IInv, Grounded, ReportedPaid
  <2>2. CASE request'[r] # request[r]
    BY <2>2, <1>1, <1>2 DEF Grounded, Creating, ReportedPaid
  <2>3. QED BY <2>1, <2>2
<1>4. OneCreator'
  BY <1>1 DEF IInv, OneCreator, Creating
<1>5. (NewIsUntouched /\ MarkedIsPaid /\ CreditIsPaid)'
  BY DEF IInv, NewIsUntouched, MarkedIsPaid, CreditIsPaid, ReportedPaid
<1>6. QED BY <1>3, <1>4, <1>5 DEF IInv

\* TypeOK with its two kinds of rows named.
LEMMA TypeRows ==
    TypeOK <=> /\ payment \in [Payments -> PaymentRow]
               /\ remote \in [Payments -> Remotes]
               /\ hooked \subseteq Payments /\ misled \subseteq Payments
               /\ credits \in [Payments -> Nat] /\ balance \in Nat
               /\ request \in [Requests -> RequestRow]
               /\ screen \in [Payments -> Screens] /\ polls \in [Payments -> Nat]
               /\ crashes \in Nat
BY DEF TypeOK, PaymentRow, RequestRow

LEMMA TypeRowsNext ==
    TypeOK' <=> /\ payment' \in [Payments -> PaymentRow]
                /\ remote' \in [Payments -> Remotes]
                /\ hooked' \subseteq Payments /\ misled' \subseteq Payments
                /\ credits' \in [Payments -> Nat] /\ balance' \in Nat
                /\ request' \in [Requests -> RequestRow]
                /\ screen' \in [Payments -> Screens] /\ polls' \in [Payments -> Nat]
                /\ crashes' \in Nat
BY DEF TypeOK, PaymentRow, RequestRow

\* The parts of the invariant that a step which writes tables has to keep.
LEMMA TableStep ==
    ASSUME TypeOK', \A q \in Requests : Grounded(q)', OneCreator',
           NewIsUntouched', MarkedIsPaid', CreditIsPaid'
    PROVE  IInv'
BY DEF IInv

-----------------------------------------------------------------------------
(* The steps that write no table.                                          *)

LEMMA PollStatusInv ==
    ASSUME IInv, NEW q \in Requests, NEW p \in Payments, PollStatus(q, p)
    PROVE  IInv'
<1> USE TypeRows, TypeRowsNext
<1>1. UNCHANGED <<payment, credits, balance, remote, hooked, misled, crashes>>
  BY DEF PollStatus, database, outside
<1>2. \A r \in Requests : request[r].kind \in Asking =>
         request[r].pay \in Payments /\ screen[request[r].pay] # "none"
  BY DEF IInv, TypeOK, Grounded
<1>3. screen[p] # "none"
  BY DEF PollStatus
<1>4. CASE UNCHANGED request
  <2>1. screen' \in [Payments -> Screens] /\ polls' \in [Payments -> Nat]
        /\ \A r \in Payments : screen[r] = "none" <=> screen'[r] = "none"
    <3>1. CASE UNCHANGED client BY <3>1 DEF client, IInv
    <3>2. CASE \E kind \in Asking : Answer(p, kind, payment[p].status)
      BY <1>3, <3>2, AnswerType DEF IInv
    <3>3. QED BY <3>1, <3>2 DEF PollStatus
  <2>2. TypeOK' BY <1>1, <1>4, <2>1 DEF IInv
  <2>3. QED BY <1>1, <1>2, <1>4, <2>1, <2>2, QuietStep
<1>5. CASE (\E kind \in Asking : Begin(q, kind, p, "fetch")) /\ UNCHANGED client
  <2>1. /\ request' \in [Requests -> RequestRow]
        /\ \A r \in Requests : r # q => request'[r] = request[r]
        /\ request'[q].at = "fetch" /\ request'[q].pay = p
    BY <1>5, BeginType DEF IInv, Kinds, Awaits
  <2>2. UNCHANGED <<screen, polls>> BY <1>5 DEF client
  <2>3. TypeOK' BY <1>1, <2>1, <2>2 DEF IInv
  <2>4. QED BY <1>1, <1>2, <1>3, <2>1, <2>2, <2>3, QuietStep
<1>6. QED BY <1>4, <1>5 DEF PollStatus

LEMMA PollInv ==
    ASSUME IInv, NEW q \in Requests, PollFetch(q) \/ PollFail(q) \/ PollRefresh(q)
    PROVE  IInv'
<1> USE TypeRows, TypeRowsNext
<1> DEFINE p == request[q].pay
<1>1. UNCHANGED <<payment, credits, balance, remote, hooked, misled, crashes>>
  BY DEF PollFetch, PollFail, PollRefresh, database, outside
<1>2. \A r \in Requests : request[r].kind \in Asking =>
         request[r].pay \in Payments /\ screen[request[r].pay] # "none"
  BY DEF IInv, TypeOK, Grounded
<1>3. request[q].kind \in Asking /\ p \in Payments /\ screen[p] # "none"
  BY <1>2 DEF PollFetch, PollFail, PollRefresh, At
<1>4. CASE Await(q, "complete") /\ UNCHANGED client /\ remote[p] = "succeeded"
  <2>1. /\ request' \in [Requests -> RequestRow]
        /\ \A r \in Requests : r # q => request'[r] = request[r]
        /\ request'[q].at = "complete" /\ request'[q].pay = p /\ request'[q].kind \in Asking
    BY <1>3, <1>4, AwaitType DEF IInv, Awaits
  <2>2. UNCHANGED <<screen, polls>> BY <1>4 DEF client
  <2>3. TypeOK' BY <1>1, <2>1, <2>2 DEF IInv
  <2>4. QED BY <1>1, <1>2, <1>3, <1>4, <2>1, <2>2, <2>3, QuietStep DEF ReportedPaid
<1>5. CASE Finish(q)
  <2>1. /\ request' \in [Requests -> RequestRow]
        /\ \A r \in Requests : r # q => request'[r] = request[r]
        /\ request'[q].at = "idle" /\ request'[q].kind = "create"
    BY <1>5, FinishType DEF IInv
  <2>2. \/ \E kind \in Asking, st \in Statuses : Answer(p, kind, st)
        \/ screen' = [screen EXCEPT ![p] = "error"] /\ UNCHANGED polls
        \/ UNCHANGED client
    <3>1. request[q].kind \in Asking /\ payment[p].status \in Statuses /\ "pending" \in Statuses
      BY <1>3 DEF IInv, TypeOK, Statuses
    <3>2. CASE PollFetch(q) BY <1>3, <3>1, <3>2 DEF PollFetch
    <3>3. CASE PollFail(q) BY <1>3, <3>3 DEF PollFail, client
    <3>4. CASE PollRefresh(q) BY <1>3, <3>1, <3>4 DEF PollRefresh
    <3>5. QED BY <3>2, <3>3, <3>4
  <2>3. /\ screen' \in [Payments -> Screens] /\ polls' \in [Payments -> Nat]
        /\ \A r \in Payments : screen[r] = "none" <=> screen'[r] = "none"
    <3>1. CASE \E kind \in Asking, st \in Statuses : Answer(p, kind, st)
      BY <1>3, <3>1, AnswerType DEF IInv
    <3>2. CASE screen' = [screen EXCEPT ![p] = "error"] /\ UNCHANGED polls
      BY <1>3, <3>2 DEF IInv, Screens
    <3>3. CASE UNCHANGED client BY <3>3 DEF client, IInv
    <3>4. QED BY <2>2, <3>1, <3>2, <3>3
  <2>4. TypeOK' BY <1>1, <2>1, <2>3 DEF IInv
  <2>5. QED BY <1>1, <1>2, <2>1, <2>3, <2>4, QuietStep
<1>6. QED BY <1>4, <1>5 DEF PollFetch, PollFail, PollRefresh

\* Whatever a message says, the request it starts is grounded: either the
\* provider has the money or the payment is noted as misled.
LEMMA WebhookInv ==
    ASSUME IInv, NEW q \in Requests, NEW p \in Payments, NEW sender \in Senders, NEW status,
           Webhook(q, p, sender, status)
    PROVE  IInv'
<1> USE TypeRows, TypeRowsNext
<1>1. UNCHANGED <<payment, credits, balance, remote, crashes, screen, polls>>
  BY DEF Webhook, database, client
<1>2. \A r \in Requests : request[r].kind \in Asking =>
         request[r].pay \in Payments /\ screen[request[r].pay] # "none"
  BY DEF IInv, TypeOK, Grounded
<1>3. CASE UNCHANGED <<request, misled>>
  <2>1. hooked' \subseteq Payments BY <1>3 DEF Webhook, IInv
  <2>2. TypeOK' BY <1>1, <1>3, <2>1 DEF IInv
  <2>3. QED BY <1>1, <1>2, <1>3, <2>2, QuietStep
<1>4. CASE /\ Begin(q, sender, p, "complete") /\ UNCHANGED hooked
           /\ payment[p].status # "none"
           /\ misled' = IF remote[p] = "succeeded" THEN misled ELSE misled \cup {p}
  <2>1. /\ request' \in [Requests -> RequestRow]
        /\ \A r \in Requests : r # q => request'[r] = request[r]
        /\ request'[q].at = "complete" /\ request'[q].pay = p /\ request'[q].kind = sender
    BY <1>4, BeginType DEF IInv, Kinds, Awaits
  <2>2. /\ misled \subseteq misled' /\ misled' \subseteq Payments
        /\ \A r \in misled' : r \in misled \/ payment[r].status # "none"
        /\ ReportedPaid(p)'
    BY <1>1, <1>4 DEF IInv, ReportedPaid
  <2>3. TypeOK' BY <1>1, <1>4, <2>1, <2>2 DEF IInv
  <2>4. sender \notin Asking BY DEF Senders, Asking
  <2>5. QED BY <1>1, <1>2, <2>1, <2>2, <2>3, <2>4, QuietStep DEF ReportedPaid
<1>5. QED BY <1>3, <1>4 DEF Webhook

\* completePayment's first look, and creditWallet's look for the row.
LEMMA LookInv ==
    ASSUME IInv, NEW q \in Requests, CompletePayment(q) \/ FindCredit(q)
    PROVE  IInv'
<1> USE TypeRows, TypeRowsNext
<1>1. UNCHANGED <<payment, credits, balance, remote, misled, crashes, screen, polls>>
  BY DEF CompletePayment, FindCredit, database, client
<1>2. \A r \in Requests : request[r].kind \in Asking =>
         request[r].pay \in Payments /\ screen[request[r].pay] # "none"
  BY DEF IInv, TypeOK, Grounded
<1>3. CASE Return(q)
  <2>1. /\ request' \in [Requests -> RequestRow] /\ hooked' \subseteq Payments
        /\ \A r \in Requests : r # q => request'[r] = request[r]
        /\ request'[q].at \in {"idle", "refresh"}
        /\ request'[q].kind \in Asking =>
               request[q].kind \in Asking /\ request'[q].pay = request[q].pay
    BY <1>3, ReturnType DEF IInv
  <2>2. TypeOK' BY <1>1, <2>1 DEF IInv
  <2>3. QED BY <1>1, <1>2, <2>1, <2>2, QuietStep
<1>4. CASE CompletePayment(q) /\ Await(q, "mark") /\ UNCHANGED hooked
  <2>1. /\ request' \in [Requests -> RequestRow]
        /\ \A r \in Requests : r # q => request'[r] = request[r]
        /\ request'[q].at = "mark" /\ request'[q].kind = request[q].kind
        /\ request'[q].pay = request[q].pay
    BY <1>4, AwaitType DEF IInv, Awaits
  <2>2. request[q].kind \in Asking \cup Senders /\ ReportedPaid(request[q].pay)
    BY <1>4 DEF CompletePayment, At, IInv, Grounded
  <2>3. TypeOK' BY <1>1, <1>4, <2>1 DEF IInv
  <2>4. QED BY <1>1, <1>2, <2>1, <2>2, <2>3, QuietStep DEF ReportedPaid
<1>5. CASE FindCredit(q) /\ Await(q, "credit") /\ UNCHANGED hooked
  <2>1. /\ request' \in [Requests -> RequestRow]
        /\ \A r \in Requests : r # q => request'[r] = request[r]
        /\ request'[q].at = "credit" /\ request'[q].kind = request[q].kind
        /\ request'[q].pay = request[q].pay
    BY <1>5, AwaitType DEF IInv, Awaits
  <2>2. payment[request[q].pay].status = "succeeded" \/ request[q].pay \in misled
    BY <1>5 DEF FindCredit, IInv, Grounded
  <2>3. TypeOK' BY <1>1, <1>5, <2>1 DEF IInv
  <2>4. QED BY <1>1, <1>2, <2>1, <2>2, <2>3, QuietStep
<1>6. QED BY <1>3, <1>4, <1>5 DEF CompletePayment, FindCredit

LEMMA ReturnToAppInv ==
    ASSUME IInv, NEW p \in Payments, ReturnToApp(p)
    PROVE  IInv'
<1>1. UNCHANGED <<payment, credits, balance, remote, hooked, misled, crashes, request, polls>>
  BY DEF ReturnToApp, database, outside
<1>2. /\ screen' \in [Payments -> Screens]
      /\ \A r \in Payments : screen[r] = "none" <=> screen'[r] = "none"
  BY DEF ReturnToApp, IInv, TypeOK, Screens
<1>3. TypeOK'
  BY <1>1, <1>2, TypeRows, TypeRowsNext DEF IInv
<1>4. \A r \in Requests : request[r].kind \in Asking =>
         request[r].pay \in Payments /\ screen[request[r].pay] # "none"
  BY DEF IInv, TypeOK, Grounded
<1>5. QED BY <1>1, <1>2, <1>3, <1>4, QuietStep

\* A restart forgets every request and closes the screens that were polling.
LEMMA CrashInv ==
    ASSUME IInv, Crash
    PROVE  IInv'
<1>1. UNCHANGED <<payment, credits, balance, remote, hooked, misled, polls>>
  BY DEF Crash, database
<1>2. /\ request' \in [Requests -> RequestRow]
      /\ \A r \in Requests : request'[r].at = "idle" /\ request'[r].kind = "create"
  BY IdleType DEF Crash, Idle
<1>3. \A p \in Payments : Waiting(p, "poll") => screen[p] # "none"
  BY DEF Waiting, IInv, Grounded
<1>4. /\ screen' \in [Payments -> Screens]
      /\ \A r \in Payments : screen[r] = "none" <=> screen'[r] = "none"
  BY <1>3 DEF Crash, IInv, TypeOK, Screens
<1>5. crashes' \in Nat
  BY DEF Crash, IInv, TypeOK
<1>6. TypeOK'
  BY <1>1, <1>2, <1>4, <1>5, TypeRows, TypeRowsNext DEF IInv
<1>7. QED BY <1>1, <1>2, <1>4, <1>6, QuietStep

-----------------------------------------------------------------------------
(* The steps that write a table.                                           *)

\* createTopup and mockTopup take a payment that nobody has touched, so no
\* request in flight knows anything of it that the insert could spoil.
LEMMA InsertInv ==
    ASSUME IInv, NEW q \in Requests, NEW p \in Payments, CreateTopup(q, p) \/ MockTopup(q, p)
    PROVE  IInv'
<1> USE TypeRows, TypeRowsNext
<1>1. UNCHANGED <<credits, balance, remote, hooked, misled, crashes, screen, polls>>
  BY DEF CreateTopup, MockTopup, outside, client
<1>2. payment[p].status = "none" /\ remote[p] = "none" /\ screen[p] = "none"
      /\ p \notin misled
  BY DEF CreateTopup, MockTopup, IInv, NewIsUntouched
<1>3. \A r \in Requests : r # q => request'[r] = request[r]
  BY BeginType DEF CreateTopup, MockTopup, IInv, Kinds, Awaits
<1>4. /\ payment' \in [Payments -> PaymentRow]
      /\ \A r \in Payments : r # p => payment'[r] = payment[r]
      /\ request' \in [Requests -> RequestRow] /\ request'[q].pay = p
      /\ \/ /\ payment'[p].status = "pending" /\ payment'[p].provider = "yookassa"
            /\ request'[q].at = "ask" /\ request'[q].kind = "create"
         \/ /\ payment'[p].status = "succeeded" /\ payment'[p].provider = "mock"
            /\ request'[q].at = "find" /\ request'[q].kind = "mock"
  <2>1. CASE CreateTopup(q, p)
    BY <2>1, BeginType, InsertType DEF CreateTopup, IInv, Kinds, Awaits, Providers, Statuses
  <2>2. CASE MockTopup(q, p)
    BY <2>2, BeginType, InsertType DEF MockTopup, IInv, Kinds, Awaits, Providers, Statuses
  <2>3. QED BY <2>1, <2>2
<1>5. TypeOK'
  BY <1>1, <1>4 DEF IInv
<1>6. \A r \in Requests : r # q /\ request[r].pay = p =>
         ~Creating(r) /\ request[r].at \notin {"complete", "mark", "find", "credit"}
  BY <1>2 DEF IInv, Grounded, Creating, ReportedPaid
<1>7. \A r \in Requests : Grounded(r)'
  <2> TAKE r \in Requests
  <2>1. CASE r = q BY <1>1, <1>2, <1>4, <2>1 DEF Grounded, ReportedPaid
  <2>2. CASE r # q /\ request[r].pay = p
    BY <1>1, <1>3, <1>6, <2>2 DEF Grounded, Creating, IInv
  <2>3. CASE r # q /\ request[r].pay # p
    BY <1>1, <1>3, <1>4, <2>3 DEF Grounded, IInv, TypeOK, ReportedPaid
  <2>4. QED BY <2>1, <2>2, <2>3
<1>8. OneCreator'
  <2>1. \A r \in Requests : r # q /\ Creating(r)' => Creating(r) /\ request'[r].pay # p
    BY <1>3, <1>6 DEF Creating
  <2>2. QED BY <1>3, <1>4, <2>1 DEF OneCreator, Creating, IInv
<1>9. NewIsUntouched' /\ MarkedIsPaid' /\ CreditIsPaid'
  BY <1>1, <1>2, <1>4 DEF IInv, NewIsUntouched, MarkedIsPaid, CreditIsPaid, ReportedPaid
<1>10. QED BY <1>5, <1>7, <1>8, <1>9, TableStep

\* The provider only gets ahead of what requests know: a payment nobody is
\* creating is paid, or one that is not paid is cancelled.
LEMMA ProviderInv ==
    ASSUME IInv, NEW p \in Payments, PlayerPays(p) \/ ProviderCancels(p)
    PROVE  IInv'
<1>1. UNCHANGED <<payment, credits, balance, hooked, misled, crashes, request, screen, polls>>
  BY DEF PlayerPays, ProviderCancels, database, client
<1>2. /\ remote[p] = "pending"
      /\ remote' \in [Payments -> Remotes]
      /\ \A r \in Payments : r # p => remote'[r] = remote[r]
      /\ remote'[p] = "succeeded" => screen[p] = "paying"
      /\ remote'[p] \in {"succeeded", "canceled"}
  BY DEF PlayerPays, ProviderCancels, IInv, TypeOK, Remotes
<1>3. TypeOK'
  BY <1>1, <1>2, TypeRows, TypeRowsNext DEF IInv
<1>4. \A r \in Requests : Grounded(r)'
  BY <1>1, <1>2 DEF IInv, TypeOK, Grounded, ReportedPaid
<1>5. OneCreator' /\ NewIsUntouched' /\ MarkedIsPaid' /\ CreditIsPaid'
  BY <1>1, <1>2 DEF IInv, OneCreator, Creating, NewIsUntouched, MarkedIsPaid, CreditIsPaid,
                        ReportedPaid
<1>6. QED BY <1>3, <1>4, <1>5, TableStep

\* The three later steps of createTopup work on a payment of their own.
LEMMA CreateInv ==
    ASSUME IInv, NEW q \in Requests, CreateAsk(q) \/ CreateFail(q) \/ CreateSave(q)
    PROVE  IInv'
<1> USE TypeRows, TypeRowsNext
<1> DEFINE p == request[q].pay
<1>1. UNCHANGED <<credits, balance, hooked, misled, crashes, polls>>
  BY DEF CreateAsk, CreateFail, CreateSave, database, outside, client
<1>2. /\ p \in Payments /\ Creating(q)
      /\ payment[p].status # "none" /\ payment[p].provider = "yookassa"
      /\ screen[p] = "none" /\ remote[p] # "succeeded"
  BY DEF CreateAsk, CreateFail, CreateSave, At, Creating, IInv, Grounded, TypeOK
<1>3. /\ request' \in [Requests -> RequestRow]
      /\ \A r \in Requests : r # q => request'[r] = request[r]
      /\ \/ /\ request'[q].at = "idle" /\ request'[q].kind = "create"
            /\ UNCHANGED remote
         \/ /\ request'[q].at \in {"save", "fail"} /\ request'[q].kind = request[q].kind
            /\ request'[q].pay = p /\ UNCHANGED <<payment, screen>>
  <2>1. CASE CreateAsk(q)
    <3>1. Await(q, "save") \/ Await(q, "fail") BY <2>1 DEF CreateAsk
    <3>2. UNCHANGED <<payment, screen>> BY <2>1 DEF CreateAsk, database, client
    <3>3. QED BY <3>1, <3>2, AwaitType DEF IInv, Awaits
  <2>2. CASE CreateFail(q) \/ CreateSave(q)
    BY <2>2, FinishType DEF CreateFail, CreateSave, IInv, outside
  <2>3. QED BY <2>1, <2>2
<1>4. /\ remote' \in [Payments -> Remotes]
      /\ \A r \in Payments : remote'[r] = remote[r] \/ (r = p /\ remote'[r] = "pending")
  BY <1>2 DEF CreateAsk, CreateFail, CreateSave, outside, IInv, Remotes
<1>5. /\ payment' \in [Payments -> PaymentRow]
      /\ \A r \in Payments : payment'[r].provider = payment[r].provider
      /\ \A r \in Payments : r # p => payment'[r].status = payment[r].status
      /\ payment'[p].status \in {payment[p].status, "failed"}
  <2>1. CASE CreateAsk(q) BY <1>2, <2>1 DEF CreateAsk, database, IInv
  <2>2. CASE CreateFail(q)
    BY <1>2, <2>2, SetStatusType DEF CreateFail, IInv, Statuses
  <2>3. CASE CreateSave(q)
    <3> DEFINE new == [payment[p] EXCEPT !.known = TRUE]
    <3>1. new \in PaymentRow /\ new.status = payment[p].status
          /\ new.provider = payment[p].provider
      BY <1>2 DEF IInv, PaymentRow
    <3>2. payment' = [payment EXCEPT ![p] = new]
      BY <2>3 DEF CreateSave
    <3> HIDE DEF new
    <3>3. QED BY <1>2, <3>1, <3>2 DEF IInv
  <2>4. QED BY <2>1, <2>2, <2>3
<1>6. /\ screen' \in [Payments -> Screens]
      /\ \A r \in Payments : r # p => screen'[r] = screen[r]
  BY <1>2 DEF CreateAsk, CreateFail, CreateSave, OpenPage, client, IInv, Screens
<1>7. TypeOK'
  BY <1>1, <1>3, <1>4, <1>5, <1>6 DEF IInv
<1>8. \A r \in Requests : r # q /\ request[r].pay = p =>
         /\ ~Creating(r) /\ request[r].kind \notin Asking
         /\ request[r].at \in {"complete", "mark", "find", "credit"} => p \in misled
  BY <1>2 DEF IInv, Grounded, Creating, OneCreator, MarkedIsPaid, ReportedPaid
<1>9. \A r \in Requests : Grounded(r)'
  <2> TAKE r \in Requests
  <2>0. request[r].pay \in Payments BY DEF IInv, TypeOK
  <2>1. CASE r = q
    <3>1. CASE request'[q].at = "idle" BY <1>3, <2>1, <3>1 DEF Grounded
    <3>2. CASE request'[q].at # "idle"
      BY <1>2, <1>3, <1>4, <2>1, <3>2 DEF Grounded, IInv, Creating
    <3>3. QED BY <3>1, <3>2
  <2>2. CASE r # q /\ request[r].pay = p 
    <3>1. request'[r] = request[r] BY <1>3, <2>2
    <3>2. request[r].at \in {"complete", "mark"} => request[r].kind \in Asking \cup Senders
      BY DEF IInv, Grounded
    <3>3. QED BY <1>1, <1>8, <2>2, <3>1, <3>2 DEF Grounded, Creating, ReportedPaid
  <2>3. CASE r # q /\ request[r].pay # p
    BY <1>1, <1>3, <1>4, <1>5, <1>6, <2>0, <2>3 DEF Grounded, IInv, ReportedPaid
  <2>4. QED BY <2>1, <2>2, <2>3
<1>10. OneCreator'
  BY <1>2, <1>3 DEF IInv, OneCreator, Creating
<1>11. NewIsUntouched' /\ MarkedIsPaid' /\ CreditIsPaid'
  BY <1>1, <1>2, <1>4, <1>5, <1>6
  DEF IInv, NewIsUntouched, MarkedIsPaid, CreditIsPaid, ReportedPaid
<1>12. QED BY <1>7, <1>9, <1>10, <1>11, TableStep

LEMMA MarkInv ==
    ASSUME IInv, NEW q \in Requests, MarkSucceeded(q)
    PROVE  IInv'
<1> USE TypeRows, TypeRowsNext
<1> DEFINE p == request[q].pay
<1>1. UNCHANGED <<credits, balance, remote, hooked, misled, crashes, screen, polls>>
  BY DEF MarkSucceeded, outside, client
<1>2. p \in Payments /\ ReportedPaid(p) /\ (request[q].kind \in Asking => screen[p] # "none")
  BY DEF MarkSucceeded, At, IInv, Grounded, TypeOK
<1>3. /\ payment' \in [Payments -> PaymentRow]
      /\ \A r \in Payments : payment'[r].provider = payment[r].provider
      /\ \A r \in Payments : r # p => payment'[r].status = payment[r].status
      /\ payment'[p].status = "succeeded"
  BY <1>2, SetStatusType DEF MarkSucceeded, IInv, Statuses
<1>4. /\ request' \in [Requests -> RequestRow]
      /\ \A r \in Requests : r # q => request'[r] = request[r]
      /\ request'[q].at = "find" /\ request'[q].pay = p /\ request'[q].kind = request[q].kind
  BY AwaitType DEF MarkSucceeded, IInv, Awaits
<1>5. TypeOK'
  BY <1>1, <1>3, <1>4 DEF IInv
<1>6. \A r \in Requests : Grounded(r)'
  <2> TAKE r \in Requests
  <2>1. CASE r = q BY <1>1, <1>2, <1>3, <1>4, <2>1 DEF Grounded
  <2>2. CASE r # q
    <3>1. /\ request'[r] = request[r] /\ Grounded(r) /\ request[r].pay \in Payments
      BY <1>4, <2>2 DEF IInv, RequestRow
    <3>2. /\ payment'[request[r].pay].provider = payment[request[r].pay].provider
          /\ payment'[request[r].pay].status \in {payment[request[r].pay].status, "succeeded"}
      BY <1>3, <3>1
    <3>3. QED BY <1>1, <3>1, <3>2 DEF Grounded, ReportedPaid
  <2>3. QED BY <2>1, <2>2
<1>7. OneCreator'
  BY <1>4 DEF IInv, OneCreator, Creating
<1>8. NewIsUntouched' /\ MarkedIsPaid' /\ CreditIsPaid'
  BY <1>1, <1>2, <1>3 DEF IInv, NewIsUntouched, MarkedIsPaid, CreditIsPaid, ReportedPaid
<1>9. QED BY <1>5, <1>6, <1>7, <1>8, TableStep

LEMMA CreditInv ==
    ASSUME IInv, NEW q \in Requests, CreditWallet(q)
    PROVE  IInv'
<1> USE TypeRows, TypeRowsNext
<1> DEFINE p == request[q].pay
<1>1. UNCHANGED <<payment, remote, misled, crashes, screen, polls>>
  BY DEF CreditWallet, client
<1>2. p \in Payments /\ payment[p].status # "none"
      /\ (payment[p].status = "succeeded" \/ p \in misled)
  BY DEF CreditWallet, IInv, Grounded, TypeOK, NewIsUntouched
<1>3. /\ credits' \in [Payments -> Nat] /\ balance' \in Nat
      /\ \A r \in Payments : r # p => credits'[r] = credits[r]
  BY <1>2, TopupAssumption DEF CreditWallet, IInv
<1>4. /\ request' \in [Requests -> RequestRow] /\ hooked' \subseteq Payments
      /\ \A r \in Requests : r # q => request'[r] = request[r]
      /\ request'[q].at \in {"idle", "refresh"}
      /\ request'[q].kind \in Asking => request[q].kind \in Asking /\ request'[q].pay = p
  BY ReturnType DEF CreditWallet, IInv
<1>5. TypeOK'
  BY <1>1, <1>3, <1>4 DEF IInv
<1>6. \A r \in Requests : Grounded(r)'
  BY <1>1, <1>4 DEF IInv, Grounded, ReportedPaid
<1>7. OneCreator'
  BY <1>4 DEF IInv, OneCreator, Creating
<1>8. NewIsUntouched' /\ MarkedIsPaid' /\ CreditIsPaid'
  BY <1>1, <1>2, <1>3 DEF IInv, NewIsUntouched, MarkedIsPaid, CreditIsPaid, ReportedPaid
<1>9. QED BY <1>5, <1>6, <1>7, <1>8, TableStep

-----------------------------------------------------------------------------
(* The theorems.                                                           *)

LEMMA NextInv == IInv /\ [Next]_vars => IInv'
<1> SUFFICES ASSUME IInv, [Next]_vars PROVE IInv'
  OBVIOUS
<1>1. ASSUME NEW q \in Requests, Handle(q) PROVE IInv'
  BY <1>1, CreateInv, PollInv, LookInv, MarkInv, CreditInv DEF Handle
<1>2. ASSUME NEW q \in Requests, NEW p \in Payments,
             \/ CreateTopup(q, p) \/ MockTopup(q, p) \/ PollStatus(q, p)
             \/ ProviderNotifies(q, p) \/ MessageArrives(q, p)
      PROVE  IInv'
  BY <1>2, InsertInv, PollStatusInv, WebhookInv DEF ProviderNotifies, MessageArrives
<1>3. ASSUME NEW p \in Payments, PlayerPays(p) \/ ProviderCancels(p) \/ ReturnToApp(p)
      PROVE  IInv'
  BY <1>3, ProviderInv, ReturnToAppInv
<1>4. CASE Crash
  BY <1>4, CrashInv
<1>5. CASE UNCHANGED vars
  BY <1>5 DEF vars, IInv, TypeOK, Grounded, OneCreator, Creating, NewIsUntouched, MarkedIsPaid,
              CreditIsPaid, ReportedPaid
<1>6. QED BY <1>1, <1>2, <1>3, <1>4, <1>5 DEF Next

\* Every request in flight stays grounded, whatever requests overlap and
\* whenever the API restarts.
THEOREM Inductive == Spec => []IInv
<1>1. QED BY InitInv, NextInv, PTL DEF Spec

\* completePayment and creditWallet add to a wallet only a test top-up, a payment
\* the provider has taken and the row shows as paid, or one that a message to the
\* webhook called paid too early - however calls overlap and messages err.
THEOREM CreditsWhatIsReported == Spec => []CreditIsPaid
<1>1. IInv => CreditIsPaid
  BY DEF IInv
<1>2. QED BY <1>1, Inductive, PTL

\* While nobody is completing a marked payment, no step starts to, writes its
\* row again or credits it.
LEMMA SettledStep ==
    ASSUME IInv, Next, NEW p \in Payments, Settled(p)
    PROVE  Settled(p)' /\ credits'[p] = credits[p]
<1>1. payment[p].status = "succeeded"
  BY DEF Settled
<1>2. \A q \in Requests : request[q].pay = p =>
         ~Creating(q) /\ request[q].at \notin {"mark", "find", "credit"}
  BY DEF Settled, InFlight
<1>3. \A q \in Requests : request[q].pay \in Payments /\ (request[q].pay = p => ~Creating(q))
  BY <1>2 DEF IInv, TypeOK
<1> DEFINE Kept == /\ payment'[p].status = "succeeded" /\ credits'[p] = credits[p]
                   /\ \A q \in Requests : request'[q].pay = p =>
                         request'[q].at \notin {"ask", "save", "fail", "mark", "find", "credit"}
<1>4. Kept => Settled(p)' /\ credits'[p] = credits[p]
  BY DEF Settled, InFlight, Creating
<1> USE TypeRows DEF Creating
<1>5. ASSUME NEW q \in Requests, CompletePayment(q) \/ FindCredit(q) PROVE Kept
  <2>1. UNCHANGED <<payment, credits>> BY <1>5 DEF CompletePayment, FindCredit, database
  <2>2. CASE Return(q) BY <1>1, <1>2, <2>1, <2>2, ReturnType DEF IInv
  <2>3. CASE CompletePayment(q) /\ request[q].pay # p /\ Await(q, "mark")
    BY <1>1, <1>2, <2>1, <2>3, AwaitType DEF IInv, Awaits
  <2>4. CASE FindCredit(q) /\ request[q].pay # p /\ Await(q, "credit")
    BY <1>1, <1>2, <2>1, <2>4, AwaitType DEF IInv, Awaits
  <2>5. QED BY <1>1, <1>2, <1>5, <2>2, <2>3, <2>4 DEF CompletePayment, FindCredit
<1>6. ASSUME NEW q \in Requests, MarkSucceeded(q) PROVE Kept
  <2>1. request[q].pay # p /\ UNCHANGED credits
    BY <1>2, <1>6 DEF MarkSucceeded, At
  <2>2. payment'[p].status = "succeeded"
    BY <1>1, <1>3, <1>6, <2>1, SetStatusType DEF MarkSucceeded, IInv, Statuses
  <2>3. QED BY <1>2, <1>6, <2>1, <2>2, AwaitType DEF MarkSucceeded, IInv, Awaits
<1>7. ASSUME NEW q \in Requests, CreditWallet(q) PROVE Kept
  <2>1. request[q].pay # p /\ UNCHANGED payment
    BY <1>2, <1>7 DEF CreditWallet
  <2>2. credits'[p] = credits[p]
    BY <1>3, <1>7, <2>1 DEF CreditWallet, IInv
  <2>3. QED BY <1>1, <1>2, <1>7, <2>1, <2>2, ReturnType DEF CreditWallet, IInv
<1>8. ASSUME NEW q \in Requests, CreateAsk(q) \/ CreateFail(q) \/ CreateSave(q) PROVE Kept
  <2>1. request[q].pay # p /\ UNCHANGED credits
    BY <1>3, <1>8 DEF CreateAsk, CreateFail, CreateSave, At, Creating, database
  <2>2. payment'[p].status = "succeeded"
    <3>1. CASE CreateAsk(q) BY <1>1, <3>1 DEF CreateAsk, database
    <3>2. CASE CreateFail(q)
      BY <1>1, <1>3, <2>1, <3>2, SetStatusType DEF CreateFail, IInv, Statuses
    <3>3. CASE CreateSave(q)
      BY <1>1, <1>3, <2>1, <3>3 DEF CreateSave, IInv
    <3>4. QED BY <1>8, <3>1, <3>2, <3>3
  <2>3. QED
    BY <1>2, <1>8, <2>1, <2>2, AwaitType, FinishType
    DEF CreateAsk, CreateFail, CreateSave, IInv, Awaits
<1>9. ASSUME NEW q \in Requests, PollFetch(q) \/ PollFail(q) \/ PollRefresh(q) PROVE Kept
  BY <1>1, <1>2, <1>9, AwaitType, FinishType
  DEF PollFetch, PollFail, PollRefresh, database, IInv, Awaits
<1>10. ASSUME NEW q \in Requests, NEW r \in Payments, CreateTopup(q, r) \/ MockTopup(q, r)
       PROVE  Kept
  <2>1. r # p /\ UNCHANGED credits
    BY <1>1, <1>10 DEF CreateTopup, MockTopup
  <2>2. payment'[p].status = "succeeded"
    BY <1>1, <1>10, <2>1, InsertType DEF CreateTopup, MockTopup, IInv, Providers, Statuses
  <2>3. QED
    BY <1>2, <1>10, <2>1, <2>2, BeginType DEF CreateTopup, MockTopup, IInv, Kinds, Awaits
<1>11. ASSUME NEW q \in Requests, NEW r \in Payments, NEW sender \in Senders, NEW status,
             PollStatus(q, r) \/ Webhook(q, r, sender, status)
       PROVE  Kept
  <2>1. UNCHANGED <<payment, credits>> BY <1>11 DEF PollStatus, Webhook, database
  <2>2. CASE UNCHANGED request BY <1>1, <1>2, <2>1, <2>2
  <2>3. CASE (\E kind \in Asking : Begin(q, kind, r, "fetch")) \/ Begin(q, sender, r, "complete")
    BY <1>1, <1>2, <2>1, <2>3, BeginType DEF IInv, Kinds, Awaits
  <2>4. QED BY <1>11, <2>2, <2>3 DEF PollStatus, Webhook
<1>12. ASSUME NEW r \in Payments, PlayerPays(r) \/ ProviderCancels(r) \/ ReturnToApp(r)
       PROVE  Kept
  BY <1>1, <1>2, <1>12 DEF PlayerPays, ProviderCancels, ReturnToApp, database
<1>13. ASSUME Crash PROVE Kept
  BY <1>1, <1>13 DEF Crash, database, Idle
<1> HIDE DEF Kept
<1>14. ASSUME NEW q \in Requests, NEW r \in Payments,
              PollStatus(q, r) \/ ProviderNotifies(q, r) \/ MessageArrives(q, r)
       PROVE  Kept
  BY <1>11, <1>14 DEF ProviderNotifies, MessageArrives
<1>15. QED
  BY <1>4, <1>5, <1>6, <1>7, <1>8, <1>9, <1>10, <1>12, <1>13, <1>14 DEF Next, Handle

\* A late webhook, poll or restart is harmless: a payment that is marked and
\* that nobody is completing is never credited again.
THEOREM LateAnswersAreHarmless == Spec => SettledIsFinal
<1>1. IInv /\ [Next]_vars =>
         [\A p \in Payments : Settled(p) => Settled(p)' /\ credits'[p] = credits[p]]_vars
  BY SettledStep
<1>2. QED BY <1>1, Inductive, PTL DEF Spec, SettledIsFinal

-----------------------------------------------------------------------------
(* One request at a time.                                                  *)

\* A request that is about to credit has just found no Transaction row, and
\* there is no other request to write one in between.
FreshCredit == \A q \in Requests : request[q].at = "credit" => credits[request[q].pay] = 0

LEMMA FreshStep ==
    ASSUME IInv, [Next]_vars, FreshCredit, \A q, r \in Requests : q = r
    PROVE  FreshCredit'
<1> SUFFICES ASSUME NEW q \in Requests, request'[q].at = "credit"
             PROVE  credits'[request'[q].pay] = 0
  BY DEF FreshCredit
<1> USE TypeRows DEF IInv
<1>1. CASE UNCHANGED vars
  BY <1>1 DEF vars, FreshCredit
<1>2. CASE Handle(q)
  <2>1. CASE FindCredit(q)
    <3>1. UNCHANGED credits BY <2>1 DEF FindCredit, database
    <3>2. CASE Return(q) BY <3>2, ReturnType
    <3>3. CASE Await(q, "credit") /\ ~(credits[request[q].pay] > 0)
      <4>1. request'[q].pay = request[q].pay BY <3>3, AwaitType DEF Awaits
      <4>2. QED BY <3>1, <3>3, <4>1 DEF RequestRow
    <3>4. QED BY <2>1, <3>2, <3>3 DEF FindCredit
  <2>2. CASE CompletePayment(q) \/ CreditWallet(q) \/ MarkSucceeded(q)
    <3>1. CASE Return(q) BY <3>1, ReturnType
    <3>2. CASE Await(q, "mark") \/ Await(q, "find") BY <3>2, AwaitType DEF Awaits
    <3>3. QED BY <2>2, <3>1, <3>2 DEF CompletePayment, CreditWallet, MarkSucceeded
  <2>3. CASE CreateAsk(q) \/ CreateFail(q) \/ CreateSave(q)
             \/ PollFetch(q) \/ PollFail(q) \/ PollRefresh(q)
    BY <2>3, AwaitType, FinishType
    DEF CreateAsk, CreateFail, CreateSave, PollFetch, PollFail, PollRefresh, Awaits
  <2>4. QED BY <1>2, <2>1, <2>2, <2>3 DEF Handle
<1>3. ASSUME NEW p \in Payments,
             \/ CreateTopup(q, p) \/ MockTopup(q, p) \/ PollStatus(q, p)
             \/ ProviderNotifies(q, p) \/ MessageArrives(q, p)
      PROVE  credits'[request'[q].pay] = 0
  <2>1. UNCHANGED credits
    BY <1>3 DEF CreateTopup, MockTopup, PollStatus, ProviderNotifies, MessageArrives, Webhook,
        database
  <2>2. UNCHANGED request \/ request'[q].at # "credit"
    BY <1>3, BeginType 
    DEF CreateTopup, MockTopup, PollStatus, ProviderNotifies, MessageArrives, Webhook, Kinds, Awaits
  <2>3. QED BY <2>1, <2>2 DEF FreshCredit
<1>4. ASSUME NEW p \in Payments, PlayerPays(p) \/ ProviderCancels(p) \/ ReturnToApp(p)
      PROVE  credits'[request'[q].pay] = 0
  BY <1>4 DEF PlayerPays, ProviderCancels, ReturnToApp, database, FreshCredit
<1>5. CASE Crash
  BY <1>5 DEF Crash, Idle
<1>6. QED BY <1>1, <1>2, <1>3, <1>4, <1>5 DEF Next

PaidFor == {p \in Payments : \/ ReportedPaid(p)
                             \/ /\ payment[p].provider = "mock"
                                /\ payment[p].status = "succeeded"}

\* Each step is a step of TopupPromise, or none at all.
LEMMA PromiseStep ==
    ASSUME IInv, [Next]_vars, FreshCredit
    PROVE  [Promise!Next]_Promise!vars
<1> USE TypeRows DEF IInv
<1> DEFINE Paid(p) == p \in Payments /\ PaidFor' = PaidFor \cup {p} /\ UNCHANGED credits
           Still == PaidFor' = PaidFor /\ UNCHANGED credits
<1>1. (\E p \in Payments : Paid(p)) \/ Still => [Promise!Next]_Promise!vars
  <2>1. ASSUME NEW p \in Payments, Paid(p), p \notin PaidFor PROVE Promise!Next
    BY <2>1 DEF Promise!Next, Promise!Pay, PaidFor
  <2>2. ASSUME NEW p \in Payments, Paid(p), p \in PaidFor PROVE Still
    BY <2>2
  <2>3. Still => UNCHANGED Promise!vars
    BY DEF Promise!vars, PaidFor
  <2> HIDE DEF Paid, Still
  <2>4. QED BY <2>1, <2>2, <2>3
<1>2. CASE UNCHANGED vars
  BY <1>1, <1>2 DEF vars, PaidFor, ReportedPaid
<1>3. ASSUME NEW q \in Requests, CreditWallet(q) PROVE Promise!Next
  <2> DEFINE p == request[q].pay
  <2>1. p \in Payments /\ credits[p] = 0 /\ (payment[p].status = "succeeded" \/ p \in misled)
    BY <1>3 DEF CreditWallet, Grounded, FreshCredit, RequestRow
  <2>2. p \in PaidFor BY <2>1 DEF PaidFor, MarkedIsPaid, ReportedPaid
  <2>3. credits' = [credits EXCEPT ![p] = 1] /\ PaidFor' = PaidFor
    BY <1>3, <2>1 DEF CreditWallet, PaidFor, ReportedPaid
  <2>4. QED BY <2>1, <2>2, <2>3 DEF Promise!Next, Promise!Credit, PaidFor
<1>4. ASSUME NEW q \in Requests, Handle(q), ~CreditWallet(q) PROVE Still
  <2> DEFINE p == request[q].pay
  <2>0. p \in Payments BY DEF RequestRow
  <2>1. CASE CreateAsk(q)
    <3>1. /\ UNCHANGED <<payment, credits, misled>>
          /\ \A r \in Payments : remote'[r] = "succeeded" <=> remote[r] = "succeeded"
      BY <2>0, <2>1 DEF CreateAsk, At, Grounded, database
    <3>2. QED BY <3>1 DEF PaidFor, ReportedPaid
  <2>2. CASE CreateFail(q)
    <3>1. /\ UNCHANGED <<remote, credits, misled>>
          /\ payment[p].provider = "yookassa"
          /\ \A r \in Payments : payment'[r].provider = payment[r].provider
          /\ \A r \in Payments : r # p => payment'[r].status = payment[r].status
      BY <2>0, <2>2, SetStatusType DEF CreateFail, At, Grounded, outside, Statuses
    <3>2. QED BY <3>1 DEF PaidFor, ReportedPaid
  <2>3. CASE CreateSave(q)
    <3>1. /\ UNCHANGED <<remote, credits, misled>>
          /\ \A r \in Payments : payment'[r].provider = payment[r].provider
                                 /\ payment'[r].status = payment[r].status
      BY <2>0, <2>3 DEF CreateSave, outside, PaymentRow
    <3>2. QED BY <3>1 DEF PaidFor, ReportedPaid
  <2>4. CASE MarkSucceeded(q)
    <3>1. /\ UNCHANGED <<remote, credits, misled>> /\ ReportedPaid(p)
          /\ \A r \in Payments : payment'[r].provider = payment[r].provider
          /\ \A r \in Payments : r # p => payment'[r].status = payment[r].status
      BY <2>0, <2>4, SetStatusType DEF MarkSucceeded, At, Grounded, outside, Statuses
    <3>2. QED BY <3>1 DEF PaidFor, ReportedPaid
  <2>5. CASE PollFetch(q) \/ PollFail(q) \/ PollRefresh(q) \/ CompletePayment(q) \/ FindCredit(q)
    BY <2>5 DEF PollFetch, PollFail, PollRefresh, CompletePayment, FindCredit, database, outside,
                PaidFor, ReportedPaid
  <2>6. QED BY <1>4, <2>1, <2>2, <2>3, <2>4, <2>5 DEF Handle
<1>5. ASSUME NEW q \in Requests, NEW p \in Payments, CreateTopup(q, p) \/ MockTopup(q, p)
      PROVE  Still \/ Paid(p)
  <2>1. UNCHANGED <<remote, credits, misled>> /\ payment[p].status = "none"
    BY <1>5 DEF CreateTopup, MockTopup, outside
  <2>2. /\ \A r \in Payments : r # p => payment'[r] = payment[r]
        /\ payment'[p].status = "pending"
           \/ (payment'[p].status = "succeeded" /\ payment'[p].provider = "mock")
    BY <1>5, InsertType DEF CreateTopup, MockTopup, Providers, Statuses
  <2>3. QED BY <2>1, <2>2 DEF PaidFor, ReportedPaid
<1>6. ASSUME NEW q \in Requests, NEW p \in Payments, PollStatus(q, p)
      PROVE  Still
  BY <1>6 DEF PollStatus, database, outside, PaidFor, ReportedPaid
<1>11. ASSUME NEW q \in Requests, NEW p \in Payments, NEW sender \in Senders, NEW status,
              Webhook(q, p, sender, status)
       PROVE  Still \/ Paid(p)
  <2>1. UNCHANGED <<payment, remote, credits>> BY <1>11 DEF Webhook, database
  <2>2. CASE UNCHANGED misled BY <2>1, <2>2 DEF PaidFor, ReportedPaid
  <2>3. CASE misled' = misled \cup {p} BY <2>1, <2>3 DEF PaidFor, ReportedPaid
  <2>4. QED BY <1>11, <2>2, <2>3 DEF Webhook
<1>12. ASSUME NEW q \in Requests, NEW p \in Payments, ProviderNotifies(q, p) \/ MessageArrives(q, p)
       PROVE  Still \/ Paid(p)
  BY <1>11, <1>12 DEF ProviderNotifies, MessageArrives
<1>7. ASSUME NEW p \in Payments, PlayerPays(p) PROVE Paid(p)
  <2>1. UNCHANGED <<payment, credits, misled>> /\ remote'[p] = "succeeded"
        /\ \A r \in Payments : r # p => remote'[r] = remote[r]
    BY <1>7 DEF PlayerPays, database
  <2>2. QED BY <2>1 DEF PaidFor, ReportedPaid
<1>8. ASSUME NEW p \in Payments, ProviderCancels(p) \/ ReturnToApp(p) PROVE Still
  <2>1. UNCHANGED <<payment, credits, misled>>
        /\ \A r \in Payments : remote'[r] = "succeeded" <=> remote[r] = "succeeded"
    BY <1>8 DEF ProviderCancels, ReturnToApp, database, outside
  <2>2. QED BY <2>1 DEF PaidFor, ReportedPaid
<1>9. CASE Crash
  BY <1>1, <1>9 DEF Crash, database, PaidFor, ReportedPaid
<1> HIDE DEF Paid, Still
<1>10. QED BY <1>1, <1>2, <1>3, <1>4, <1>5, <1>6, <1>7, <1>8, <1>9, <1>12 DEF Next

\* While requests do not overlap, top-ups are idempotent: each payment is
\* credited at most once, after it is paid or was reported paid, whatever is
\* retried or restarted and whatever messages the webhook gets.
THEOREM AloneKeepsPromise ==
    ASSUME \A q, r \in Requests : q = r
    PROVE  Spec => KeepsPromise
<1>1. Init => Promise!Init /\ FreshCredit
  BY DEF Init, Idle, Promise!Init, FreshCredit, ReportedPaid
<1>2. IInv /\ FreshCredit /\ [Next]_vars => FreshCredit'
  BY FreshStep
<1>3. IInv /\ FreshCredit /\ [Next]_vars => [Promise!Next]_Promise!vars
  BY PromiseStep
<1>4. QED BY <1>1, <1>2, <1>3, Inductive, PTL DEF Spec, KeepsPromise, Promise!Spec
=============================================================================
