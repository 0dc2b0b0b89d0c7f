---------------------------- MODULE WalletTopup -----------------------------
(***************************************************************************)
(* WalletService's top-ups: a payment is created at the provider, the      *)
(* player pays it in a browser, and two kinds of request that know nothing *)
(* of each other bring the money in - the provider's webhook, repeated     *)
(* until it is answered, and the app asking for the status: its success    *)
(* screen polls, and its top-up screen has a button.  The webhook's handler *)
(* does not ask the provider: it takes the status a message carries.       *)
(* A request is taken apart at its awaits: each action ends where the code *)
(* awaits a database call or the provider.  A crash ends every request in  *)
(* flight; the database and the provider stay.                             *)
(***************************************************************************)
EXTENDS Naturals, FiniteSets

CONSTANTS
    Payments,       \* ids of Payment rows
    Requests,       \* slots for requests in flight
    Amount,         \* Payment.amount
    MaxPolls,       \* POLL_ATTEMPTS of the success screen
    MaxCrashes      \* bound: restarts of the API

ASSUME TopupAssumption ==
    /\ Payments # {}
    /\ Amount \in [Payments -> Nat \ {0}]
    /\ MaxPolls \in Nat \ {0} /\ MaxCrashes \in Nat

VARIABLES
    payment,    \* the Payment rows
    remote,     \* the provider's own record of each payment
    hooked,     \* payments whose webhook the provider has seen answered
    misled,     \* history: payments a message called paid before the provider was paid
    credits,    \* Transaction rows of type topup with externalId = the payment
    balance,    \* Wallet.balance of the player
    request,    \* the requests in flight
    screen,     \* what the app shows of each payment
    polls,      \* attempts its success screen has made
    crashes

vars == <<payment, remote, hooked, misled, credits, balance, request, screen, polls, crashes>>

database == <<payment, credits, balance>>
client   == <<screen, polls>>
outside  == <<remote, hooked, misled, crashes>>

Statuses  == {"none", "pending", "succeeded", "failed"}
Providers == {"yookassa", "mock"}
Remotes   == {"none", "pending", "succeeded", "canceled"}
Screens   == {"none", "paying", "loading", "pending", "succeeded", "error"}
Asking    == {"poll", "check"}
Senders   == {"webhook", "message"}
Kinds     == {"create", "mock"} \cup Senders \cup Asking
Awaits    == {"ask", "save", "fail", "fetch", "complete", "mark", "find", "credit", "refresh"}

Idle == [kind |-> "create", at |-> "idle", pay |-> CHOOSE p \in Payments : TRUE]

TypeOK ==
    /\ payment \in [Payments -> [status : Statuses, provider : Providers, known : BOOLEAN]]
    /\ remote \in [Payments -> Remotes]
    /\ hooked \subseteq Payments /\ misled \subseteq Payments
    /\ credits \in [Payments -> Nat]
    /\ balance \in Nat
    /\ request \in [Requests -> [kind : Kinds, at : Awaits \cup {"idle"}, pay : Payments]]
    /\ screen \in [Payments -> Screens]
    /\ polls \in [Payments -> Nat]
    /\ crashes \in Nat

Init ==
    /\ payment = [p \in Payments |-> [status |-> "none", provider |-> "yookassa", known |-> FALSE]]
    /\ remote = [p \in Payments |-> "none"]
    /\ hooked = {} /\ misled = {}
    /\ credits = [p \in Payments |-> 0]
    /\ balance = 0
    /\ request = [q \in Requests |-> Idle]
    /\ screen = [p \in Payments |-> "none"]
    /\ polls = [p \in Payments |-> 0]
    /\ crashes = 0

-----------------------------------------------------------------------------
(* Requests.                                                               *)

Free(q) == request[q].at = "idle"

At(q, kinds, await) == request[q].kind \in kinds /\ request[q].at = await

Begin(q, k, p, await) == request' = [request EXCEPT ![q] = [kind |-> k, at |-> await, pay |-> p]]

Await(q, await) == request' = [request EXCEPT ![q].at = await]

Finish(q) == request' = [request EXCEPT ![q] = Idle]

SetStatus(p, st) == payment' = [payment EXCEPT ![p].status = st]

Insert(p, prov, st) ==
    payment' = [payment EXCEPT ![p] = [status |-> st, provider |-> prov, known |-> FALSE]]

-----------------------------------------------------------------------------
(* Faults the runs must notice: each replaces the definition it names.      *)

\* CompletePayment, without the second look at the status.
CompleteAnyway(q) ==
    /\ At(q, Asking \cup Senders, "complete")
    /\ Await(q, "mark")
    /\ UNCHANGED <<database, outside, client>>

\* PollFetch, for any answer of the provider.
PollAnyAnswer(q) ==
    /\ At(q, Asking, "fetch")
    /\ remote[request[q].pay] # "none"
    /\ Await(q, "complete")
    /\ UNCHANGED <<database, outside, client>>

\* Webhook, answered at once and completed by the status poll alone.
WebhookIgnored(q, p, sender, status) ==
    /\ Free(q)
    /\ hooked' = IF sender = "webhook" THEN hooked \cup {p} ELSE hooked
    /\ UNCHANGED <<request, remote, misled, crashes, database, client>>

-----------------------------------------------------------------------------
(* createTopup and mockTopup.                                              *)

CreateTopup(q, p) ==
    /\ Free(q) /\ payment[p].status = "none"
    /\ Insert(p, "yookassa", "pending")
    /\ Begin(q, "create", p, "ask")
    /\ UNCHANGED <<credits, balance, outside, client>>

\* The provider makes the payment; its answer may still be lost on the way.
CreateAsk(q) ==
    /\ At(q, {"create"}, "ask")
    /\ \/ remote' = [remote EXCEPT ![request[q].pay] = "pending"] /\ Await(q, "save")
       \/ remote' = [remote EXCEPT ![request[q].pay] = "pending"] /\ Await(q, "fail")
       \/ UNCHANGED remote /\ Await(q, "fail")
    /\ UNCHANGED <<database, hooked, misled, crashes, client>>

CreateFail(q) ==
    /\ At(q, {"create"}, "fail")
    /\ SetStatus(request[q].pay, "failed")
    /\ Finish(q)
    /\ UNCHANGED <<credits, balance, outside, client>>

\* payYooKassa, answered: the browser opens the page, and the app can check.
OpenPage(p) == screen' = [screen EXCEPT ![p] = "paying"]

\* Stores providerId and answers with the page where the player pays.
CreateSave(q) ==
    /\ At(q, {"create"}, "save")
    /\ payment' = [payment EXCEPT ![request[q].pay].known = TRUE]
    /\ OpenPage(request[q].pay)
    /\ Finish(q)
    /\ UNCHANGED <<credits, balance, outside, polls>>

MockTopup(q, p) ==
    /\ Free(q) /\ payment[p].status = "none"
    /\ Insert(p, "mock", "succeeded")
    /\ Begin(q, "mock", p, "find")
    /\ UNCHANGED <<credits, balance, outside, client>>

-----------------------------------------------------------------------------
(* The provider and the player.                                            *)

PlayerPays(p) ==
    /\ screen[p] = "paying" /\ remote[p] = "pending"
    /\ remote' = [remote EXCEPT ![p] = "succeeded"]
    /\ UNCHANGED <<hooked, misled, crashes, database, request, client>>

ProviderCancels(p) ==
    /\ remote[p] = "pending"
    /\ remote' = [remote EXCEPT ![p] = "canceled"]
    /\ UNCHANGED <<hooked, misled, crashes, database, request, client>>

\* The browser returns to the app, paid or not.
ReturnToApp(p) ==
    /\ screen[p] = "paying"
    /\ screen' = [screen EXCEPT ![p] = "loading"]
    /\ UNCHANGED <<polls, outside, database, request>>

-----------------------------------------------------------------------------
(* getTopupStatus, asked by the success screen, one attempt after another, *)
(* and by the button of the top-up screen.                                 *)

Waiting(p, kind) == \E q \in Requests : ~Free(q) /\ request[q].kind = kind /\ request[q].pay = p

\* The success screen takes the status an answer carries, and on success asks for
\* the profile, which may fail; an answer no screen waits for is dropped.
Show(p, st) ==
    IF screen[p] # "loading" THEN UNCHANGED client
    ELSE IF st = "succeeded"
    THEN (\E s \in {"succeeded", "error"} : screen' = [screen EXCEPT ![p] = s]) /\ UNCHANGED polls
    ELSE IF polls[p] + 1 < MaxPolls
    THEN polls' = [polls EXCEPT ![p] = @ + 1] /\ UNCHANGED screen
    ELSE screen' = [screen EXCEPT ![p] = "pending"] /\ UNCHANGED polls

\* checkPayment says what it has heard; only on success, once the profile has come
\* too, does it leave the screen - and with it whatever lies on top.
Check(p, st) ==
    /\ \/ UNCHANGED screen
       \/ st = "succeeded" /\ screen' = [screen EXCEPT ![p] = "succeeded"]
    /\ UNCHANGED polls

Answer(p, kind, st) == IF kind = "poll" THEN Show(p, st) ELSE Check(p, st)

PollStatus(q, p) ==
    /\ Free(q)
    /\ \E kind \in Asking :
          /\ screen[p] = (IF kind = "poll" THEN "loading" ELSE "paying") /\ ~Waiting(p, kind)
          /\ IF payment[p].provider = "yookassa" /\ payment[p].known /\ payment[p].status = "pending"
             THEN Begin(q, kind, p, "fetch") /\ UNCHANGED client
             ELSE Answer(p, kind, payment[p].status) /\ UNCHANGED request
    /\ UNCHANGED <<database, outside>>

PollFetch(q) ==
    /\ At(q, Asking, "fetch")
    /\ IF remote[request[q].pay] = "succeeded"
       THEN Await(q, "complete") /\ UNCHANGED client
       ELSE Finish(q) /\ Answer(request[q].pay, request[q].kind, "pending")
    /\ UNCHANGED <<database, outside>>

\* The provider cannot be asked: the success screen shows the error and stops.
PollFail(q) ==
    /\ At(q, Asking, "fetch")
    /\ Finish(q)
    /\ LET p == request[q].pay IN
       screen' = IF request[q].kind = "poll" /\ screen[p] = "loading"
                 THEN [screen EXCEPT ![p] = "error"] ELSE screen
    /\ UNCHANGED <<database, outside, polls>>

PollRefresh(q) ==
    /\ At(q, Asking, "refresh")
    /\ Finish(q) /\ Answer(request[q].pay, request[q].kind, payment[request[q].pay].status)
    /\ UNCHANGED <<database, outside>>

-----------------------------------------------------------------------------
(* handleYookassaWebhook, given the payment and the status in the body of  *)
(* a message.  It looks at the row and at nothing else: what the provider  *)
(* has on record plays no part.                                            *)

Webhook(q, p, sender, status) ==
    /\ Free(q)
    /\ IF status = "succeeded" /\ payment[p].status \notin {"none", "succeeded"}
       THEN /\ Begin(q, sender, p, "complete")
            /\ misled' = IF remote[p] = "succeeded" THEN misled ELSE misled \cup {p}
            /\ UNCHANGED hooked
       ELSE /\ hooked' = IF sender = "webhook" THEN hooked \cup {p} ELSE hooked
            /\ UNCHANGED <<request, misled>>
    /\ UNCHANGED <<remote, crashes, database, client>>

\* The provider's own notification, repeated until it is answered and, when an
\* answer is slow, sent more than once at a time.
ProviderNotifies(q, p) ==
    /\ remote[p] = "succeeded" /\ p \notin hooked
    /\ Webhook(q, p, "webhook", "succeeded")

\* Any other message the endpoint is sent, early, repeated late or mistaken, once
\* createTopup has told the provider the id of the row.
MessageArrives(q, p) ==
    /\ remote[p] # "none"
    /\ \E status \in Remotes : Webhook(q, p, "message", status)

-----------------------------------------------------------------------------
(* completePayment and creditWallet.                                       *)

\* Where a request goes once its part of the crediting is done.
Return(q) ==
    /\ IF request[q].kind \in Asking THEN Await(q, "refresh") ELSE Finish(q)
    /\ hooked' = IF request[q].kind = "webhook" THEN hooked \cup {request[q].pay} ELSE hooked

CompletePayment(q) ==
    /\ At(q, Asking \cup Senders, "complete")
    /\ IF payment[request[q].pay].status = "succeeded"
       THEN Return(q)
       ELSE Await(q, "mark") /\ UNCHANGED hooked
    /\ UNCHANGED <<remote, misled, crashes, database, client>>

MarkSucceeded(q) ==
    /\ At(q, Asking \cup Senders, "mark")
    /\ SetStatus(request[q].pay, "succeeded")
    /\ Await(q, "find")
    /\ UNCHANGED <<credits, balance, outside, client>>

FindCredit(q) ==
    /\ request[q].at = "find"
    /\ IF credits[request[q].pay] > 0
       THEN Return(q)
       ELSE Await(q, "credit") /\ UNCHANGED hooked
    /\ UNCHANGED <<remote, misled, crashes, database, client>>

\* The increment and the Transaction row, in one database transaction.
CreditWallet(q) ==
    /\ request[q].at = "credit"
    /\ credits' = [credits EXCEPT ![request[q].pay] = @ + 1]
    /\ balance' = balance + Amount[request[q].pay]
    /\ Return(q)
    /\ UNCHANGED <<payment, remote, misled, crashes, client>>

-----------------------------------------------------------------------------

\* A restart: every request in flight is lost, and a polling screen gives up.
Crash ==
    /\ crashes < MaxCrashes
    /\ crashes' = crashes + 1
    /\ request' = [q \in Requests |-> Idle]
    /\ screen' = [p \in Payments |-> IF Waiting(p, "poll") /\ screen[p] = "loading"
                                THEN "error" ELSE screen[p]]
    /\ UNCHANGED <<database, remote, hooked, misled, polls>>

Handle(q) ==
    \/ CreateAsk(q) \/ CreateFail(q) \/ CreateSave(q)
    \/ PollFetch(q) \/ PollFail(q) \/ PollRefresh(q)
    \/ CompletePayment(q) \/ MarkSucceeded(q) \/ FindCredit(q) \/ CreditWallet(q)

Next ==
    \/ \E q \in Requests : Handle(q)
    \/ \E q \in Requests, p \in Payments :
          \/ CreateTopup(q, p) \/ MockTopup(q, p) \/ PollStatus(q, p)
          \/ ProviderNotifies(q, p) \/ MessageArrives(q, p)
    \/ \E p \in Payments : PlayerPays(p) \/ ProviderCancels(p) \/ ReturnToApp(p)
    \/ Crash

Spec == Init /\ [][Next]_vars

\* A handler that is running goes on, and the provider repeats a webhook that
\* was not answered.  Nobody has to pay, to return or to poll.
FairSpec ==
    /\ Spec
    /\ \A q \in Requests : WF_vars(Handle(q))
    /\ \A p \in Payments : SF_vars(\E q \in Requests : ProviderNotifies(q, p))

-----------------------------------------------------------------------------
(* Properties.                                                             *)

\* The provider has the money, or a message said so when it had not.
ReportedPaid(p) == remote[p] = "succeeded" \/ p \in misled

\* A wallet grows only by a test top-up or by a payment the provider has taken,
\* and only once the row says so; the exception is a payment that a message to
\* the webhook called paid before it was, which the code believes.  No poll, no
\* late answer, no failed or cancelled payment and no restart adds to a wallet.
CreditIsPaid ==
    \A p \in Payments : credits[p] > 0 =>
        \/ p \in misled
        \/ /\ payment[p].status = "succeeded"
           /\ payment[p].provider = "mock" \/ remote[p] = "succeeded"

\* What a request in flight knows of its payment, however the others move.
Grounded(q) ==
    LET p == request[q].pay IN
    /\ request[q].at \in {"ask", "save", "fail"} =>
           /\ payment[p].status # "none" /\ payment[p].provider = "yookassa"
           /\ screen[p] = "none" /\ remote[p] # "succeeded"
    /\ request[q].at \in {"complete", "mark"} =>
           request[q].kind \in Asking \cup Senders /\ ReportedPaid(p)
    /\ request[q].at \in {"find", "credit"} => payment[p].status = "succeeded" \/ p \in misled
    /\ request[q].kind \in Asking => screen[p] # "none"

Creating(q) == request[q].at \in {"ask", "save", "fail"}

OneCreator ==
    \A q, r \in Requests :
        Creating(q) /\ Creating(r) /\ request[q].pay = request[r].pay => q = r

NewIsUntouched ==
    \A p \in Payments : payment[p].status = "none" =>
        remote[p] = "none" /\ screen[p] = "none" /\ p \notin misled

MarkedIsPaid ==
    \A p \in Payments :
        payment[p].status = "succeeded" => payment[p].provider = "mock" \/ ReportedPaid(p)

\* The inductive invariant behind CreditIsPaid: every request in flight is
\* grounded, so a row is marked, and then credited, only for a payment reported paid.
IInv ==
    /\ TypeOK
    /\ \A q \in Requests : Grounded(q)
    /\ OneCreator
    /\ NewIsUntouched
    /\ MarkedIsPaid
    /\ CreditIsPaid

\* docs/SPRINTS.md names the idempotency of top-ups: creditWallet looks for the
\* Transaction row before it writes one.  The code keeps it only while two
\* requests do not overlap.
CreditedOnce == \A p \in Payments : credits[p] <= 1

\* Requests that may still write the row of payment p, or credit it.
InFlight(p) ==
    {q \in Requests : /\ request[q].pay = p
                      /\ Creating(q) \/ request[q].at \in {"mark", "find", "credit"}}

Settled(p) == payment[p].status = "succeeded" /\ InFlight(p) = {}

\* A late answer is harmless: once a payment is marked and the requests that
\* were completing it are gone, no webhook, poll or restart credits it again.
SettledIsFinal == [][\A p \in Payments : Settled(p) => Settled(p)' /\ credits'[p] = credits[p]]_vars

\* The app says "the balance has been topped up" only when it has.  The code
\* does not keep it: the row is marked before the wallet is credited.
ShownIsCredited == \A p \in Payments : screen[p] = "succeeded" => credits[p] > 0

\* The app says the balance will be updated by itself: what the player has
\* paid reaches the wallet.  A restart between the mark and the credit loses
\* it, since every later request finds the payment marked.
PaidIsCredited == \A p \in Payments : (remote[p] = "succeeded") ~> (credits[p] > 0)

\* The one way to lose it: the API stopped between the mark and the credit.
LostByCrash(p) ==
    crashes > 0 /\ credits[p] = 0 /\ payment[p].status = "succeeded" /\ InFlight(p) = {}

\* Short of that, what the player has paid does reach the wallet, also after a
\* restart: a webhook is repeated until it is answered.
PaidIsCreditedOrLost ==
    \A p \in Payments : (remote[p] = "succeeded") ~> (credits[p] > 0 \/ LostByCrash(p))

\* Top-ups keep the promise of TopupPromise as long as requests do not overlap.
Promise == INSTANCE TopupPromise WITH
    paid    <- {p \in Payments : \/ ReportedPaid(p)
                                 \/ /\ payment[p].provider = "mock"
                                    /\ payment[p].status = "succeeded"},
    credits <- credits

KeepsPromise == Promise!Spec
=============================================================================
