---------------------------- MODULE Verification ----------------------------
(***************************************************************************)
(* Identity verification: the player sends a photo, an administrator gives *)
(* a verdict or, when nobody has for some minutes, the next request that   *)
(* looks at the applications approves what is overdue.  Handlers are taken *)
(* apart at their database calls; the phone gives up waiting while the     *)
(* server goes on, and an answer may come to any screen.                   *)
(***************************************************************************)
EXTENDS Integers, FiniteSets

CONSTANTS
    Submits, Polls, Admins,     \* requests in flight: uploads, status polls, the site's
    MaxRows,                    \* bound: applications of the player
    MaxAdmin,                   \* bound: requests of the site
    MaxUpsets                   \* bound: answers that do not come in time

ASSUME VerificationAssumption ==
    /\ MaxRows \in Nat /\ MaxAdmin \in Nat /\ MaxUpsets \in Nat
    /\ IsFiniteSet(Submits) /\ IsFiniteSet(Polls) /\ IsFiniteSet(Admins)
    /\ Submits \cap Polls = {} /\ Submits \cap Admins = {} /\ Polls \cap Admins = {}

VARIABLES
    user,       \* identityStatus of the player
    rows,       \* the player's applications in order of insertion
    req,        \* requests in flight
    screen, waiting,    \* the phone: its screen, the upload its button waits for
    met,        \* uploads have overlapped
    asked, upsets

vars == <<user, rows, req, screen, waiting, met, asked, upsets>>

Verified == {"approved", "auto_approved"}
Pending == {v \in 1..MaxRows : rows[v].status = "pending"}
Due == {v \in Pending : rows[v].due}
Inserted == {v \in 1..MaxRows : rows[v].status # "none"}

NoRow == [status |-> "none", due |-> FALSE, raced |-> FALSE, twice |-> FALSE]

Slots == Submits \cup Polls \cup Admins
Idle == [op |-> "none", pc |-> "-", row |-> 0, todo |-> {}, answer |-> "-",
         heard |-> FALSE]

Init ==
    /\ user = "none" /\ rows = [v \in 1..MaxRows |-> NoRow]
    /\ req = [r \in Slots |-> Idle]
    /\ screen = "intro" /\ waiting = "nobody" /\ met = FALSE /\ asked = 0 /\ upsets = 0

server == <<user, rows>>
phone == <<screen, waiting, met>>
bounds == <<asked, upsets>>

First(slots) == CHOOSE r \in slots : req[r] = Idle      \* they are alike
Sends(r, first) == req[r] = Idle /\ req' = [req EXCEPT ![r] = first]
Goes(r, pc) == req' = [req EXCEPT ![r].pc = pc]
Answers(r, answer) == req' = [req EXCEPT ![r].pc = "answered", ![r].answer = answer]
Ends(r) == req' = [req EXCEPT ![r] = Idle]
At(r, op, pc) == req[r].op = op /\ req[r].pc = pc
Upset == upsets < MaxUpsets /\ upsets' = upsets + 1

-----------------------------------------------------------------------------
(* Time and processAutoApprovals, which status, submit and list run first. *)

BecomeDue ==
    /\ \E v \in Pending : ~rows[v].due /\ rows' = [rows EXCEPT ![v].due = TRUE]
    /\ UNCHANGED <<user, req, phone, bounds>>

FindDue(r) ==
    /\ req[r].pc = "due"
    /\ req' = [req EXCEPT ![r].pc = "each", ![r].todo = Due]
    /\ UNCHANGED <<server, phone, bounds>>

\* resolveVerification reads the row again
ReadRow(r, v) == IF v \in Pending THEN req' = [req EXCEPT ![r].pc = "resolve", ![r].row = v]
                 ELSE req' = [req EXCEPT ![r].pc = "each", ![r].todo = @ \ {v}]

Each(r) ==
    /\ req[r].pc = "each"
    /\ \/ \E v \in req[r].todo : ReadRow(r, v)
       \/ req[r].todo = {} /\ Goes(r, "own")
    /\ UNCHANGED <<server, phone, bounds>>

\* requests about to write a verdict on an application they have seen open
Writing(v) == {r \in Slots : req[r].row = v /\ req[r].pc \in {"resolve", "again", "approve", "reject"}}

\* row and user in one transaction
Verdict(v, status) ==
    /\ rows' = [rows EXCEPT
           ![v].status = status, ![v].twice = @ \/ rows[v].status # "pending",
           ![v].raced = @ \/ Cardinality(Writing(v)) > 1]
    /\ user' = status

AutoApprove(r) ==
    /\ req[r].pc = "resolve" /\ Verdict(req[r].row, "auto_approved")
    /\ req' = [req EXCEPT ![r].pc = "each", ![r].todo = @ \ {req[r].row}, ![r].row = 0]
    /\ UNCHANGED <<phone, bounds>>

-----------------------------------------------------------------------------
(* The handlers.                                                           *)

GetStatus(r) == At(r, "status", "own") /\ Answers(r, user) /\ UNCHANGED <<server, phone, bounds>>

CheckUser(r) ==
    /\ At(r, "submit", "own")
    /\ IF user \in Verified THEN Answers(r, "refused") ELSE Goes(r, "pending")
    /\ UNCHANGED <<server, phone, bounds>>

\* The button is off while an application is sent. (a fault the runs must notice).
CheckNothing(r) ==
    At(r, "submit", "pending") /\ Goes(r, "insert") /\ UNCHANGED <<server, phone, bounds>>

CheckPending(r) ==
    /\ At(r, "submit", "pending")
    /\ IF Pending # {} THEN Answers(r, "refused") ELSE Goes(r, "insert")
    /\ UNCHANGED <<server, phone, bounds>>

\* after the photo has been stored
Insert(r) ==
    /\ At(r, "submit", "insert")
    /\ \E v \in 1..MaxRows \ Inserted :
          /\ \A w \in 1..MaxRows \ Inserted : v <= w
          /\ rows' = [rows EXCEPT ![v].status = "pending"]
    /\ user' = "pending" /\ Answers(r, "ok")
    /\ UNCHANGED <<phone, bounds>>

\* the site shows what is pending and asks again in five seconds
List(r) == At(r, "list", "own") /\ Ends(r) /\ UNCHANGED <<server, phone, bounds>>

\* Any application can be decided. (a fault the runs must notice).
FindPendingAny(r) ==
    /\ req[r].pc = "find" /\ Goes(r, IF req[r].op = "approve" THEN "again" ELSE "reject")
    /\ UNCHANGED <<server, phone, bounds>>

FindPending(r) ==
    /\ req[r].pc = "find"
    /\ IF req[r].row \in Pending THEN Goes(r, IF req[r].op = "approve" THEN "again" ELSE "reject")
       ELSE Ends(r)
    /\ UNCHANGED <<server, phone, bounds>>

FindAgain(r) ==
    /\ req[r].pc = "again"
    /\ IF req[r].row \in Pending THEN Goes(r, "approve") ELSE Ends(r)
    /\ UNCHANGED <<server, phone, bounds>>

Approve(r) ==
    /\ req[r].pc = "approve" /\ Verdict(req[r].row, "approved") /\ Ends(r)
    /\ UNCHANGED <<phone, bounds>>

Reject(r) ==
    /\ req[r].pc = "reject" /\ Verdict(req[r].row, "rejected") /\ Ends(r)
    /\ UNCHANGED <<phone, bounds>>

\* The site's buttons, for rows of a list that may be old.
Click(first) ==
    /\ asked < MaxAdmin /\ asked' = asked + 1
    /\ \E r \in Admins : Sends(r, first)
    /\ UNCHANGED <<server, phone, upsets>>

Load == Click([Idle EXCEPT !.op = "list", !.pc = "due"])
ClickApprove == \E v \in Inserted : Click([Idle EXCEPT !.op = "approve", !.pc = "find", !.row = v])
ClickReject == \E v \in Inserted : Click([Idle EXCEPT !.op = "reject", !.pc = "find", !.row = v])

-----------------------------------------------------------------------------
(* The phone.                                                              *)

Walks(from, to) == screen \in from /\ screen' = to /\ UNCHANGED <<server, req, waiting, met, bounds>>

\* both consents and the camera's permission
OpenCamera == Walks({"intro"}, "camera")
TakePhoto == Walks({"camera"}, "preview")
Retake == waiting = "nobody" /\ Walks({"preview"}, "camera")
TryAgain == Walks({"rejected"}, "intro")
GoHome == Walks({"pending"}, "home")
Return == Walks({"home"}, "pending")

Submit ==
    /\ screen = "preview" /\ waiting = "nobody"
    /\ Cardinality(Inserted) + Cardinality({r \in Submits : req[r] # Idle}) < MaxRows
    /\ (\E r \in Submits : req[r] = Idle) /\ waiting' = First(Submits)
    /\ Sends(waiting', [Idle EXCEPT !.op = "submit", !.pc = "due", !.heard = TRUE])
    /\ met' = (met \/ \E r \in Submits : req[r] # Idle)
    /\ UNCHANGED <<server, screen, bounds>>

Released(r) == IF waiting = r THEN "nobody" ELSE waiting

\* accepted; but without the profile, fetched next, it is an error to the phone
SubmitAnswered(r) ==
    /\ At(r, "submit", "answered") /\ Ends(r) /\ waiting' = Released(r)
    /\ \/ /\ req[r].heard /\ req[r].answer = "ok"
          /\ \/ screen' = "pending" /\ UNCHANGED upsets
             \/ UNCHANGED screen /\ Upset
       \/ ~(req[r].heard /\ req[r].answer = "ok") /\ UNCHANGED <<screen, upsets>>
    /\ UNCHANGED <<server, met, asked>>

\* the connection breaks, the server does not notice
GiveUp(r) ==
    /\ req[r].heard /\ Upset /\ waiting' = Released(r)
    /\ req' = [req EXCEPT ![r].heard = FALSE]
    /\ UNCHANGED <<server, screen, met, asked>>

\* the upload goes on, a new screen does not know of it
Back ==
    /\ screen \in {"camera", "preview"} /\ screen' = "intro" /\ waiting' = "nobody"
    /\ UNCHANGED <<server, req, met, bounds>>

\* The status is read, nothing is approved. (a fault the runs must notice).
PollOnly(r) ==
    /\ screen = "pending" /\ Sends(r, [Idle EXCEPT !.op = "status", !.pc = "own"])
    /\ UNCHANGED <<server, phone, bounds>>

\* every four seconds and by the button, whether or not the last one has answered
Poll(r) ==
    /\ screen = "pending" /\ Sends(r, [Idle EXCEPT !.op = "status", !.pc = "due"]) /\ r = First(Polls)
    /\ UNCHANGED <<server, phone, bounds>>

\* wherever the player is by now
Target(status) == IF status \in Verified THEN "time"
                  ELSE IF status = "rejected" THEN "rejected"
                  ELSE IF status = "none" THEN "intro" ELSE screen

PollAnswered(r) ==
    /\ At(r, "status", "answered") /\ Ends(r)
    /\ screen' = Target(req[r].answer)
    /\ UNCHANGED <<server, waiting, met, bounds>>

PollFails(r) ==
    /\ At(r, "status", "answered") /\ Ends(r) /\ Upset
    /\ UNCHANGED <<server, phone, asked>>

-----------------------------------------------------------------------------
Handler(r) ==
    \/ FindDue(r) \/ Each(r) \/ AutoApprove(r)
    \/ GetStatus(r) \/ CheckUser(r) \/ CheckPending(r) \/ Insert(r)
    \/ List(r) \/ FindPending(r) \/ FindAgain(r) \/ Approve(r) \/ Reject(r)

Next ==
    \/ BecomeDue
    \/ \E r \in Slots : Handler(r)
    \/ Load \/ ClickApprove \/ ClickReject
    \/ OpenCamera \/ TakePhoto \/ Retake \/ TryAgain \/ GoHome \/ Return
    \/ Submit \/ Back \/ \E r \in Submits : SubmitAnswered(r) \/ GiveUp(r)
    \/ \E r \in Polls : Poll(r) \/ PollAnswered(r) \/ PollFails(r)

Spec == Init /\ [][Next]_vars

\* minutes pass, requests go on, the phone polls while the screen is open
FairSpec ==
    /\ Spec /\ WF_vars(BecomeDue)
    /\ \A r \in Slots : WF_vars(Handler(r))
    /\ \A r \in Polls : WF_vars(Poll(r)) /\ WF_vars(PollAnswered(r))

-----------------------------------------------------------------------------
(* Properties                                                              *)

Statuses == {"none", "pending", "rejected"} \cup Verified

TypeOK ==
    /\ user \in Statuses
    /\ rows \in [1..MaxRows -> [status : Statuses, due : BOOLEAN, raced : BOOLEAN, twice : BOOLEAN]]
    /\ screen \in {"intro", "camera", "preview", "pending", "rejected", "time", "home"}
    /\ waiting \in Submits \cup {"nobody"} /\ met \in BOOLEAN

\* Two applications wait for a verdict only if two uploads overlapped: the server, not the
\* button, keeps them apart when the phone has left or given up on one (submit, onSubmit).
OneApplication == Cardinality(Pending) > 1 => met

\* An application gets a second verdict only if two requests had seen it open at the same time:
\* no order of buttons on old lists and of approvals by the clock decides it anew (approve,
\* reject, resolveVerification).
OneVerdict == \A v \in Inserted : rows[v].twice => rows[v].raced

\* A player who keeps the waiting screen open is taken on, even if no administrator ever looks
\* and polls fail (processAutoApprovals, poll).
ApplicationIsAnswered == screen = "pending" ~> screen # "pending"
=============================================================================
