-------------------------- MODULE BookingLifecycle --------------------------
(***************************************************************************)
(* What a booking promises, without requests, seats, wallets or a clock: a *)
(* row moves only forward through its statuses, a row that has ended stays *)
(* as it ended, and the booking is charged exactly once, in the step that  *)
(* confirms it.  One step may move several rows: the sync pass does.       *)
(***************************************************************************)
EXTENDS Naturals

CONSTANT Ids

VARIABLES
    stage,      \* status of each booking, "none" before it is inserted
    taken       \* how many times its price was taken from the wallet

vars == <<stage, taken>>

Init ==
    /\ stage = [b \in Ids |-> "none"]
    /\ taken = [b \in Ids |-> 0]

Follows(from) ==
    CASE from = "none"            -> {"pending_payment"}
      [] from = "pending_payment" -> {"paid", "active", "cancelled"}
      [] from = "paid"            -> {"active", "cancelled", "no_show"}
      [] from = "active"          -> {"completed", "cancelled"}
      [] OTHER                    -> {}

Confirms(b) == stage[b] = "pending_payment" /\ stage'[b] \in {"paid", "active"}

Advance(b) ==
    /\ stage'[b] = stage[b] \/ stage'[b] \in Follows(stage[b])
    /\ taken'[b] = IF Confirms(b) THEN taken[b] + 1 ELSE taken[b]

Next == \A b \in Ids : Advance(b)

Spec == Init /\ [][Next]_vars
=============================================================================
