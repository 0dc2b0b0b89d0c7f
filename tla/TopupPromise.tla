---------------------------- MODULE TopupPromise ----------------------------
(***************************************************************************)
(* What a top-up promises, whatever requests, retries and restarts it      *)
(* takes: money enters a wallet only after the payment was reported paid   *)
(* (or was a test top-up), once for each payment, and what has entered     *)
(* stays.                                                                  *)
(***************************************************************************)
EXTENDS Naturals

CONSTANT Payments

VARIABLES
    paid,       \* the payments reported paid, by the provider or a message
    credits     \* how often each has been added to the wallet

vars == <<paid, credits>>

Init == paid = {} /\ credits = [p \in Payments |-> 0]

Pay(p) ==
    /\ p \notin paid
    /\ paid' = paid \cup {p}
    /\ UNCHANGED credits

Credit(p) ==
    /\ p \in paid /\ credits[p] = 0
    /\ credits' = [credits EXCEPT ![p] = 1]
    /\ UNCHANGED paid

Next == \E p \in Payments : Pay(p) \/ Credit(p)

Spec == Init /\ [][Next]_vars
=============================================================================
