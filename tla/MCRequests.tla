----------------------------- MODULE MCRequests -----------------------------
(* A small instance of BookingRequests: a request of any kind, and one that *)
(* pays, extends, cancels or ends.                                          *)
EXTENDS BookingRequests

CONSTANTS p1, p2

MCOps == [p \in Procs |-> IF p = p1 THEN Handlers ELSE {"pay", "extend", "cancel", "end"}]

MCPrice == [d \in Durations \cup Additions |-> IF d = 1 THEN 1 ELSE 2]

MCAdjustments == {-3}

=============================================================================
