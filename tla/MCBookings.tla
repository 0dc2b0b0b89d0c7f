----------------------------- MODULE MCBookings -----------------------------
(* Small instances of Bookings.  The price of each length is not linear, as *)
(* a package discount makes it.                                             *)
EXTENDS Bookings, TLC

MCPrice == [d \in Durations \cup Additions |-> IF d = 1 THEN 1 ELSE 2]

MCAdjustments == {-3}

=============================================================================
