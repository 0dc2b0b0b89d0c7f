---- MODULE MCBookingApp ----
EXTENDS BookingApp

MCFirstList ==
    [rate |-> 150,
     pkgs |-> {[min |-> 3, pct |-> 7, zoned |-> FALSE, active |-> TRUE, place |-> 0]},
     wins |-> {[id |-> "eve", from |-> 23, to |-> 8, pct |-> 36, zoned |-> FALSE, active |-> TRUE]}]
MCNewIds == << "day" >>
====
