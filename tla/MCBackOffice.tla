---- MODULE MCBackOffice ----
EXTENDS BackOffice

MCFirstSeats == [s \in {"s1"} |-> [zone |-> "solo", number |-> 1]]
====
