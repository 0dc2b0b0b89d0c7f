------------------------------- MODULE Pricing -------------------------------
(***************************************************************************)
(* The club's price list, the price the server charges by it and the price *)
(* the phone works out for itself.  A list is the rate of the seat's zone, *)
(* the packages for long bookings, each at its place in the order of the   *)
(* database, and the time windows.  Money is in kopecks on the server and  *)
(* in rubles on the phone.                                                 *)
(***************************************************************************)
EXTENDS Integers, FiniteSets, FiniteSetsExt

Packs == [min : 1..12, pct : 0..90, zoned : BOOLEAN, active : BOOLEAN, place : Int]
Windows(ids) == [id : ids, from : 0..23, to : 0..23, pct : 0..90,
                 zoned : BOOLEAN, active : BOOLEAN]

Lists(ids) == [rate : Nat, pkgs : SUBSET Packs, wins : SUBSET Windows(ids)]

\* A list whose packages have places and whose windows have ids of their own.
IsPriceList(list, ids) ==
    /\ list \in Lists(ids) /\ IsFiniteSet(list.pkgs)
    /\ \A p, q \in list.pkgs : p.place = q.place => p = q
    /\ \A w, v \in list.wins : w.id = v.id => w = v

\* Math.round of a / b
Round(a, b) == (2 * a + b) \div (2 * b)
Rub(kopecks) == Round(kopecks, 100)

\* Math.round of a product with a binary fraction that is not exact: a half may fall either way
FloatRounds(a, b) == {Round(a, b), (2 * a + b - 1) \div (2 * b)}

-----------------------------------------------------------------------------
(* The server: rows of the zone hide the rows for all zones.               *)

Chosen(rows) ==
    LET active == {r \in rows : r.active}
        zoned  == {r \in active : r.zoned}
    IN IF zoned # {} THEN zoned ELSE active

Global(rows) == {r \in rows : r.active /\ ~r.zoned}

Length(win) == IF win.to > win.from THEN win.to - win.from ELSE 24 - win.from + win.to

\* the order in which the database returns packages
Before(p, q) == p.place < q.place \/ (p.place = q.place /\ p.min < q.min)

\* The package with the fewest hours that fit (a fault the runs must notice).
PickSmallest(pkgs, hours) ==
    LET fits == {p \in pkgs : hours >= p.min}
    IN IF fits = {} THEN 0
       ELSE (CHOOSE p \in fits : \A q \in fits :
                 p.min < q.min \/ (p.min = q.min /\ ~Before(q, p))).pct

\* the percent of the package with the most hours that fit, the first of equals, 0 when none does
PickPackage(pkgs, hours) ==
    LET fits == {p \in pkgs : hours >= p.min}
    IN IF fits = {} THEN 0
       ELSE (CHOOSE p \in fits : \A q \in fits :
                 p.min > q.min \/ (p.min = q.min /\ ~Before(q, p))).pct

Percent(list, hours, window) ==
    LET named == {w \in Chosen(list.wins) : w.id = window /\ w.pct > 0}
    IN IF named # {} THEN (CHOOSE w \in named : TRUE).pct
       ELSE PickPackage(Chosen(list.pkgs), hours)

Charge(list, hours, window) ==
    LET base == list.rate * hours * 100
    IN base - Round(base * Percent(list, hours, window), 100)

\* the price a quote shows ...
Quote(list, hours, window) == Rub(Charge(list, hours, window))

\* ... and what it offers besides
HourPresets(list) == {1} \cup {p.min : p \in Chosen(list.pkgs)}
WindowPresets(list) == {[id |-> w.id, hours |-> Length(w)] : w \in Chosen(list.wins)}

MinuteCharge(list, minutes) == Round(list.rate * minutes * 100, 60)

-----------------------------------------------------------------------------
(* The phone: what it was sent, and the tables it falls back on.           *)

\* GET /club/pricing is asked with the slug of the zone, no row's zone
Sent(list) == [pkgs |-> Global(list.pkgs), wins |-> Global(list.wins)]

DefaultTiers == {[min |-> 1, pct |-> 0, place |-> 1], [min |-> 3, pct |-> 7, place |-> 2],
                 [min |-> 6, pct |-> 13, place |-> 3], [min |-> 8, pct |-> 16, place |-> 4]}

DefaultPackages == { [id |-> "night", from |-> 23, hours |-> 9],
                     [id |-> "morning", from |-> 10, hours |-> 6] }

TimePackages(wins) ==
    IF wins = {} THEN DefaultPackages
    ELSE {[id |-> w.id, from |-> w.from, hours |-> Length(w)] : w \in wins}

\* only the id of a row of the list (tw-...) is sent to the server
TimeWindow(package) == IF package \in {"night", "morning"} THEN "none" ELSE package

\* the last tier of the list that fits
TierDiscount(pkgs, hours) ==
    LET tiers == IF pkgs = {} THEN DefaultTiers ELSE pkgs
        fits  == {p \in tiers : hours >= p.min}
    IN IF fits = {} THEN 0 ELSE (CHOOSE p \in fits : \A q \in fits : ~Before(p, q)).pct

PresetHours(pkgs) == {1} \cup {p.min : p \in pkgs}

\* original * (1 - discountPct / 100), where the factor is a float
BookingPrices(rate, hours, pct) == FloatRounds(rate * hours * (100 - pct), 100)

\* a price of the phone is the server's, or a ruble under it where that ends in half a ruble
Agrees(price, kopecks) ==
    \/ price = Rub(kopecks)
    \/ kopecks % 100 = 50 /\ price = Rub(kopecks) - 1

\* a package begins at its hour, on the next day when that hour is past
StartDate(date, package, packages, now) ==
    LET chosen == {p \in packages : p.id = package}
        from   == (CHOOSE p \in chosen : TRUE).from
    IN IF chosen = {} THEN date ELSE IF from < now THEN from + 24 ELSE from

-----------------------------------------------------------------------------
(* The administrator's edits, on the page of prices.                       *)

CreatePackage(list, min, pct, zoned) ==
    LET place == Max({-1} \cup {p.place : p \in list.pkgs}) + 1
    IN [list EXCEPT !.pkgs = @ \cup {[min |-> min, pct |-> pct, zoned |-> zoned, active |-> TRUE,
                                   place |-> place]}]

UpdatePackage(list, p, min, pct, active) ==
    [list EXCEPT !.pkgs = (@ \ {p}) \cup {[p EXCEPT !.min = min, !.pct = pct, !.active = active]}]

DeletePackage(list, p) == [list EXCEPT !.pkgs = @ \ {p}]

CreateWindow(list, id, from, to, pct, zoned) ==
    [list EXCEPT !.wins = @ \cup {[id |-> id, from |-> from, to |-> to, pct |-> pct,
                                zoned |-> zoned, active |-> TRUE]}]

UpdateWindow(list, w, from, to, pct, active) ==
    [list EXCEPT !.wins = (@ \ {w}) \cup
        {[w EXCEPT !.from = from, !.to = to, !.pct = pct, !.active = active]}]

DeleteWindow(list, w) == [list EXCEPT !.wins = @ \ {w}]

UpdateZone(list, rate) == [list EXCEPT !.rate = rate]
=============================================================================
