------------------------------ MODULE BackOffice ------------------------------
(***************************************************************************)
(* The hall as the back office keeps it: zones, seats and their flags, the *)
(* door.  Administrators create, edit and delete while players book, come  *)
(* through the door and play, and the scheduler's pass recomputes the      *)
(* flags.  Every request is taken apart at its database calls, with the    *)
(* keys of the schema as the database enforces them.                       *)
(***************************************************************************)
EXTENDS Integers, FiniteSets

CONSTANTS
    Zones, SeatIds, Numbers,
    FirstSeats,     \* the seats at the start, each with its zone and number
    Kinds,          \* bound: the requests that come
    Forms, Boxes,   \* bound: the statuses sent by the seat's form and by the list's status box
    Workers,        \* bound: requests in flight beside the pass
    MaxOps,         \* bound: requests of administrators and players
    MaxBookings     \* bound: bookings of a seat

ASSUME BackOfficeAssumption ==
    /\ DOMAIN FirstSeats \subseteq SeatIds
    /\ FirstSeats \in [DOMAIN FirstSeats -> [zone : Zones, number : Numbers]]
    /\ \A s, t \in DOMAIN FirstSeats : FirstSeats[s] = FirstSeats[t] => s = t
    /\ 0 \notin Numbers /\ "-" \notin SeatIds
    /\ Forms \cup Boxes \subseteq {"free", "occupied", "reserved", "repair"}
    /\ MaxOps \in Nat /\ MaxBookings \in Nat \ {0}
    /\ "pass" \notin Workers

VARIABLES
    zones,
    seats,      \* the rows; an id is used once
    held,       \* the booking that holds a seat, and how many there have been
    door,       \* per seat: a log row within the cooldown, the pulses in it, those of them
                \* that leave no row, and whether a request met an earlier one not yet logged
    lock,       \* lockProvider of the club
    call,       \* requests in flight
    ops

hallVars == <<zones, seats, held, door, lock, call, ops>>

Requesters == Workers \cup {"pass"}
Unused == [at |-> "unused", zone |-> "-", number |-> 0, status |-> "free",
           placed |-> FALSE, moved |-> FALSE]
Gone(s) == [Unused EXCEPT !.at = "gone", !.moved = seats[s].moved]
Exists(s) == seats[s].at = "row"
Row(zone, number, status) ==
    [Unused EXCEPT !.at = "row", !.zone = zone, !.number = number, !.status = status]
In(zone) == {s \in SeatIds : Exists(s) /\ seats[s].zone = zone}
Taken(zone, number, except) == \E s \in In(zone) \ {except} : seats[s].number = number

Current == {"later", "soon", "active"}      \* before its door window, in it, begun
Fresh == [now |-> "none", n |-> 0]
Shut == [recent |-> FALSE, pulses |-> 0, lost |-> 0, met |-> FALSE]

NoCall == [op |-> "none", pc |-> "-", seat |-> "-", zone |-> "-", number |-> 0, status |-> "-",
         seen |-> "-", n |-> 0, todo |-> {}, plan |-> {}]

HallInit ==
    /\ zones = {FirstSeats[s].zone : s \in DOMAIN FirstSeats}
    /\ seats = [s \in SeatIds |->
           IF s \in DOMAIN FirstSeats
           THEN [Row(FirstSeats[s].zone, FirstSeats[s].number, "free") EXCEPT !.placed = TRUE]
           ELSE Unused]
    \* a new club, or one whose first seats are booked
    /\ \/ held = [s \in SeatIds |-> Fresh] /\ lock = "mock"
       \/ /\ held = [s \in SeatIds |-> IF s \in DOMAIN FirstSeats
                                      THEN [now |-> "soon", n |-> 1] ELSE Fresh]
          /\ lock = "http"
    /\ door = [s \in SeatIds |-> Shut] /\ call = [r \in Requesters |-> NoCall] /\ ops = 0

-----------------------------------------------------------------------------
(* Requests come, go on and end.                                           *)

Reached(r, op, pc) == call[r].op = op /\ call[r].pc = pc
Proceeds(r, pc) == call' = [call EXCEPT ![r].pc = pc]
Finishes(r) == call' = [call EXCEPT ![r] = NoCall]

Come(op, first) ==
    /\ op \in Kinds /\ ops < MaxOps /\ ops' = ops + 1
    /\ LET idle == {r \in Workers : call[r] = NoCall} IN     \* they are alike
           idle # {} /\ call' = [call EXCEPT ![CHOOSE r \in idle : TRUE] = [first EXCEPT !.op = op]]
    /\ UNCHANGED <<zones, seats, held, lock>>

\* What a list may show that was fetched any time ago, and with it what a request may name.
ListedSeats == {s \in SeatIds : seats[s] # Unused}
ListedZones == Zones
ListedBookings == {s \in SeatIds : held[s].n > 0}
FloorMap == ListedSeats

CreateSeat ==
    \E z \in ListedZones, k \in Numbers, st \in Forms :
        /\ Come("create", [NoCall EXCEPT !.pc = "check", !.zone = z, !.number = k, !.status = st])
        /\ UNCHANGED door

SaveSeat ==
    \E s \in ListedSeats, z \in ListedZones, k \in Numbers, st \in Forms :
        /\ Come("update", [NoCall EXCEPT !.pc = "read", !.seat = s, !.zone = z, !.number = k,
                                       !.status = st])
        /\ UNCHANGED door

QuickStatus ==
    \E s \in ListedSeats, st \in Boxes :
        /\ UNCHANGED door
        /\ Come("update", [NoCall EXCEPT !.pc = "read", !.seat = s, !.status = st])

DeleteSeat ==
    \E s \in ListedSeats :
        Come("delete", [NoCall EXCEPT !.pc = "read", !.seat = s]) /\ UNCHANGED door

DeleteZone == \E z \in ListedZones :
    Come("deleteZone", [NoCall EXCEPT !.pc = "count", !.zone = z]) /\ UNCHANGED door

CancelBooking ==
    \E s \in ListedBookings :
        /\ UNCHANGED door
        /\ Come("cancel", [NoCall EXCEPT !.pc = "read", !.seat = s, !.n = held[s].n])

Book ==
    \E s \in FloorMap : Come("book", [NoCall EXCEPT !.pc = "read", !.seat = s]) /\ UNCHANGED door

OpenDoor ==
    \E s \in ListedBookings :
        /\ Come("door", [NoCall EXCEPT !.pc = "read", !.seat = s, !.n = held[s].n])
        /\ door' = [door EXCEPT ![s].met = @ \/ \E r \in Workers :
                        call[r].op = "door" /\ call[r].seat = s]

\* one write each, the slug's key decides
Created(z) == zones \cup {z}

CreateZone ==
    /\ "createZone" \in Kinds /\ ops < MaxOps /\ ops' = ops + 1
    /\ \E z \in Zones : zones' = Created(z)
    /\ UNCHANGED <<seats, held, door, lock, call>>

\* what the page sends: simulated, or over the bridge
Providers == {"mock", "http"}
MayFail(provider) == provider # "mock"

SaveLock ==
    /\ "door" \in Kinds /\ ops < MaxOps /\ ops' = ops + 1
    /\ lock' \in Providers
    /\ UNCHANGED <<zones, seats, held, door, call>>

-----------------------------------------------------------------------------
(* The administrators' handlers.                                           *)

tables == <<zones, seats, held, door, lock, ops>>

CheckNew(r) ==
    /\ Reached(r, "create", "check")
    /\ IF call[r].zone \in zones /\ ~Taken(call[r].zone, call[r].number, "-")
       THEN Proceeds(r, "insert") ELSE Finishes(r)
    /\ UNCHANGED tables

\* Done when the row is there. (a fault the runs must notice).
InsertSeatOnly(r) ==
    /\ Reached(r, "create", "insert")
    /\ \/ /\ call[r].zone \in zones /\ ~Taken(call[r].zone, call[r].number, "-")
          /\ \E s \in SeatIds :
                /\ seats[s] = Unused
                /\ seats' = [seats EXCEPT ![s] = Row(call[r].zone, call[r].number, call[r].status)]
          /\ Finishes(r)
       \/ /\ call[r].zone \notin zones \/ Taken(call[r].zone, call[r].number, "-")
          /\ Finishes(r) /\ UNCHANGED seats
    /\ UNCHANGED <<zones, held, door, lock, ops>>

\* the keys (zone, number) and zone decide; the new seat stands in the map's corner
InsertSeat(r) ==
    /\ Reached(r, "create", "insert")
    /\ \/ /\ call[r].zone \in zones /\ ~Taken(call[r].zone, call[r].number, "-")
          /\ \E s \in SeatIds :
                /\ seats[s] = Unused
                /\ seats' = [seats EXCEPT ![s] = Row(call[r].zone, call[r].number, call[r].status)]
          /\ Proceeds(r, "arrange")
       \/ /\ call[r].zone \notin zones \/ Taken(call[r].zone, call[r].number, "-")
          /\ Finishes(r) /\ UNCHANGED seats
    /\ UNCHANGED <<zones, held, door, lock, ops>>

\* the zone's seats are read, then placed in one transaction that fails if one is gone
Arrange(r) ==
    /\ call[r].pc = "arrange"
    /\ call' = [call EXCEPT ![r] = IF In(call[r].zone) = {} THEN NoCall
                                 ELSE [@ EXCEPT !.pc = "place", !.plan = In(call[r].zone)]]
    /\ UNCHANGED tables

\* the grid has a place for every seat
Laid(row) == [row EXCEPT !.placed = TRUE]

Place(r) ==
    /\ call[r].pc = "place" /\ Finishes(r)
    /\ seats' = IF \A s \in call[r].plan : Exists(s)
                THEN [s \in SeatIds |-> IF s \in call[r].plan THEN Laid(seats[s]) ELSE seats[s]]
                ELSE seats
    /\ UNCHANGED <<zones, held, door, lock, ops>>

\* a form names zone and number, the list's status box neither
ReadSeat(r) ==
    LET q == call[r] IN
    /\ Reached(r, "update", "read")
    /\ IF ~Exists(q.seat) \/ (q.number # 0 /\ Taken(q.zone, q.number, q.seat)) THEN Finishes(r)
       ELSE Proceeds(r, IF q.status = "free" /\ seats[q.seat].status = "occupied"
                        THEN "guard" ELSE "write")
    /\ UNCHANGED tables

GuardFree(r) ==
    /\ Reached(r, "update", "guard")
    /\ IF held[call[r].seat].now = "active" THEN Finishes(r) ELSE Proceeds(r, "write")
    /\ UNCHANGED tables

UpdateSeat(r) ==
    LET q == call[r]
        row == seats[q.seat] IN
    /\ Reached(r, "update", "write") /\ Finishes(r)
    /\ seats' =
         IF ~Exists(q.seat) THEN seats
         ELSE IF q.number = 0 THEN [seats EXCEPT ![q.seat].status = q.status]
         ELSE IF q.zone \notin zones \/ Taken(q.zone, q.number, q.seat) THEN seats
         ELSE [seats EXCEPT ![q.seat] = [row EXCEPT
                  !.status = q.status, !.number = q.number, !.zone = q.zone,
                  !.moved = row.moved \/ row.zone # q.zone]]
    /\ UNCHANGED <<zones, held, door, lock, ops>>

\* a seat that was ever booked is not deleted
CheckDeletable(r) ==
    LET s == call[r].seat IN
    /\ Reached(r, "delete", "read")
    /\ call' = [call EXCEPT ![r] =
           IF Exists(s) /\ held[s] = Fresh
           THEN [@ EXCEPT !.pc = "delete", !.zone = seats[s].zone] ELSE NoCall]
    /\ UNCHANGED tables

\* The bookings go with the seat. (a fault the runs must notice).
DeletableAlways(s) == TRUE

\* the bookings that name the seat keep its row (the key of BookingSeat)
Deletable(s) == held[s] = Fresh

RemoveSeat(r) ==
    LET s == call[r].seat IN
    /\ Reached(r, "delete", "delete")
    /\ IF Exists(s) /\ Deletable(s)
       THEN seats' = [seats EXCEPT ![s] = Gone(s)] /\ Proceeds(r, "arrange")
       ELSE Finishes(r) /\ UNCHANGED seats
    /\ UNCHANGED <<zones, held, door, lock, ops>>

CountSeats(r) ==
    /\ Reached(r, "deleteZone", "count")
    /\ IF call[r].zone \in zones /\ In(call[r].zone) = {}
       THEN Proceeds(r, "delete") ELSE Finishes(r)
    /\ UNCHANGED tables

\* a seat created since goes with its zone, unless it has been booked
RemoveZone(r) ==
    LET z == call[r].zone IN
    /\ Reached(r, "deleteZone", "delete") /\ Finishes(r)
    /\ IF z \in zones /\ \A s \in In(z) : Deletable(s)
       THEN /\ zones' = zones \ {z}
            /\ seats' = [s \in SeatIds |-> IF s \in In(z) THEN Gone(s) ELSE seats[s]]
       ELSE UNCHANGED <<zones, seats>>
    /\ UNCHANGED <<held, door, lock, ops>>

ReadBooking(r) ==
    /\ Reached(r, "cancel", "read")
    /\ IF held[call[r].seat].n = call[r].n /\ held[call[r].seat].now \in Current
       THEN Proceeds(r, "write") ELSE Finishes(r)
    /\ UNCHANGED tables

\* the seat is declared free, whatever it was
WriteCancelled(r) ==
    LET s == call[r].seat IN
    /\ Reached(r, "cancel", "write") /\ Finishes(r)
    /\ held' = IF held[s].n = call[r].n THEN [held EXCEPT ![s].now = "none"] ELSE held
    /\ seats' = [seats EXCEPT ![s].status = "free"]
    /\ UNCHANGED <<zones, door, lock, ops>>

-----------------------------------------------------------------------------
(* The players'.                                                           *)

ReadFree(r) ==
    LET s == call[r].seat IN
    /\ Reached(r, "book", "read")
    /\ IF Exists(s) /\ seats[s].status # "repair" /\ held[s].now = "none"
       THEN Proceeds(r, "insert") ELSE Finishes(r)
    /\ UNCHANGED tables

\* paid at once, and the second booking of a slot fails: BookingRequests has what comes between
InsertBooking(r) ==
    LET s == call[r].seat IN
    /\ Reached(r, "book", "insert")
    /\ \/ /\ Exists(s) /\ held[s].now = "none" /\ held[s].n < MaxBookings
          /\ \E now \in {"later", "soon"} :
                held' = [held EXCEPT ![s] = [now |-> now, n |-> held[s].n + 1]]
          /\ door' = [door EXCEPT ![s] = Shut]
          /\ Proceeds(r, "look")
       \/ /\ ~Exists(s) \/ held[s].now # "none" \/ held[s].n = MaxBookings
          /\ Finishes(r) /\ UNCHANGED <<held, door>>
    /\ UNCHANGED <<zones, seats, lock, ops>>

\* refused before the door window and within the cooldown of an earlier opening
ReadSession(r) ==
    LET s == call[r].seat IN
    /\ Reached(r, "door", "read")
    /\ call' = [call EXCEPT ![r] =
           IF /\ held[s].n = call[r].n /\ held[s].now \in {"soon", "active"}
              /\ ~door[s].recent
           THEN [@ EXCEPT !.pc = "open", !.seen = lock] ELSE NoCall]
    /\ UNCHANGED tables

Opens(r, lost) ==
    LET s == call[r].seat IN
    door' = IF held[s].n = call[r].n
            THEN [door EXCEPT ![s].pulses = @ + 1, ![s].lost = @ + lost] ELSE door

\* the request to the bridge may fail, with the door shut or after it has opened; no row is written
Pulse(r) ==
    /\ Reached(r, "door", "open")
    /\ \/ Proceeds(r, "begin") /\ Opens(r, 0)
       \/ MayFail(call[r].seen) /\ Finishes(r) /\ (UNCHANGED door \/ Opens(r, 1))
    /\ UNCHANGED <<zones, seats, held, lock, ops>>

\* a booking that is due begins
BeginAtDoor(r) ==
    LET s == call[r].seat IN
    /\ Reached(r, "door", "begin") /\ Proceeds(r, "log")
    /\ \/ UNCHANGED <<held, seats>>
       \/ /\ held[s] = [now |-> "soon", n |-> call[r].n]
          /\ held' = [held EXCEPT ![s].now = "active"]
          /\ seats' = [seats EXCEPT ![s].status = "occupied"]
    /\ UNCHANGED <<zones, door, lock, ops>>

\* The row does not name the booking. (a fault the runs must notice).
LogOpenedNameless(r) == Reached(r, "door", "log") /\ Finishes(r) /\ UNCHANGED tables

\* not awaited: the answer has been sent, and the player may ask again before the row is there
LogOpened(r) ==
    LET s == call[r].seat IN
    /\ Reached(r, "door", "log") /\ Finishes(r)
    /\ door' = IF held[s].n = call[r].n THEN [door EXCEPT ![s].recent = TRUE] ELSE door
    /\ UNCHANGED <<zones, seats, held, lock, ops>>

\* assumed: a request about the door takes less than the cooldown
CooldownOver(s) ==
    /\ door[s] # Shut /\ \A r \in Workers : ~(call[r].op = "door" /\ call[r].seat = s)
    /\ door' = [door EXCEPT ![s] = Shut]
    /\ UNCHANGED <<zones, seats, held, lock, call, ops>>

-----------------------------------------------------------------------------
(* Time, and the pass that every list and every minute starts.             *)

Display(s) == IF held[s].now = "active" THEN "occupied"
              ELSE IF held[s].now = "soon" THEN "reserved" ELSE "free"

DoorWindow(s) == held[s].now = "later" /\ held' = [held EXCEPT ![s].now = "soon"] /\ UNCHANGED seats
Begin(s) ==
    /\ held[s].now = "soon" /\ held' = [held EXCEPT ![s].now = "active"]
    /\ seats' = [seats EXCEPT ![s].status = "occupied"]
Over(s) == held[s].now \in Current /\ held' = [held EXCEPT ![s].now = "none"] /\ UNCHANGED seats

Progress(s) == (DoorWindow(s) \/ Begin(s) \/ Over(s)) /\ UNCHANGED <<zones, door, lock, call, ops>>

StartPass ==
    /\ call["pass"] = NoCall
    /\ call' = [call EXCEPT !["pass"] = [NoCall EXCEPT !.op = "pass", !.pc = "next",
                   !.todo = {s \in SeatIds : Exists(s) /\ seats[s].status # "repair"}]]
    /\ UNCHANGED tables

NextSeat ==
    LET p == call["pass"] IN
    /\ Reached("pass", "pass", "next")
    /\ \/ p.todo = {} /\ Finishes("pass")
       \/ \E s \in p.todo :
             call' = [call EXCEPT !["pass"] =
                         [p EXCEPT !.pc = "look", !.seat = s, !.todo = p.todo \ {s}]]
    /\ UNCHANGED tables

Recomputed(r) == IF call[r].op = "pass" THEN Proceeds(r, "next") ELSE Finishes(r)

\* A seat under repair is recomputed too. (a fault the runs must notice).
LookAnyway(r) ==
    LET s == call[r].seat IN
    /\ call[r].pc = "look"
    /\ IF ~Exists(s) THEN Recomputed(r)
       ELSE call' = [call EXCEPT ![r] = [@ EXCEPT !.pc = "weigh", !.seen = seats[s].status]]
    /\ UNCHANGED tables

\* recomputeSeatDbStatus: the seat is read, then its bookings, then it is written
Look(r) ==
    LET s == call[r].seat IN
    /\ call[r].pc = "look"
    /\ IF ~Exists(s) \/ seats[s].status = "repair" THEN Recomputed(r)
       ELSE call' = [call EXCEPT ![r] = [@ EXCEPT !.pc = "weigh", !.seen = seats[s].status]]
    /\ UNCHANGED tables

\* A reserved seat is left alone. (a fault the runs must notice).
WeighUnreserved(r) ==
    /\ call[r].pc = "weigh"
    /\ IF Display(call[r].seat) = call[r].seen \/ call[r].seen = "reserved" THEN Recomputed(r)
       ELSE call' = [call EXCEPT ![r] = [@ EXCEPT !.pc = "flag", !.status = Display(call[r].seat)]]
    /\ UNCHANGED tables

Weigh(r) ==
    /\ call[r].pc = "weigh"
    /\ IF Display(call[r].seat) = call[r].seen THEN Recomputed(r)
       ELSE call' = [call EXCEPT ![r] = [@ EXCEPT !.pc = "flag", !.status = Display(call[r].seat)]]
    /\ UNCHANGED tables

\* the update of a row that is gone ends the whole pass
Flag(r) ==
    LET s == call[r].seat IN
    /\ call[r].pc = "flag"
    /\ IF Exists(s) THEN seats' = [seats EXCEPT ![s].status = call[r].status] /\ Recomputed(r)
       ELSE Finishes(r) /\ UNCHANGED seats
    /\ UNCHANGED <<zones, held, door, lock, ops>>

-----------------------------------------------------------------------------
Requests ==
    \/ CreateSeat \/ SaveSeat \/ QuickStatus \/ DeleteSeat \/ CreateZone \/ DeleteZone
    \/ CancelBooking \/ Book \/ OpenDoor \/ SaveLock

HallHandler(r) ==
    \/ CheckNew(r) \/ InsertSeat(r) \/ Arrange(r) \/ Place(r)
    \/ ReadSeat(r) \/ GuardFree(r) \/ UpdateSeat(r)
    \/ CheckDeletable(r) \/ RemoveSeat(r) \/ CountSeats(r) \/ RemoveZone(r)
    \/ ReadBooking(r) \/ WriteCancelled(r) \/ ReadFree(r) \/ InsertBooking(r)
    \/ ReadSession(r) \/ Pulse(r) \/ BeginAtDoor(r) \/ LogOpened(r)

Recompute(r) == Look(r) \/ Weigh(r) \/ Flag(r)

HallNext ==
    \/ Requests
    \/ \E r \in Workers : HallHandler(r)
    \/ \E r \in Requesters : Recompute(r)
    \/ \E s \in SeatIds : Progress(s) \/ CooldownOver(s)
    \/ StartPass \/ NextSeat

HallSpec == HallInit /\ [][HallNext]_hallVars

\* a request that has begun goes on; a pass comes every minute
FairHallSpec ==
    /\ HallSpec
    /\ \A r \in Workers : WF_hallVars(HallHandler(r) \/ Recompute(r))
    /\ WF_hallVars(StartPass \/ NextSeat \/ Recompute("pass"))

-----------------------------------------------------------------------------
(* Properties                                                              *)

SeatStatuses == {"free", "occupied", "reserved", "repair"}

\* Type invariant, with the schema's keys: a seat's zone exists, its number is its own.
HallTypeOK ==
    /\ zones \subseteq Zones
    /\ \A s \in SeatIds : Exists(s) => seats[s].zone \in zones /\ seats[s].status \in SeatStatuses
    /\ \A s, t \in SeatIds : Exists(s) /\ Exists(t) /\ s # t
           => <<seats[s].zone, seats[s].number>> # <<seats[t].zone, seats[t].number>>
    /\ \A s \in SeatIds : held[s].now \in Current \cup {"none"} /\ held[s].n \in 0..MaxBookings

\* A seat that was ever booked keeps its row: the checks of deleteSeat and deleteZone are passed
\* by a booking, or a whole seat, that comes after them, and the schema's key stops the delete.
BookedSeatStays == \A s \in SeatIds : held[s].n > 0 => Exists(s)

\* A seat that is out of service, held by nobody and seen in service by no request still on its
\* way, stays so and is not booked until a request of an administrator about it, or about its
\* zone, writes (createBooking, updateSeat, recomputeSeatDbStatus).
Late(s) == {r \in Requesters : /\ call[r].seat = s
                          /\ \/ call[r].pc \in {"weigh", "flag"} /\ call[r].seen # "repair"
                             \/ Reached(r, "book", "insert")}
OutOfService(s) ==
    Exists(s) /\ seats[s].status = "repair" /\ held[s].now = "none" /\ Late(s) = {}
Writes(r, s) ==
    \/ /\ call[r].seat = s
       /\ \/ Reached(r, "update", "write") \/ Reached(r, "cancel", "write")
          \/ Reached(r, "delete", "delete")
    \/ call[r].zone = seats[s].zone /\ Reached(r, "deleteZone", "delete")
Changed(s) == \E r \in Workers : Writes(r, s) /\ call'[r] # call[r]
OutOfServiceStays ==
    [][\A s \in SeatIds : OutOfService(s) /\ ~OutOfService(s)' => Changed(s)]_hallVars

\* However creations and deletions overlap, when all are done no new seat is left in the corner
\* of the map, unless seats were moved to another zone meanwhile: the new seat itself, or one that
\* was deleted while its old zone, or its new one, was laid out with it (createSeat, deleteSeat,
\* relayoutZoneSeats).
MovedAndDeleted == {s \in SeatIds : seats[s].at = "gone" /\ seats[s].moved}
NewSeatsArePlaced ==
    (\A r \in Workers : call[r] = NoCall) /\ MovedAndDeleted = {}
        => \A s \in SeatIds : Exists(s) => seats[s].placed \/ seats[s].moved

\* Within one cooldown the door opens once, and once more for each opening the bridge reported as
\* a failure - unless a request came while the row of an earlier one was not written yet, before
\* its answer or just after (openMainDoor reads the log first and writes it last).
DoorOncePerCooldown ==
    \A s \in SeatIds : door[s].met \/ door[s].pulses <= 1 + door[s].lost

\* Whatever administrators set by hand and however passes overlap with requests, in the end the
\* flag of a seat in service says what its bookings say.
FlagsComeRight ==
    \A s \in SeatIds :
        <>[](Exists(s) => seats[s].status \in {"repair", Display(s)})

-----------------------------------------------------------------------------
(* The invariant that the safety properties rest on.                       *)

SeatRows == [at : {"unused", "row", "gone"}, zone : Zones \cup {"-"}, number : Numbers \cup {0},
             status : SeatStatuses, placed : BOOLEAN, moved : BOOLEAN]
Holds == [now : Current \cup {"none"}, n : 0..MaxBookings]
Doors == [recent : BOOLEAN, pulses : Nat, lost : Nat, met : BOOLEAN]
Points == {"-", "check", "insert", "arrange", "place", "read", "guard", "write", "delete", "count",
           "open", "begin", "log", "next", "look", "weigh", "flag"}
Calls ==
    [op : Kinds \cup {"none", "pass"},
     pc : Points,
     seat : SeatIds \cup {"-"}, zone : Zones \cup {"-"}, number : Numbers \cup {0},
     status : SeatStatuses \cup {"-"}, seen : SeatStatuses \cup Providers \cup {"-"},
     n : 0..MaxBookings, todo : SUBSET SeatIds, plan : SUBSET SeatIds]

\* What a request carries at its program point.
Shaped(c) ==
    /\ c.op \in {"update", "delete", "cancel", "book", "door"} => c.seat \in SeatIds
    /\ c.op \in {"create", "update"} => c.status \in SeatStatuses
    /\ c.pc \in {"look", "weigh", "flag"} => c.seat \in SeatIds /\ c.op # "door"
    /\ c.pc \in {"weigh", "flag"} => c.seen # "repair"
    /\ c.pc = "flag" => c.status \in SeatStatuses
    /\ c.pc \in {"arrange", "place"} => c.op # "door"
    /\ c.op = "door" => c.n <= held[c.seat].n

\* A seat about to be deleted or placed is in the zone it was read in, unless it has been moved.
Informed(c) ==
    /\ c.op = "delete" /\ c.pc = "delete" =>
           /\ seats[c.seat].at # "unused"
           /\ Exists(c.seat) /\ ~seats[c.seat].moved => seats[c.seat].zone = c.zone
    /\ c.pc = "place" => \A s \in c.plan :
           /\ seats[s].at # "unused"
           /\ Exists(s) /\ ~seats[s].moved => seats[s].zone = c.zone

\* A seat in the corner of the map is on its way to a place: its zone will be laid out, or is,
\* with none of the zone's seats gone.
InTheCorner(s) == Exists(s) /\ ~seats[s].placed /\ ~seats[s].moved
Placing(c, s) ==
    \/ c.pc = "arrange" /\ c.zone = seats[s].zone
    \/ c.pc = "place" /\ s \in c.plan /\ \A t \in c.plan : Exists(t)
CornersAreTransient ==
    MovedAndDeleted = {} =>
        \A s \in SeatIds : InTheCorner(s) => \E r \in Workers : Placing(call[r], s)

\* Of the present booking, while no request about the door met one not yet logged: there is one
\* at most, and a pulse that was not reported as a failure is in the log or on its way there.
AtDoor(c, s) == c.op = "door" /\ c.seat = s /\ c.n = held[s].n
DoorCalls(s) == {r \in Workers : AtDoor(call[r], s)}
PulseIsLogged(s) ==
    /\ \A r, q \in DoorCalls(s) : r = q
    /\ door[s].recent => \A r \in DoorCalls(s) : call[r].pc # "open"
    /\ door[s].pulses <= 1 + door[s].lost
    /\ door[s].pulses > door[s].lost =>
           door[s].recent \/ \E r \in DoorCalls(s) : call[r].pc \in {"begin", "log"}

HallInv ==
    /\ HallTypeOK
    /\ seats \in [SeatIds -> SeatRows] /\ held \in [SeatIds -> Holds]
    /\ door \in [SeatIds -> Doors] /\ lock \in Providers
    /\ call \in [Requesters -> Calls]
    /\ \A r \in Requesters : Shaped(call[r]) /\ Informed(call[r])
    /\ BookedSeatStays
    /\ CornersAreTransient
    /\ \A s \in SeatIds : door[s].met \/ PulseIsLogged(s)
=============================================================================
