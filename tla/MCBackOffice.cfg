CONSTANTS
    Zones = {"solo", "vip"}
    SeatIds = {"s1", "s2"}
    Numbers = {1, 2}
    FirstSeats <- MCFirstSeats
    Kinds = {"create", "update", "delete", "createZone", "deleteZone", "cancel", "book", "door"}
    Forms = {"free"}
    Boxes = {"free", "reserved", "repair"}
    Workers = {"a", "b"}
    MaxOps = 2
    MaxBookings = 1
SPECIFICATION FairHallSpec
INVARIANTS BookedSeatStays NewSeatsArePlaced DoorOncePerCooldown
PROPERTIES OutOfServiceStays FlagsComeRight
CHECK_DEADLOCK FALSE
