CONSTANTS
    Unset = Unset
    FirstList <- MCFirstList
    NewIds <- MCNewIds
    Dates = {20, 22}
    CustomHours = {4}
    Offered = {"night", "eve"}
    MaxTurns = 1
    MaxRows = 2
    MaxUpsets = 1
SPECIFICATION CheckoutSpec
INVARIANTS ChargedAsShown DraftInStep ConfirmedStays ExtendedAsShown CustomPriceAgrees
CHECK_DEADLOCK FALSE
