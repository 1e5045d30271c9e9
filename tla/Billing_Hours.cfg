SPECIFICATION Spec
CONSTANTS
    IntMax = 2500004
    TicksPerSecond = 2
    SecondsPerHour = 2
    Prices = {1250, 999999, 1000057}
    MaxTime = 12
    MaxBack = 5
    MaxRentals = 2
    MaxRestarts = 2
INVARIANTS
    TypeOK
    BillCoversRental
    BillAtAgreedPrice
CHECK_DEADLOCK FALSE
