SPECIFICATION Spec
CONSTANTS
    t1 = t1
    t2 = t2
    v1 = v1
    v2 = v2
    c1 = c1
    c2 = c2
    c3 = c3
    c4 = c4
    NoThread = NoThread
    NoVehicle = NoVehicle
    NoCode = NoCode
    Threads = {t1, t2}
    Vehicles = {v1, v2}
    Codes = {c1, c2, c3}
    SeedFleet = {v1}
    Ops = {"Rent", "ReturnById", "ReturnByCode", "Add", "Remove"}
    UpdateStatuses = {"Available", "Maintenance"}
    PrinterOutcomes = {"printed", "PrinterException", "otherException"}
    CodeReuse = TRUE
    MaxCalls = 4
    MaxFaults = 1
    MaxRestarts = 1
SYMMETRY Symmetry
INVARIANTS
    OneRentalPerVehicle
    CheckoutRecorded
    DamageBounded
