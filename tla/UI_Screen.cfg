SPECIFICATION FairSpec
CONSTANTS
    v1 = v1
    v2 = v2
    c1 = c1
    c2 = c2
    NoVehicle = NoVehicle
    NoCode = NoCode
    Vehicles = {v1, v2}
    Codes = {c1, c2}
    Loaded <- MCLoaded
    LogLimit = 2
    Troubles = {{}, {"storage", "printer"}, {"lowercase", "storage", "printer", "load"}}
    MaxInputs = 3
INVARIANTS
    TypeOK
    ViewFresh
    ModalsFresh
    LogsFresh
PROPERTIES
    Disciplined
    LoadingEnds
