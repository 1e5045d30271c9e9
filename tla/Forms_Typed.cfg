SPECIFICATION FairSpec
CONSTANTS
    acme = acme
    comma = comma
    code = code
    NoName = NoName
    NoCode = NoCode
    IntMax = 5000004
    ByteSize = 256
    WordSize = 10000010
    LongSize = 100000000
    PlainNames = {acme}
    BadNames = {comma}
    Ids = {200, 201, 202}
    Seeded <- MCSeeded
    RentalCodes <- MCRentalCodes
    Forms <- MCForms
    Filters <- MCFilters
    Choices <- MCChoices
    Contained <- MCContained
    MaxRegistered = 2
    MaxRestarts = 1
INVARIANTS
    TypeOK
    FoundAsTyped
    ShownIsMeant
    ExitOnlyFromBadInput
PROPERTIES
    SaveEnds
