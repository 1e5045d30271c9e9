SPECIFICATION FairSpec
CONSTANTS
    ui = ui
    worker = worker
    Searchers = {ui}
    Callers = {worker}
    NoThread = NoThread
    Cards = 3
INVARIANTS
    TypeOK
    SearchExact
PROPERTIES
    SearchEnds
    WriterServed
