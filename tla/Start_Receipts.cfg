SPECIFICATION ReceiptsSpec
CONSTANTS
    PluginFiles <- Files
    MaxPlugins = 2
    MaxLines = 1
    MaxArgs = 2
    MaxPrints = 1
INVARIANTS
    WellTyped
    CommandLineWins
    RefusedStartLeavesNoTrace
    NoSocketLeaks
    PrintedOverConnection
CHECK_DEADLOCK FALSE
