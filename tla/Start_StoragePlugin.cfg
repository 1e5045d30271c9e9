SPECIFICATION ReceiptsSpec
CONSTANTS
    PluginFiles <- StorageOnly
    MaxPlugins = 1
    MaxLines = 0
    MaxArgs = 1
    MaxPrints = 0
INVARIANTS
    StoragePluginsRegistered
CHECK_DEADLOCK FALSE
