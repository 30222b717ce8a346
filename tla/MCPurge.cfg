SPECIFICATION PurgeSpec
CONSTANTS
    SystemNamespaces <- Namespaces
    Objects <- AllObjects
    SystemObjects <- BootObjects
    CachedTable <- CacheRows
    CachedId = 3
    MaxNamespaceRetries = 2
    BaselineQueryRetries = 3
    MaxId = 5
    MaxLeases = 3
CHECK_DEADLOCK FALSE
INVARIANTS
    PurgeTypeOK
    ConnectionsOwned
PROPERTIES
    PurgeExact
    DatabaseImplementsLease
