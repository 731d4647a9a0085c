SPECIFICATION FairSpec
CONSTANTS
    Changes = {"qa-pages", "qa-critical", "latency", "retired"}
    Repository <- MCRepository
    Inventories <- MCInventories
    MaxDay = 1
    MaxHands = 1
    Fragile <- MCFragile
INVARIANTS
    ValidatedIsDeployable
    BuiltAsResolved
    CatalogAsResolved
PROPERTIES
    GreenIsCovered
    SilencedOnPurpose
    LiveErrorIsRed
    ExpiryIsReported
