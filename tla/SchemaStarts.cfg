SPECIFICATION Spec
CONSTANTS
    Mapped <- Columns
    Listed <- Additive
    OldShapes <- Shapes
    Backends = {"sqlite", "postgres"}
    MaxFailures = 2
    MaxStarts = 4
INVARIANTS
    ListedColumnsPresent
    FreshInstallComplete
PROPERTIES
    StartsUp
CHECK_DEADLOCK FALSE
