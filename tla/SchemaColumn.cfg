SPECIFICATION Spec
CONSTANTS
    Mapped <- Columns
    Listed <- Additive
    OldShapes <- Shapes
    Backends = {"sqlite", "postgres"}
    MaxFailures = 0
    MaxStarts = 1
INVARIANTS
    TicketRoutesWork
CHECK_DEADLOCK FALSE
