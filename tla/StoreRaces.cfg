SPECIFICATION Spec
CONSTANTS
    NoTicket = NoTicket
    Fingerprint = {fp1}
    fp1 = fp1
    NoFp = NoFp
    Origin = {o1, o2}
    o1 = o1
    o2 = o2
    NoOrigin = NoOrigin
    Source = {"forward", "web"}
    Severity = {"s1_crash", "s2_broken", "s3_degraded", "unlisted"}
    Tier = {"team", "associate"}
    Procs = {p1, p2}
    TicketId = {t1, t2, t3}
    Statuses = {"new", "closed"}
    Submissions <- MixedSubmissions
    MaxReports = 3
    MaxClock = 1
SYMMETRY Symmetric
INVARIANTS
    PriorityConsistent
    MergedReportsMatch
    NoOvercount
    DuplicatesBounded
    ReceiptsAreDurable
    SeenInOrder
PROPERTIES
    IdentityIsPermanent
    ImplementsSharedLedger
CHECK_DEADLOCK FALSE
