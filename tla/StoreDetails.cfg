SPECIFICATION Spec
CONSTANTS
    NoTicket = NoTicket
    Fingerprint = {fp1}
    fp1 = fp1
    NoFp = NoFp
    Origin = {o1, o2}
    o1 = o1
    o2 = o2
    NoOrigin = NoOrigin
    Source = {"forward", "web"}
    Severity = {"s1_crash", "s2_broken", "s3_degraded", "unlisted"}
    Tier = {"team", "associate"}
    Procs = {p1}
    TicketId = {t1, t2}
    Statuses = {"new"}
    Submissions <- TwoBoxes
    MaxReports = 2
    MaxClock = 0
INVARIANT DetailsAreKept
CHECK_DEADLOCK FALSE
