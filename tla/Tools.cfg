SPECIFICATION Spec
CONSTANTS
    ann = ann
    bob = bob
    d1 = d1
    d2 = d2
    stampKey = stampKey
    licenceKey = licenceKey
    stranger = stranger
    KeyPair = {stampKey, licenceKey, stranger}
    Payload <- PayloadsInUse
    NoSignature = NoSignature
    Garbage = Garbage
    Tree = {"pkg"}
    Sites = 2
    SiteCounts = {1, 2}
    Modes <- Options
    Customer = {ann, bob}
    DownloadId = {d1, d2}
    NoCustomer = NoCustomer
    StampKey = stampKey
    StampTrust = {stampKey}
    LicenceKey = licenceKey
    LicenceTrust = {licenceKey}
    Stranger = stranger
    Absent = Absent
    Broken = Broken
    Fragment = Fragment
    MaxRuns = 2
    lic = lic
    pro = pro
    team = team
    Licence = {lic}
    Machine = {1, 2, 3, 4, 5, 6, 7, 8, 9, 10, 11}
    Tier = {pro, team}
    Terms <- Sold
    DefaultSeats <- Default
    Fields = {"all", "undated", "text", "none"}
    None = None
    Bad = Bad
    Window = 0
    MaxLedger = 11
    Starts = {0, 2, 8}
    MaxCheckIns = 3
    MaxDay = 1
SYMMETRY StampSymmetry
INVARIANTS
    StampTypeOK
    OkNamesContributors
    SurvivorNames
    PrivacyKept
    ReportedIffOver
    AllowanceWasBought
PROPERTIES
    ResolvedForGood
    NotifyFirst
CHECK_DEADLOCK FALSE
