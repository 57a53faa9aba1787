SPECIFICATION StampSpec
CONSTANTS
    ann = ann
    bob = bob
    d1 = d1
    d2 = d2
    stampKey = stampKey
    licenceKey = licenceKey
    stranger = stranger
    KeyPair = {stampKey, licenceKey, stranger}
    Payload <- PayloadsInUse
    NoSignature = NoSignature
    Garbage = Garbage
    Tree = {"pkg"}
    Sites = 2
    SiteCounts = {1, 2}
    Modes <- Options
    Customer = {ann, bob}
    DownloadId = {d1, d2}
    NoCustomer = NoCustomer
    StampKey = stampKey
    StampTrust = {stampKey}
    LicenceKey = licenceKey
    LicenceTrust = {licenceKey}
    Stranger = stranger
    Absent = Absent
    Broken = Broken
    Fragment = Fragment
    MaxRuns = 2
SYMMETRY StampSymmetry
INVARIANT TokensFound
CHECK_DEADLOCK FALSE
