SPECIFICATION IntakeSpec
CONSTANTS
    a = a
    x = x
    k1 = k1
    k2 = k2
    token = token
    wrong = wrong
    NoInstall = NoInstall
    NoLicense = NoLicense
    NoSignature = NoSignature
    Garbage = Garbage
    Ip = {a}
    Install = {x}
    Bearer = {token, wrong}
    Tier = {"associate", "master"}
    KeyPair = {k1, k2}
    Payload <- Payloads
    License <- Licenses
    Deployments <- Configured
    IpKey <- IpKeys
    InstallKey <- InstallKeys
    Limit <- Limits
    Window = 1
    MaxClock = 2
    MaxReports = 3
INVARIANTS
    IntakeTypeOK
    WindowBound
    SlotsAreReports
    WithinBudget
    TierIsProven
PROPERTIES
    ImplementsSlidingWindow
