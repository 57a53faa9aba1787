SPECIFICATION Spec
CONSTANTS
    NoSignature = NoSignature
    Garbage = Garbage
    NoCustomer = NoCustomer
    k1 = k1
    k2 = k2
    stable = stable
    c1 = c1
    KeyPair = {k1, k2}
    Payload <- Payloads
    Procs = {p1, p2}
    Backend = "postgres"
    Channel = {stable}
    Customer = {c1}
    Submitted <- Documents
    Deployments <- Rotation
    MaxUploads = 3
    MaxClock = 2
SYMMETRY Symmetric
INVARIANTS
    RowsAreGenuine
    AcceptedIsStored
    LaterUploadWins
PROPERTIES
    RevokedKeysStayOut
    ReadsNeverGoBack
    ImplementsRegister
CHECK_DEADLOCK FALSE
