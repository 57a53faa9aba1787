SPECIFICATION Spec
CONSTANTS
    caddy = caddy
    front = front
    alice = alice
    mallory = mallory
    Addr = {caddy, front, alice, mallory}
    Proxies = {caddy, front}
    Star = FALSE
    MaxForged = 2
    MaxPath = 4
    Route = {"forward", "attachment"}
    BodyCap = 2
    BlobCap = 4
    FieldCap <- Fields
    MaxBody = 11
    MaxChunk = 3
SYMMETRY Symmetry
INVARIANTS
    EdgeTypeOK
    ForgeryNeverWins
    HeldWithinCap
    OnlyOversizedRefused
CHECK_DEADLOCK FALSE
