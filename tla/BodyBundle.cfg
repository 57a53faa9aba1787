SPECIFICATION BodySpec
CONSTANTS
    Route = {"forward", "web", "attachment"}
    BodyCap = 2
    BlobCap = 4
    FieldCap <- Fields
    MaxBody = 12
    MaxChunk = 3
INVARIANT ReportsFit
CHECK_DEADLOCK FALSE
