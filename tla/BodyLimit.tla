----------------------------- MODULE BodyLimit -----------------------------
(***************************************************************************)
(* app/main.py:_BodySizeLimitASGI around one request: the early answer on  *)
(* a declared Content-Length, then the count kept while the application    *)
(* pulls the body chunk by chunk.  Sizes are in units of the instance.     *)
(***************************************************************************)
EXTENDS Integers

CONSTANTS
    Route,       \* "attachment" is ATTACHMENT_ROUTE_PATH
    BodyCap,     \* MAX_REQUEST_BODY_BYTES
    BlobCap,     \* MAX_BLOB_BYTES
    FieldCap,    \* FieldCap[r]: the largest body whose fields are all within their max_length
    MaxBody,     \* bound: size of a body
    MaxChunk     \* bound: size of one http.request message

Undeclared == -1   \* no Content-Length: chunked transfer encoding
Invalid == -2      \* a Content-Length that is no integer

ASSUME BodyLimitAssumption ==
    /\ BodyCap \in Nat /\ BlobCap \in Nat
    /\ FieldCap \in [Route -> Nat]
    /\ MaxBody \in Nat /\ MaxChunk \in Nat \ {0}

VARIABLES
    route,
    declared,   \* Content-Length
    body,       \* what the client sends
    total,      \* bytes received so far
    delivered,  \* of them, passed on to the application
    status      \* "new", "reading", then the outcome

bodyVars == <<route, declared, body, total, delivered, status>>
request == <<route, declared, body>>

\* The HTTP server holds a client to its Content-Length.
BodyInit ==
    /\ route \in Route
    /\ body \in 0 .. MaxBody
    /\ declared \in {body, Undeclared, Invalid}
    /\ total = 0
    /\ delivered = 0
    /\ status = "new"

-----------------------------------------------------------------------------

\* _cap_for_path
Cap(r) == IF r = "attachment" THEN BlobCap * 2 ELSE BodyCap

\* Mutation of TooLong: a body of exactly the cap is refused.
TooLong_AtCap(n) == n >= Cap(route)

TooLong(n) == n > Cap(route)

\* The declared length decides before a byte is read.
Screen ==
    /\ status = "new"
    /\ status' = CASE declared = Invalid -> "400"
                   [] declared # Invalid /\ TooLong(declared) -> "413"
                   [] declared # Invalid /\ ~TooLong(declared) -> "reading"
    /\ UNCHANGED <<request, total, delivered>>

\* Mutations of Chunk: only a single chunk over the cap is refused; a chunk is
\* counted twice.
Chunk_Alone(n) ==
    /\ status = "reading" /\ n <= body - total
    /\ total' = total + n
    /\ IF TooLong(n)
       THEN status' = "413" /\ UNCHANGED delivered
       ELSE delivered' = total' /\ UNCHANGED status
    /\ UNCHANGED request

Chunk_CountsTwice(n) ==
    /\ status = "reading" /\ n <= body - total
    /\ total' = total + n + n
    /\ IF TooLong(total')
       THEN status' = "413" /\ UNCHANGED delivered
       ELSE delivered' = total' /\ UNCHANGED status
    /\ UNCHANGED request

\* limited_receive with an http.request message of n bytes.
Chunk(n) ==
    /\ status = "reading" /\ n <= body - total
    /\ total' = total + n
    /\ IF TooLong(total')
       THEN status' = "413" /\ UNCHANGED delivered
       ELSE delivered' = total' /\ UNCHANGED status
    /\ UNCHANGED request

\* The whole body has arrived: routing, validation and the handler run.
Handle ==
    /\ status = "reading" /\ total = body
    /\ status' = "handled"
    /\ UNCHANGED <<request, total, delivered>>

\* http.disconnect before the end.
Disconnect ==
    /\ status = "reading" /\ total < body
    /\ status' = "gone"
    /\ UNCHANGED <<request, total, delivered>>

BodyNext == Screen \/ (\E n \in 1 .. MaxChunk : Chunk(n)) \/ Handle \/ Disconnect

BodySpec == BodyInit /\ [][BodyNext]_bodyVars

-----------------------------------------------------------------------------
(* Properties *)

\* Types; the application never gets ahead of the wire.
BodyTypeOK ==
    /\ route \in Route
    /\ body \in 0 .. MaxBody
    /\ declared \in {body, Undeclared, Invalid}
    /\ total \in 0 .. body
    /\ delivered \in 0 .. total
    /\ status \in {"new", "reading", "400", "413", "gone", "handled"}

\* main.py l.51-52, l.77-82: however the body is cut into chunks, declared or not,
\* the application never holds more of it than the route's cap, and at most one
\* chunk beyond it was read.
HeldWithinCap ==
    /\ delivered <= Cap(route)
    /\ total <= Cap(route) + MaxChunk

\* The guard changes nothing else: a request is refused with 413 only when its body
\* is over the cap, and handled only when its body is whole and within it.
OnlyOversizedRefused ==
    /\ status = "413" => body > Cap(route)
    /\ status = "handled" => delivered = body /\ body <= Cap(route)

\* diagnostics.py l.76-80 (diagnostic_bundle): "Size-capped well under the route's
\* raised body limit": a report within its field limits is not refused for size.
ReportsFit == status = "413" => body > FieldCap[route]
=============================================================================
