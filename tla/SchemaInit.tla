----------------------------- MODULE SchemaInit -----------------------------
(***************************************************************************)
(* What app/db.py:init_db does to the database it finds, start after       *)
(* start: create_all, then the additive ALTER TABLEs whose failures are    *)
(* swallowed, in one engine.begin() block.  On SQLite the driver commits   *)
(* each DDL statement by itself; on Postgres the block is one transaction, *)
(* which a failed statement aborts and whose COMMIT then rolls back.       *)
(***************************************************************************)
EXTENDS Naturals, Sequences

CONSTANTS
    Mapped,       \* columns the Ticket class maps
    Listed,       \* _ADDITIVE_COLUMNS["tickets"], a sequence of columns
    OldShapes,    \* column sets of `tickets` tables made by earlier versions
    Backends,     \* subset of {"sqlite", "postgres"}
    MaxFailures,  \* bound: statements that fail
    MaxStarts     \* bound: starts of the process; nothing ends the last one

ASSUME SchemaAssumption ==
    /\ Listed \in Seq(Mapped)
    /\ OldShapes \subseteq SUBSET Mapped \ {{}}
    /\ Backends \subseteq {"sqlite", "postgres"}
    /\ MaxFailures \in Nat /\ MaxStarts \in Nat \ {0}

VARIABLES
    backend,   \* which database DATABASE_URL names
    db,        \* the committed schema: columns of `tickets` (none: no table), other tables
    work,      \* the schema as the connection of init_db sees it
    pc,        \* down, creating, created, inspecting, altering, serving
    seen,      \* existing_cols
    next,      \* position in the loop over Listed
    aborted,   \* the Postgres transaction is in the aborted state
    failures,  \* statements failed so far
    starts,    \* starts so far
    missed,    \* history: an ALTER TABLE failed in this start
    fresh      \* history: the first start found an empty database

vars == <<backend, db, work, pc, seen, next, aborted, failures, starts, missed, fresh>>

Empty == [tickets |-> {}, others |-> FALSE]

Init ==
    /\ backend \in Backends
    /\ db \in {Empty} \cup [tickets : OldShapes, others : BOOLEAN]
    /\ work = db
    /\ pc = "down"
    /\ seen = {}
    /\ next = 1
    /\ aborted = FALSE
    /\ failures = 0
    /\ starts = 0
    /\ missed = FALSE
    /\ fresh = (db = Empty)

-----------------------------------------------------------------------------

\* A statement of init_db took effect: on SQLite it is durable at once.
Executed(schema) ==
    /\ work' = schema
    /\ db' = IF backend = "sqlite" THEN schema ELSE db

\* The lifespan handler enters init_db; engine.begin().
Begin ==
    /\ pc = "down" /\ starts < MaxStarts
    /\ pc' = "creating"
    /\ starts' = starts + 1
    /\ work' = db
    /\ seen' = {} /\ next' = 1 /\ aborted' = FALSE /\ missed' = FALSE
    /\ UNCHANGED <<backend, db, failures, fresh>>

\* create_all makes the missing tables, in name order: license_tokens and
\* release_manifests, then tickets.  A table that exists is left as it is.
CreateOthers ==
    /\ pc = "creating"
    /\ pc' = "created"
    /\ Executed([work EXCEPT !.others = TRUE])
    /\ UNCHANGED <<backend, seen, next, aborted, failures, starts, missed, fresh>>

\* Mutation of Created: the new table gets the unlisted columns, ALTER adds the rest.
Created_Unlisted(columns) ==
    IF columns = {} THEN Mapped \ {Listed[i] : i \in DOMAIN Listed} ELSE columns

Created(columns) == IF columns = {} THEN Mapped ELSE columns

CreateTickets ==
    /\ pc = "created"
    /\ pc' = "inspecting"
    /\ Executed([work EXCEPT !.tickets = Created(work.tickets)])
    /\ UNCHANGED <<backend, seen, next, aborted, failures, starts, missed, fresh>>

\* A failed create_all leaves init_db with the exception: startup fails.
FailCreate ==
    /\ pc \in {"creating", "created"}
    /\ failures < MaxFailures /\ starts < MaxStarts
    /\ failures' = failures + 1
    /\ pc' = "down"
    /\ work' = db
    /\ UNCHANGED <<backend, db, seen, next, aborted, starts, missed, fresh>>

\* Mutation of Inspect: only the first listed column is looked for.
Inspect_FirstDecides ==
    /\ pc = "inspecting"
    /\ pc' = "altering"
    /\ seen' = IF Listed[1] \in work.tickets THEN Mapped ELSE work.tickets
    /\ UNCHANGED <<backend, db, work, next, aborted, failures, starts, missed, fresh>>

\* existing_cols, read once before the loop.
Inspect ==
    /\ pc = "inspecting"
    /\ pc' = "altering"
    /\ seen' = work.tickets
    /\ UNCHANGED <<backend, db, work, next, aborted, failures, starts, missed, fresh>>

\* Mutation of Skip: no check for existing columns, and the error is not caught.
Skip_Raises ==
    /\ pc = "altering" /\ next \in DOMAIN Listed
    /\ Listed[next] \in seen
    /\ pc' = "down"
    /\ work' = db
    /\ UNCHANGED <<backend, db, seen, next, aborted, failures, starts, missed, fresh>>

Skip ==
    /\ pc = "altering" /\ next \in DOMAIN Listed
    /\ Listed[next] \in seen
    /\ next' = next + 1
    /\ UNCHANGED <<backend, db, work, pc, seen, aborted, failures, starts, missed, fresh>>

AddColumn ==
    /\ pc = "altering" /\ next \in DOMAIN Listed
    /\ Listed[next] \notin seen /\ ~aborted
    /\ Executed([work EXCEPT !.tickets = @ \cup {Listed[next]}])
    /\ next' = next + 1
    /\ UNCHANGED <<backend, pc, seen, aborted, failures, starts, missed, fresh>>

\* except Exception: pass.  In an aborted transaction every statement fails.
FailColumn ==
    /\ pc = "altering" /\ next \in DOMAIN Listed
    /\ Listed[next] \notin seen
    /\ \/ ~aborted /\ failures < MaxFailures /\ failures' = failures + 1
       \/ aborted /\ UNCHANGED failures
    /\ aborted' = (backend = "postgres")
    /\ missed' = TRUE
    /\ next' = next + 1
    /\ UNCHANGED <<backend, db, work, pc, seen, starts, fresh>>

\* Leaving engine.begin() commits; the COMMIT of an aborted transaction rolls back.
Serve ==
    /\ pc = "altering" /\ next \notin DOMAIN Listed
    /\ pc' = "serving"
    /\ db' = IF aborted THEN db ELSE work
    /\ work' = db'
    /\ UNCHANGED <<backend, seen, next, aborted, failures, starts, missed, fresh>>

\* The process ends, at any point; a transaction in progress is rolled back.
Stop ==
    /\ pc # "down" /\ starts < MaxStarts
    /\ pc' = "down"
    /\ work' = db
    /\ UNCHANGED <<backend, db, seen, next, aborted, failures, starts, missed, fresh>>

Step == \/ Begin \/ CreateOthers \/ CreateTickets \/ Inspect
        \/ Skip \/ AddColumn \/ FailColumn \/ Serve

Next == Step \/ FailCreate \/ Stop

\* init_db runs to its end unless something stops it, and docker restarts a
\* container that ended (restart: unless-stopped).
Spec == Init /\ [][Next]_vars /\ WF_vars(Step)

-----------------------------------------------------------------------------
(* Properties *)

Schemas == [tickets : SUBSET Mapped, others : BOOLEAN]

\* Types; while init_db runs, what it sees only adds to what is committed.
TypeOK ==
    /\ backend \in Backends
    /\ db \in Schemas /\ work \in Schemas
    /\ pc \in {"down", "creating", "created", "inspecting", "altering", "serving"}
    /\ seen \subseteq Mapped
    /\ next \in 1 .. Len(Listed) + 1
    /\ aborted \in BOOLEAN /\ missed \in BOOLEAN /\ fresh \in BOOLEAN
    /\ failures \in 0 .. MaxFailures /\ starts \in 0 .. MaxStarts
    /\ db.tickets \subseteq work.tickets

\* db.py l.34-43: whatever table an earlier version or an interrupted start left,
\* a start none of whose ALTERs failed serves with every listed column and every table.
ListedColumnsPresent ==
    pc = "serving" /\ ~missed =>
        /\ db.others
        /\ \A i \in DOMAIN Listed : Listed[i] \in db.tickets

\* A database this version created itself is complete whenever it is served,
\* after any crashes and failures of its first starts.
FreshInstallComplete ==
    fresh /\ pc = "serving" => db = [tickets |-> Mapped, others |-> TRUE]

\* l.42, l.65: the migration is idempotent across restarts and never blocks
\* startup: once failures and restarts end, the server serves.
StartsUp == <>[](pc = "serving")

\* l.36-39: "without this, a box that already has a live tickets table ... would
\* 500 on every write": every statement on Ticket names all its mapped columns.
TicketRoutesWork == pc = "serving" => Mapped \subseteq db.tickets
=============================================================================
