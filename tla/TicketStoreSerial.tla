------------------------- MODULE TicketStoreSerial -------------------------
(***************************************************************************)
(* The store with a single handler: no two calls of create_or_dedupe       *)
(* overlap.  Then a ticket's occurrences is an exact ledger of its reports *)
(* whatever fails or crashes in between.                                   *)
(***************************************************************************)
EXTENDS TicketStore

CONSTANT Handler   \* the only handler

ASSUME SerialAssumption == Procs = {Handler}

Assigned ==
    IF pc[Handler] = "update"
    THEN {[key |-> Key(Sub(Handler)), ticket |-> snap[Handler].ticket]}
    ELSE IF pc[Handler] = "insert"
         THEN {[key |-> Key(Sub(Handler)), ticket |-> NoTicket]}
         ELSE {}

Ledger == INSTANCE DedupeLedger WITH
    Keys <- (Fingerprint \cup {NoFp}) \X Source,
    UniqueKeys <- {NoFp} \X Source,
    count <- [t \in DOMAIN tickets |-> tickets[t].occurrences],
    key <- [t \in DOMAIN tickets |-> TicketKey(t)],
    open <- {t \in DOMAIN tickets : IsOpen(t)},
    plan <- Assigned

\* Without overlap the store implements the ledger: every call is one
\* assignment to the open ticket of its key and at most one exact increment,
\* operators, failures and restarts included.
ImplementsLedger == Ledger!Spec
=============================================================================
