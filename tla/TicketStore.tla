---------------------------- MODULE TicketStore ----------------------------
(***************************************************************************)
(* The ticket table and create_or_dedupe (app/models.py), run by several   *)
(* request handlers at once.  create_or_dedupe suspends at every `await`,  *)
(* so one call is a chain of steps and the steps of two calls interleave:  *)
(*                                                                         *)
(*   Call --> Select --> CommitUpdate --> Refresh --> (answered)           *)
(*       \         \                      ^                                *)
(*        \         --> CommitInsert -----+                                *)
(*         --------------^    (no fingerprint: no SELECT)                  *)
(*                                                                         *)
(* Any database round trip may fail (HTTP 500), and the single uvicorn     *)
(* process may die between two steps: the table survives, the handlers do  *)
(* not.  Statuses are changed by the operators, outside this repository.   *)
(***************************************************************************)
EXTENDS Integers, Sequences, FiniteSets

CONSTANTS
    Procs,         \* handler slots: the requests that can be in flight at once
    TicketId,      \* the ids new_ticket_id can draw
    NoTicket,      \* the ticket of a report that has none
    Fingerprint,   \* non-empty fingerprints
    NoFp,          \* absent (or empty) fingerprint
    Origin,        \* box-local ticket ids
    NoOrigin,      \* absent origin_local_id
    Source,        \* intake channels: "web", "forward", "email"
    Severity,      \* severities a report may carry, known or not
    Tier,          \* tiers a report may carry, known or not
    Statuses,      \* statuses a row can have
    Submissions,   \* the argument lists the handlers call create_or_dedupe with
    MaxReports,    \* bound: calls made in one behaviour
    MaxClock       \* bound: last instant of the wall clock

Submission == [fingerprint : Fingerprint \cup {NoFp}, source : Source,
               severity : Severity, tier : Tier,
               origin : Origin \cup {NoOrigin}, bundle : BOOLEAN]

ASSUME StoreAssumption ==
    /\ NoFp \notin Fingerprint
    /\ NoOrigin \notin Origin
    /\ NoTicket \notin TicketId
    /\ "new" \in Statuses
    /\ Submissions \subseteq Submission
    /\ MaxReports \in Nat
    /\ MaxClock \in Nat

VARIABLES
    tickets,  \* the table: a function from the ids in use to rows
    clock,    \* the wall clock _utcnow() reads
    pc,       \* pc[p]: the await handler p is suspended at, or "idle"
    cur,      \* cur[p]: the number of the report p is handling
    since,    \* since[p]: when p last resumed; its next _utcnow() is not earlier
    snap,     \* snap[p]: what p's SELECT returned
    reports,  \* history: the submissions, in order of arrival
    home,     \* history: home[r] is the ticket report r was committed to
    answer    \* history: what the caller of report r was told

handlerVars == <<pc, cur, since, snap>>
vars == <<tickets, clock, pc, cur, since, snap, reports, home, answer>>

-----------------------------------------------------------------------------
(* Scoring *)

SEVERITY_WEIGHT == [s1_crash |-> 16, s2_broken |-> 8, s3_degraded |-> 4,
                    s4_cosmetic |-> 2, s5_idea |-> 1]
TIER_WEIGHT == [master |-> 5, enterprise |-> 5, team |-> 4, architect |-> 4,
                professional |-> 3, class |-> 3, associate |-> 1]

SeverityWeight(s) == IF s \in DOMAIN SEVERITY_WEIGHT THEN SEVERITY_WEIGHT[s] ELSE 4
TierWeight(t) == IF t \in DOMAIN TIER_WEIGHT THEN TIER_WEIGHT[t] ELSE 1
AtLeastOne(n) == IF n > 1 THEN n ELSE 1

PriorityScore(severity, occurrences, tier) ==
    SeverityWeight(severity) * AtLeastOne(occurrences) * TierWeight(tier)

-----------------------------------------------------------------------------
(* The table *)

OPEN_STATES == {"new", "triaged", "in_progress", "fixed"}

Row == [fingerprint : Fingerprint \cup {NoFp}, source : Source, status : Statuses,
        severity : Severity, tier : Tier, occurrences : Nat, priority : Nat,
        first_seen : Nat, last_seen : Nat,
        origin : Origin \cup {NoOrigin}, bundle : BOOLEAN]

IsOpen(t) == tickets[t].status \in OPEN_STATES

\* Mutations of the query below: no source, any status.
OpenMatches_AnySource(fp, src) ==
    {t \in DOMAIN tickets : tickets[t].fingerprint = fp /\ IsOpen(t)}
OpenMatches_AnyStatus(fp, src) ==
    {t \in DOMAIN tickets : tickets[t].fingerprint = fp /\ tickets[t].source = src}

\* The WHERE clause of the dedupe query.
OpenMatches(fp, src) ==
    {t \in DOMAIN tickets : /\ tickets[t].fingerprint = fp
                            /\ tickets[t].source = src
                            /\ IsOpen(t)}

\* ORDER BY first_seen ASC LIMIT 1: equal timestamps leave the choice open.
Oldest(T) == {t \in T : \A u \in T : tickets[t].first_seen <= tickets[u].first_seen}
\* ORDER BY first_seen DESC LIMIT 1.
Newest(T) == {t \in T : \A u \in T : tickets[t].first_seen >= tickets[u].first_seen}

\* get_ticket_by_origin_local_id: the rows the by-origin lookup can return.
ByOrigin(o) == Newest({t \in DOMAIN tickets : tickets[t].origin = o})

\* ORDER BY priority_score DESC, last_seen DESC.
RanksAbove(t, u) ==
    \/ tickets[t].priority > tickets[u].priority
    \/ /\ tickets[t].priority = tickets[u].priority
       /\ tickets[t].last_seen >= tickets[u].last_seen

\* Mutation of AdminQueue: the latest report first, whatever its score.
AdminQueue_LatestFirst(limit) ==
    LET Open == {t \in DOMAIN tickets : IsOpen(t)} IN
    {Q \in SUBSET Open :
        /\ Cardinality(Q) <= limit
        /\ Q # Open => Cardinality(Q) = limit
        /\ \A t \in Q, u \in Open \ Q : tickets[t].last_seen >= tickets[u].last_seen}

\* admin_queue: the sets of rows the triage query can return for a limit; rows
\* of one score and one last_seen compete for the last places.
AdminQueue(limit) ==
    LET Open == {t \in DOMAIN tickets : IsOpen(t)} IN
    {Q \in SUBSET Open :
        /\ Cardinality(Q) <= limit
        /\ Q # Open => Cardinality(Q) = limit
        /\ \A t \in Q, u \in Open \ Q : RanksAbove(t, u)}

\* TicketView.of, without what no property reads.
View(t) == [id |-> t, occurrences |-> tickets[t].occurrences,
            priority_score |-> tickets[t].priority,
            origin_local_id |-> tickets[t].origin,
            has_diagnostic_bundle |-> tickets[t].bundle]

\* The operators' routes: the queue, the by-origin lookup, the full diagnostic.
NotFound == [code |-> 404]
TriageQueue(limit) == {{View(t) : t \in Q} : Q \in AdminQueue(limit)}
GetByOrigin(o) ==
    IF ByOrigin(o) = {} THEN {NotFound}
    ELSE {[code |-> 200, ticket |-> View(t)] : t \in ByOrigin(o)}
GetDiagnostic(t) ==
    IF t \in DOMAIN tickets THEN [code |-> 200, bundle |-> tickets[t].bundle] ELSE NotFound

\* The row a report that matched nothing is stored as.
NewRow(s, now) ==
    [fingerprint |-> s.fingerprint, source |-> s.source, status |-> "new",
     severity |-> s.severity, tier |-> s.tier, occurrences |-> 1,
     priority |-> PriorityScore(s.severity, 1, s.tier),
     first_seen |-> now, last_seen |-> now,
     origin |-> s.origin, bundle |-> s.bundle]

\* Mutations of the UPDATE below: it scores the new report, or adopts its severity.
Bump_ScoresReport(row, seen, s, now) ==
    [row EXCEPT !.occurrences = seen.occurrences + 1,
                !.last_seen = now,
                !.priority = PriorityScore(s.severity, seen.occurrences + 1, s.tier)]
Bump_AdoptsSeverity(row, seen, s, now) ==
    [row EXCEPT !.occurrences = seen.occurrences + 1,
                !.last_seen = now,
                !.severity = s.severity,
                !.priority = PriorityScore(s.severity, seen.occurrences + 1, seen.tier)]

\* The UPDATE a dedupe flushes: only the attributes the handler assigned, and
\* with the values it computed from its own snapshot of the row.
Bump(row, seen, s, now) ==
    [row EXCEPT !.occurrences = seen.occurrences + 1,
                !.last_seen = now,
                !.priority = PriorityScore(seen.severity, seen.occurrences + 1, seen.tier)]

-----------------------------------------------------------------------------
(* The handlers *)

Init ==
    /\ tickets = [t \in {} |-> 0]
    /\ clock = 0
    /\ pc = [p \in Procs |-> "idle"]
    /\ cur = [p \in Procs |-> 0]
    /\ since = [p \in Procs |-> 0]
    /\ snap = [p \in Procs |-> NoTicket]
    /\ reports = <<>>
    /\ home = [r \in {} |-> NoTicket]
    /\ answer = [r \in {} |-> 0]

Sub(p) == reports[cur[p]]

\* f with x mapped to y, whether or not x is in its domain.
With(f, x, y) == [z \in DOMAIN f \cup {x} |-> IF z = x THEN y ELSE f[z]]

\* The call ends: its caller is answered and its frame is gone.
Return(p, code, t) ==
    /\ answer' = With(answer, cur[p], [code |-> code, ticket |-> t])
    /\ pc' = [pc EXCEPT ![p] = "idle"]
    /\ cur' = [cur EXCEPT ![p] = 0]
    /\ since' = [since EXCEPT ![p] = 0]
    /\ snap' = [snap EXCEPT ![p] = NoTicket]

\* Mutation of Call: the dedupe query is skipped.
Call_SkipsQuery(p, s) ==
    /\ pc[p] = "idle"
    /\ Len(reports) < MaxReports
    /\ reports' = Append(reports, s)
    /\ cur' = [cur EXCEPT ![p] = Len(reports) + 1]
    /\ since' = [since EXCEPT ![p] = clock]
    /\ pc' = [pc EXCEPT ![p] = "insert"]
    /\ UNCHANGED <<tickets, clock, snap, home, answer>>

\* A handler calls create_or_dedupe with the fields s.
Call(p, s) ==
    /\ pc[p] = "idle"
    /\ Len(reports) < MaxReports
    /\ reports' = Append(reports, s)
    /\ cur' = [cur EXCEPT ![p] = Len(reports) + 1]
    /\ since' = [since EXCEPT ![p] = clock]
    /\ pc' = [pc EXCEPT ![p] = IF s.fingerprint = NoFp THEN "insert" ELSE "select"]
    /\ UNCHANGED <<tickets, clock, snap, home, answer>>

\* Mutation of Select: the handler's timestamp is taken before the query.
Select_StaleNow(p) ==
    LET matches == OpenMatches(Sub(p).fingerprint, Sub(p).source) IN
    /\ pc[p] = "select"
    /\ \/ /\ matches = {}
          /\ pc' = [pc EXCEPT ![p] = "insert"]
          /\ UNCHANGED snap
       \/ \E t \in Oldest(matches) :
            /\ pc' = [pc EXCEPT ![p] = "update"]
            /\ snap' = [snap EXCEPT ![p] = [ticket |-> t,
                                            occurrences |-> tickets[t].occurrences,
                                            severity |-> tickets[t].severity,
                                            tier |-> tickets[t].tier]]
    /\ UNCHANGED <<tickets, clock, cur, since, reports, home, answer>>

\* The dedupe query, and the branch on its result.
Select(p) ==
    LET matches == OpenMatches(Sub(p).fingerprint, Sub(p).source) IN
    /\ pc[p] = "select"
    /\ \/ /\ matches = {}
          /\ pc' = [pc EXCEPT ![p] = "insert"]
          /\ UNCHANGED snap
       \/ \E t \in Oldest(matches) :
            /\ pc' = [pc EXCEPT ![p] = "update"]
            /\ snap' = [snap EXCEPT ![p] = [ticket |-> t,
                                            occurrences |-> tickets[t].occurrences,
                                            severity |-> tickets[t].severity,
                                            tier |-> tickets[t].tier]]
    /\ since' = [since EXCEPT ![p] = clock]
    /\ UNCHANGED <<tickets, clock, cur, reports, home, answer>>

\* The dedupe's flush and COMMIT.
CommitUpdate(p) ==
    LET t == snap[p].ticket IN
    /\ pc[p] = "update"
    /\ \E now \in since[p] .. clock :
         tickets' = [tickets EXCEPT ![t] = Bump(tickets[t], snap[p], Sub(p), now)]
    /\ home' = With(home, cur[p], t)
    /\ pc' = [pc EXCEPT ![p] = "refresh"]
    /\ UNCHANGED <<clock, cur, since, snap, reports, answer>>

\* Mutation of CommitInsert: a row that has the drawn id already is replaced.
CommitInsert_Replaces(p) ==
    /\ pc[p] = "insert"
    /\ \E t \in TicketId, now \in since[p] .. clock :
         /\ tickets' = With(tickets, t, NewRow(Sub(p), now))
         /\ home' = With(home, cur[p], t)
    /\ pc' = [pc EXCEPT ![p] = "refresh"]
    /\ UNCHANGED <<clock, cur, since, snap, reports, answer>>

\* The new row's flush and COMMIT.  An id already in use violates the primary
\* key and the call fails (Fail): a stored row is never replaced.
CommitInsert(p) ==
    /\ pc[p] = "insert"
    /\ \E t \in TicketId \ DOMAIN tickets, now \in since[p] .. clock :
         /\ tickets' = With(tickets, t, NewRow(Sub(p), now))
         /\ home' = With(home, cur[p], t)
    /\ pc' = [pc EXCEPT ![p] = "refresh"]
    /\ UNCHANGED <<clock, cur, since, snap, reports, answer>>

\* session.refresh, then the handler's 202 with the id of the refreshed row.
Refresh(p) ==
    /\ pc[p] = "refresh"
    /\ Return(p, 202, home[cur[p]])
    /\ UNCHANGED <<tickets, clock, reports, home>>

\* Mutations of Fail: the handler runs the call again when the refresh raises, or
\* when the insert does; a failing dedupe COMMIT is swallowed.
Fail_Retries(p) ==
    /\ pc[p] # "idle"
    /\ \/ /\ pc[p] = "refresh"
          /\ pc' = [pc EXCEPT ![p] = "select"]
          /\ UNCHANGED <<cur, since, snap, answer>>
       \/ pc[p] # "refresh" /\ Return(p, 500, NoTicket)
    /\ UNCHANGED <<tickets, clock, reports, home>>
Fail_RetriesInsert(p) ==
    /\ pc[p] # "idle"
    /\ \/ /\ pc[p] = "insert"
          /\ pc' = [pc EXCEPT ![p] = "select"]
          /\ UNCHANGED <<cur, since, snap, answer>>
       \/ pc[p] # "insert" /\ Return(p, 500, NoTicket)
    /\ UNCHANGED <<tickets, clock, reports, home>>
Fail_Swallowed(p) ==
    /\ pc[p] # "idle"
    /\ \/ pc[p] = "update" /\ Return(p, 202, snap[p].ticket)
       \/ pc[p] # "update" /\ Return(p, 500, NoTicket)
    /\ UNCHANGED <<tickets, clock, reports, home>>

\* A round trip raises: locked database, lost connection, duplicate id.  The
\* exception propagates (500) and get_session rolls back what was not committed;
\* what was committed before a failing refresh stays.
Fail(p) ==
    /\ pc[p] # "idle"
    /\ Return(p, 500, NoTicket)
    /\ UNCHANGED <<tickets, clock, reports, home>>

\* The process dies and restarts: callers in flight get no answer at all.
Crash ==
    LET inFlight == {cur[p] : p \in {q \in Procs : pc[q] # "idle"}} IN
    /\ inFlight # {}
    /\ pc' = [p \in Procs |-> "idle"]
    /\ cur' = [p \in Procs |-> 0]
    /\ since' = [p \in Procs |-> 0]
    /\ snap' = [p \in Procs |-> NoTicket]
    /\ answer' = [r \in DOMAIN answer \cup inFlight |->
                    IF r \in inFlight THEN [code |-> 0, ticket |-> NoTicket] ELSE answer[r]]
    /\ UNCHANGED <<tickets, clock, reports, home>>

\* An operator moves an open ticket to another status (no route here does).
SetStatus(t, status) ==
    /\ t \in DOMAIN tickets
    /\ IsOpen(t)
    /\ status # tickets[t].status
    /\ tickets' = [tickets EXCEPT ![t].status = status]
    /\ UNCHANGED <<clock, handlerVars, reports, home, answer>>

Tick ==
    /\ clock < MaxClock
    /\ clock' = clock + 1
    /\ UNCHANGED <<tickets, handlerVars, reports, home, answer>>

Step(p) == Select(p) \/ CommitUpdate(p) \/ CommitInsert(p) \/ Refresh(p) \/ Fail(p)

Next ==
    \/ \E p \in Procs, s \in Submissions : Call(p, s)
    \/ \E p \in Procs : Step(p)
    \/ \E t \in TicketId, status \in Statuses : SetStatus(t, status)
    \/ Crash
    \/ Tick

Spec == Init /\ [][Next]_vars

\* The event loop runs every coroutine that is ready, and every database round
\* trip ends, with a result or with an exception.
FairSpec == Spec /\ \A p \in Procs : WF_vars(Step(p))
-----------------------------------------------------------------------------
(* What the store promises *)

Reports == 1 .. Len(reports)
MergedInto(t) == {r \in DOMAIN home : home[r] = t}
Key(s) == <<s.fingerprint, s.source>>
TicketKey(t) == <<tickets[t].fingerprint, tickets[t].source>>

Snapshot == [ticket : TicketId, occurrences : Nat, severity : Severity, tier : Tier]
Answer == [code : {0, 202, 500}, ticket : TicketId \cup {NoTicket}]

\* Types of the table, of the handlers' local state and of the histories; a
\* handler past its SELECT holds a snapshot of a row that exists.
TypeOK ==
    /\ DOMAIN tickets \subseteq TicketId
    /\ \A t \in DOMAIN tickets : tickets[t] \in Row
    /\ clock \in Nat
    /\ pc \in [Procs -> {"idle", "select", "update", "insert", "refresh"}]
    /\ cur \in [Procs -> Nat]
    /\ since \in [Procs -> Nat]
    /\ snap \in [Procs -> Snapshot \cup {NoTicket}]
    /\ reports \in Seq(Submissions)
    /\ DOMAIN home \subseteq Reports
    /\ DOMAIN answer \subseteq Reports
    /\ \A r \in DOMAIN answer : answer[r] \in Answer
    /\ \A p \in Procs :
         /\ pc[p] # "idle" => cur[p] \in Reports
         /\ pc[p] = "update" => /\ snap[p] \in Snapshot
                                /\ snap[p].ticket \in DOMAIN tickets

\* models.py l.112 "Recomputes priority_score on every (severity, occurrences,
\* tier)": whatever the races did to occurrences, the stored score is the score
\* of the stored row, so the triage order never contradicts the table.
PriorityConsistent ==
    \A t \in DOMAIN tickets :
        tickets[t].priority = PriorityScore(tickets[t].severity,
                                            tickets[t].occurrences, tickets[t].tier)

\* models.py l.114-129: every report merged into a ticket carries the ticket's
\* own (fingerprint, source), and a report without a fingerprint shares its
\* ticket with no other: an anonymous web report never ends in a forward ticket.
MergedReportsMatch ==
    \A r \in DOMAIN home :
        /\ home[r] \in DOMAIN tickets
        /\ Key(reports[r]) = TicketKey(home[r])
        /\ reports[r].fingerprint = NoFp => MergedInto(home[r]) = {r}

\* occurrences never exceeds the number of distinct reports committed to the
\* ticket: races and failures can lose a count, nothing can inflate one.
NoOvercount ==
    \A t \in DOMAIN tickets :
        /\ tickets[t].occurrences >= 1
        /\ tickets[t].occurrences <= Cardinality(MergedInto(t))

\* Duplicate open tickets for one key come only from calls that overlapped: a
\* key never has more open tickets, creations under way included, than the
\* server has handlers, however many reports arrive.
OpenTickets(k) == {t \in DOMAIN tickets : TicketKey(t) = k /\ IsOpen(t)}
Creating(k) == {p \in Procs : pc[p] = "insert" /\ Key(Sub(p)) = k}
DuplicatesBounded ==
    \A k \in Fingerprint \X Source :
        Cardinality(OpenTickets(k)) + Cardinality(Creating(k)) <= Cardinality(Procs)

\* A 202 is a durable receipt: the report is in the ticket named in the answer,
\* after any crash, failed refresh or later merge.
ReceiptsAreDurable ==
    \A r \in DOMAIN answer :
        answer[r].code = 202 => /\ r \in DOMAIN home
                                /\ home[r] = answer[r].ticket
                                /\ home[r] \in DOMAIN tickets

\* last_seen is never before first_seen, and neither is in the future, although
\* commits of overlapping calls land out of the order of their timestamps.
SeenInOrder ==
    \A t \in DOMAIN tickets :
        /\ tickets[t].first_seen <= tickets[t].last_seen
        /\ tickets[t].last_seen <= clock

\* A later report changes counters only: what a ticket says, who filed it, how
\* severe it is and where it came from stay as its first report left them, no
\* row disappears and a closed ticket stays closed.
Identity(row) == [fingerprint |-> row.fingerprint, source |-> row.source,
                  severity |-> row.severity, tier |-> row.tier,
                  origin |-> row.origin, bundle |-> row.bundle,
                  first_seen |-> row.first_seen]
KeepsIdentity ==
    \A t \in DOMAIN tickets :
        /\ t \in DOMAIN tickets'
        /\ Identity(tickets'[t]) = Identity(tickets[t])
        /\ tickets[t].status \notin OPEN_STATES => tickets'[t].status = tickets[t].status
IdentityIsPermanent == [][KeepsIdentity]_vars

Shared == INSTANCE SharedLedger WITH
    Keys <- (Fingerprint \cup {NoFp}) \X Source,
    UniqueKeys <- {NoFp} \X Source,
    Overlap <- Cardinality(Procs),
    asked <- [r \in Reports |-> Key(reports[r])],
    filed <- home,
    count <- [t \in DOMAIN tickets |-> tickets[t].occurrences],
    key <- [t \in DOMAIN tickets |-> TicketKey(t)],
    open <- {t \in DOMAIN tickets : IsOpen(t)},
    receipt <- [r \in {q \in DOMAIN answer : answer[q].code = 202} |-> answer[r].ticket]

\* models.py l.3-5, l.112-130: overlapping calls are still a ledger: each report is
\* filed once, at its COMMIT, in a ticket of its key or in one of as many new ones as
\* calls can overlap, and whatever a ticket counts was filed in it.
ImplementsSharedLedger == Shared!Spec

\* Every call to create_or_dedupe ends: with a 202, a 500 or the process's death.
EveryCallEnds == \A p \in Procs : pc[p] # "idle" ~> pc[p] = "idle"

-----------------------------------------------------------------------------
(* What the documentation says, and overlapping or deduped reports break *)

\* models.py l.3-5: a report whose fingerprint has an open ticket "bumps
\* `occurrences`": every committed report is counted.
EveryReportCounted ==
    \A t \in DOMAIN tickets : tickets[t].occurrences = Cardinality(MergedInto(t))

\* models.py l.3-5: "instead of creating a row": one open ticket per key.
OneOpenTicketPerKey ==
    \A k \in Fingerprint \X Source : Cardinality(OpenTickets(k)) <= 1

\* models.py l.78-80: a box-local id "resolves to a row"; l.90-93: attachments and
\* diagnostic bundles are kept: a report that has its receipt can be found by its
\* box-local id, and its bundle is with its ticket.
DetailsAreKept ==
    \A r \in DOMAIN answer :
        answer[r].code = 202 =>
            /\ reports[r].origin # NoOrigin => NotFound \notin GetByOrigin(reports[r].origin)
            /\ reports[r].bundle => GetDiagnostic(home[r]).bundle

\* models.py l.213, tickets.py l.96: the queue is "highest priority_score first", and
\* the score is that of the crash its first report described, times all the
\* reports that came since: with any limit, the queue hides no open ticket that
\* weighs more than one it shows, and shows each with its true weight.
FirstReports(t) == {r \in MergedInto(t) : \A q \in MergedInto(t) : r <= q}
TrueScores(t) ==
    {PriorityScore(reports[r].severity, Cardinality(MergedInto(t)), reports[r].tier) :
        r \in FirstReports(t)}
QueueShowsTheWorst ==
    \A limit \in 0 .. Cardinality(DOMAIN tickets) : \A views \in TriageQueue(limit) :
        \A v \in views :
            /\ TrueScores(v.id) = {v.priority_score}
            /\ \A u \in DOMAIN tickets :
                 IsOpen(u) /\ (\A w \in views : w.id # u)
                    => \A n \in TrueScores(u) : n <= v.priority_score
=============================================================================
