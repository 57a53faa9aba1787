------------------------- MODULE TicketStoreProofs -------------------------
(***************************************************************************)
(* What holds of TicketStore for any number of handlers, ids, reports and  *)
(* restarts.                                                               *)
(***************************************************************************)
EXTENDS TicketStore, FiniteSetTheorems, TLAPS

-----------------------------------------------------------------------------
(* Types *)

\* The score of any row is a natural number (priority_score is total: unknown
\* severities and tiers fall back to a default weight).
LEMMA ScoreIsNat ==
    ASSUME NEW s, NEW n \in Nat, NEW t
    PROVE  PriorityScore(s, n, t) \in Nat
<1>1. SeverityWeight(s) \in Nat
  BY DEF SeverityWeight, SEVERITY_WEIGHT
<1>2. TierWeight(t) \in Nat
  BY DEF TierWeight, TIER_WEIGHT
<1>3. AtLeastOne(n) \in Nat
  BY DEF AtLeastOne
<1> HIDE DEF SeverityWeight, TierWeight, AtLeastOne
<1>4. \A a, b \in Nat : a * b \in Nat
  OBVIOUS
<1> QED
  BY <1>1, <1>2, <1>3, <1>4 DEF PriorityScore

\* Every committed row has the column types, inserted or updated.
LEMMA NewRowTyped ==
    ASSUME NEW s \in Submissions, NEW now \in Nat
    PROVE  NewRow(s, now) \in Row
<1>1. PriorityScore(s.severity, 1, s.tier) \in Nat
  BY ScoreIsNat
<1> QED
  BY <1>1, StoreAssumption DEF NewRow, Row, Submission

LEMMA BumpTyped ==
    ASSUME NEW row \in Row, NEW seen \in Snapshot, NEW s, NEW now \in Nat
    PROVE  Bump(row, seen, s, now) \in Row
<1>1. seen.occurrences + 1 \in Nat
  BY DEF Snapshot
<1>2. PriorityScore(seen.severity, seen.occurrences + 1, seen.tier) \in Nat
  BY <1>1, ScoreIsNat
<1> QED
  BY <1>1, <1>2 DEF Bump, Row

\* Histories refer to the table, and a handler refreshes a committed report.
Refs ==
    /\ \A r \in DOMAIN home : home[r] \in DOMAIN tickets
    /\ \A p \in Procs : pc[p] = "refresh" => cur[p] \in DOMAIN home

TypeInv == TypeOK /\ Refs

LEMMA TypeInvInit == Init => TypeInv
  BY StoreAssumption DEF Init, TypeInv, TypeOK, Refs, Reports

LEMMA TypeInvNext == TypeInv /\ [Next]_vars => TypeInv'
<1> SUFFICES ASSUME TypeInv, [Next]_vars
             PROVE  TypeInv'
  OBVIOUS
<1> USE DEF TypeInv, TypeOK, Refs, Reports
<1>1. ASSUME NEW p \in Procs, NEW s \in Submissions, Call(p, s)
      PROVE  TypeInv'
  BY <1>1 DEF Call
<1>2. ASSUME NEW p \in Procs, Select(p)
      PROVE  TypeInv'
  <2>1. CASE OpenMatches(Sub(p).fingerprint, Sub(p).source) = {} /\ pc' = [pc EXCEPT ![p] = "insert"] /\ UNCHANGED snap
    BY <1>2, <2>1 DEF Select
  <2>2. ASSUME NEW t \in Oldest(OpenMatches(Sub(p).fingerprint, Sub(p).source)),
               pc' = [pc EXCEPT ![p] = "update"],
               snap' = [snap EXCEPT ![p] = [ticket |-> t,
                                            occurrences |-> tickets[t].occurrences,
                                            severity |-> tickets[t].severity,
                                            tier |-> tickets[t].tier]]
        PROVE  TypeInv'
    <3>1. t \in DOMAIN tickets /\ t \in TicketId /\ tickets[t] \in Row
      BY DEF Oldest, OpenMatches
    <3>2. snap'[p] \in Snapshot /\ snap'[p].ticket \in DOMAIN tickets
      BY <2>2, <3>1 DEF Snapshot, Row
    <3> QED
      BY <1>2, <2>2, <3>2 DEF Select
  <2> QED
    BY <1>2, <2>1, <2>2 DEF Select
<1>3. ASSUME NEW p \in Procs, CommitUpdate(p)
      PROVE  TypeInv'
  <2>1. PICK now \in since[p] .. clock :
            tickets' = [tickets EXCEPT ![snap[p].ticket] =
                          Bump(tickets[snap[p].ticket], snap[p], Sub(p), now)]
    BY <1>3 DEF CommitUpdate
  <2>2. now \in Nat
    BY <2>1
  <2>3. snap[p] \in Snapshot /\ snap[p].ticket \in DOMAIN tickets
    BY <1>3 DEF CommitUpdate
  <2>4. Bump(tickets[snap[p].ticket], snap[p], Sub(p), now) \in Row
    BY <2>2, <2>3, BumpTyped
  <2>5. DOMAIN tickets' = DOMAIN tickets /\ \A t \in DOMAIN tickets' : tickets'[t] \in Row
    BY <2>1, <2>4
  <2> QED
    BY <1>3, <2>3, <2>5 DEF CommitUpdate, With
<1>4. ASSUME NEW p \in Procs, CommitInsert(p)
      PROVE  TypeInv'
  <2>1. PICK t \in TicketId \ DOMAIN tickets, now \in since[p] .. clock :
            /\ tickets' = With(tickets, t, NewRow(Sub(p), now))
            /\ home' = With(home, cur[p], t)
    BY <1>4 DEF CommitInsert
  <2>7. cur[p] \in Reports /\ reports \in Seq(Submissions)
    BY <1>4 DEF CommitInsert
  <2>8. Sub(p) \in Submissions
    BY <2>7 DEF Sub
  <2>2. now \in Nat /\ Sub(p) \in Submissions
    BY <2>1, <2>8
  <2>3. NewRow(Sub(p), now) \in Row
    BY <2>2, NewRowTyped
  <2>4. /\ DOMAIN tickets' = DOMAIN tickets \cup {t}
        /\ \A u \in DOMAIN tickets' : tickets'[u] \in Row
    BY <2>1, <2>3 DEF With
  <2>5. /\ DOMAIN home' = DOMAIN home \cup {cur[p]}
        /\ \A r \in DOMAIN home' : home'[r] \in DOMAIN tickets'
    BY <2>1, <2>4 DEF With
  <2>6. Refs'
    BY <1>4, <2>5 DEF CommitInsert
  <2> QED
    BY <1>4, <2>7, <2>4, <2>5, <2>6 DEF CommitInsert
<1>5. ASSUME NEW p \in Procs, Refresh(p)
      PROVE  TypeInv'
  BY <1>5 DEF Refresh, Return, With, Answer
<1>6. ASSUME NEW p \in Procs, Fail(p)
      PROVE  TypeInv'
  BY <1>6 DEF Fail, Return, With, Answer
<1>7. ASSUME NEW t \in TicketId, NEW status \in Statuses, SetStatus(t, status)
      PROVE  TypeInv'
  <2>1. DOMAIN tickets' = DOMAIN tickets
    BY <1>7 DEF SetStatus
  <2>2. \A u \in DOMAIN tickets' : tickets'[u] \in Row
    <3>1. /\ t \in DOMAIN tickets
          /\ tickets' = [tickets EXCEPT ![t] = [tickets[t] EXCEPT !.status = status]]
          /\ \A u \in DOMAIN tickets : tickets[u] \in Row
      BY <1>7 DEF SetStatus
    <3> HIDE DEF TypeInv, TypeOK, Refs
    <3>2. [tickets[t] EXCEPT !.status = status] \in Row
      BY <3>1 DEF Row
    <3> QED
      BY <2>1, <3>1, <3>2
  <2> QED
    BY <1>7, <2>1, <2>2 DEF SetStatus, handlerVars
<1>8. CASE Crash
  BY <1>8 DEF Crash, Answer
<1>9. CASE Tick
  BY <1>9 DEF Tick, handlerVars
<1>10. CASE UNCHANGED vars
  BY <1>10 DEF vars
<1> QED
  BY <1>1, <1>2, <1>3, <1>4, <1>5, <1>6, <1>7, <1>8, <1>9, <1>10 DEF Next, Step

\* The table, the handlers' frames and the histories keep their types, and a
\* suspended dedupe always holds a snapshot of a row that is still there.
THEOREM TypeCorrect == Spec => []TypeOK
<1>1. TypeInv => TypeOK
  BY DEF TypeInv
<1> QED
  BY <1>1, TypeInvInit, TypeInvNext, PTL DEF Spec
-----------------------------------------------------------------------------
(* One handler, one report *)

\* No two handlers carry the same report; a report in flight is unanswered, and
\* uncommitted until its handler's COMMIT.
LiveCalls ==
    /\ \A p, q \in Procs : p # q /\ pc[p] # "idle" /\ pc[q] # "idle" => cur[p] # cur[q]
    /\ \A p \in Procs :
         /\ pc[p] # "idle" => cur[p] \notin DOMAIN answer
         /\ pc[p] \in {"select", "update", "insert"} => cur[p] \notin DOMAIN home

LEMMA LiveCallsInit == Init => LiveCalls
  BY DEF Init, LiveCalls

LEMMA LiveCallsNext == TypeInv /\ LiveCalls /\ [Next]_vars => LiveCalls'
<1> SUFFICES ASSUME TypeInv, LiveCalls, [Next]_vars
             PROVE  LiveCalls'
  OBVIOUS
<1> USE DEF LiveCalls
<1>0. /\ pc \in [Procs -> {"idle", "select", "update", "insert", "refresh"}]
      /\ cur \in [Procs -> Nat]
      /\ Len(reports) \in Nat
      /\ \A p \in Procs : pc[p] # "idle" => cur[p] \in 1 .. Len(reports)
      /\ \A r \in DOMAIN home \cup DOMAIN answer : r \in 1 .. Len(reports)
  BY DEF TypeInv, TypeOK, Reports
<1>1. ASSUME NEW p \in Procs, NEW s \in Submissions, Call(p, s)
      PROVE  LiveCalls'
  BY <1>0, <1>1 DEF Call
<1>2. ASSUME NEW p \in Procs, Select(p)
      PROVE  LiveCalls'
  BY <1>0, <1>2 DEF Select
<1>3. ASSUME NEW p \in Procs, CommitUpdate(p)
      PROVE  LiveCalls'
  BY <1>0, <1>3 DEF CommitUpdate, With
<1>4. ASSUME NEW p \in Procs, CommitInsert(p)
      PROVE  LiveCalls'
  BY <1>0, <1>4 DEF CommitInsert, With
<1>5. ASSUME NEW p \in Procs, Refresh(p) \/ Fail(p)
      PROVE  LiveCalls'
  <2>1. /\ pc[p] # "idle"
        /\ pc' = [pc EXCEPT ![p] = "idle"]
        /\ cur' = [cur EXCEPT ![p] = 0]
        /\ home' = home
        /\ DOMAIN answer' = DOMAIN answer \cup {cur[p]}
    BY <1>5 DEF Refresh, Fail, Return, With
  <2> QED
    BY <1>0, <2>1
<1>6. ASSUME NEW t \in TicketId, NEW status \in Statuses, SetStatus(t, status)
      PROVE  LiveCalls'
  BY <1>6 DEF SetStatus, handlerVars
<1>7. CASE Crash
  BY <1>0, <1>7 DEF Crash
<1>8. CASE Tick \/ UNCHANGED vars
  BY <1>8 DEF Tick, vars, handlerVars
<1> QED
  BY <1>1, <1>2, <1>3, <1>4, <1>5, <1>6, <1>7, <1>8 DEF Next, Step

-----------------------------------------------------------------------------
(* Identity of tickets and reports *)

\* A step leaves every stored row's identity alone, whichever handler takes it.
LEMMA KeepsIdentityNext == TypeInv /\ [Next]_vars => KeepsIdentity
<1> SUFFICES ASSUME TypeInv, [Next]_vars
             PROVE  KeepsIdentity
  OBVIOUS
<1> USE DEF KeepsIdentity, Identity
<1>0. \A t \in DOMAIN tickets : tickets[t] \in Row
  BY DEF TypeInv, TypeOK
<1>1. CASE UNCHANGED tickets
  BY <1>1
<1>2. ASSUME NEW p \in Procs, CommitUpdate(p)
      PROVE  KeepsIdentity
  BY <1>0, <1>2 DEF CommitUpdate, Bump, Row
<1>3. ASSUME NEW p \in Procs, CommitInsert(p)
      PROVE  KeepsIdentity
  BY <1>3 DEF CommitInsert, With
<1>4. ASSUME NEW t \in TicketId, NEW status \in Statuses, SetStatus(t, status)
      PROVE  KeepsIdentity
  BY <1>0, <1>4 DEF SetStatus, IsOpen, Row
<1> QED
  BY <1>1, <1>2, <1>3, <1>4
  DEF Next, Step, Call, Select, Refresh, Fail, Crash, Tick, vars

\* The identity of a stored ticket is permanent: dedupe can only count.
THEOREM IdentityPermanent == Spec => IdentityIsPermanent
<1>1. TypeInv /\ [Next]_vars => [KeepsIdentity]_vars
  BY KeepsIdentityNext
<1> QED
  BY <1>1, TypeInvInit, TypeInvNext, PTL DEF Spec, IdentityIsPermanent
\* The snapshot a dedupe holds is of a row with the report's own key, and its
\* severity, tier and first_seen are still the row's: only counters can be stale.
SnapshotsSound ==
    /\ \A p \in Procs : pc[p] \in {"select", "update"} => Sub(p).fingerprint # NoFp
    /\ \A p \in Procs : pc[p] = "update" =>
         /\ Key(Sub(p)) = TicketKey(snap[p].ticket)
         /\ snap[p].severity = tickets[snap[p].ticket].severity
         /\ snap[p].tier = tickets[snap[p].ticket].tier

LEMMA SnapshotsInit == Init => SnapshotsSound
  BY DEF Init, SnapshotsSound

LEMMA SnapshotsNext == TypeInv /\ SnapshotsSound /\ [Next]_vars => SnapshotsSound'
<1> SUFFICES ASSUME TypeInv, SnapshotsSound, [Next]_vars
             PROVE  SnapshotsSound'
  OBVIOUS
<1> USE DEF SnapshotsSound
<1>0. /\ pc \in [Procs -> {"idle", "select", "update", "insert", "refresh"}]
      /\ cur \in [Procs -> Nat]
      /\ snap \in [Procs -> Snapshot \cup {NoTicket}]
      /\ reports \in Seq(Submissions)
      /\ \A p \in Procs : /\ pc[p] # "idle" => cur[p] \in 1 .. Len(reports)
                          /\ pc[p] = "update" => snap[p].ticket \in DOMAIN tickets
  BY DEF TypeInv, TypeOK, Reports
<1>1. ASSUME NEW p \in Procs, NEW s \in Submissions, Call(p, s)
      PROVE  SnapshotsSound'
  <2>1. \A q \in Procs : q # p /\ pc[q] # "idle" => Sub(q)' = Sub(q)
    BY <1>0, <1>1 DEF Call, Sub
  <2>2. Sub(p)' = s
    BY <1>0, <1>1 DEF Call, Sub
  <2> QED
    BY <1>0, <1>1, <2>1, <2>2 DEF Call, TicketKey
<1>2. ASSUME NEW p \in Procs, Select(p)
      PROVE  SnapshotsSound'
  <2>1. \A q \in Procs : Sub(q)' = Sub(q) /\ \A t : TicketKey(t)' = TicketKey(t)
    BY <1>2 DEF Select, Sub, TicketKey
  <2>2. pc[p] = "select"
    BY <1>2 DEF Select
  <2>3. CASE pc' = [pc EXCEPT ![p] = "insert"] /\ UNCHANGED snap
    BY <1>0, <1>2, <2>1, <2>2, <2>3 DEF Select
  <2>4. ASSUME NEW t \in Oldest(OpenMatches(Sub(p).fingerprint, Sub(p).source)),
               pc' = [pc EXCEPT ![p] = "update"],
               snap' = [snap EXCEPT ![p] = [ticket |-> t,
                                            occurrences |-> tickets[t].occurrences,
                                            severity |-> tickets[t].severity,
                                            tier |-> tickets[t].tier]]
        PROVE  SnapshotsSound'
    <3>1. Key(Sub(p)) = TicketKey(t)
      BY DEF Oldest, OpenMatches, Key, TicketKey
    <3>2. /\ snap'[p].ticket = t
          /\ snap'[p].severity = tickets[t].severity
          /\ snap'[p].tier = tickets[t].tier
      BY <1>0, <2>4
    <3> QED
      BY <1>0, <1>2, <2>1, <2>2, <2>4, <3>1, <3>2 DEF Select
  <2> QED
    BY <1>2, <2>3, <2>4 DEF Select
<1>3. ASSUME NEW p \in Procs, CommitUpdate(p) \/ CommitInsert(p)
      PROVE  SnapshotsSound'
  <2>1. /\ pc' = [pc EXCEPT ![p] = "refresh"]
        /\ UNCHANGED <<cur, snap, reports>>
    BY <1>3 DEF CommitUpdate, CommitInsert
  <2>2. KeepsIdentity
    BY <1>3, KeepsIdentityNext DEF Next, Step
  <2>3. \A t \in DOMAIN tickets : /\ TicketKey(t)' = TicketKey(t)
                                  /\ tickets'[t].severity = tickets[t].severity
                                  /\ tickets'[t].tier = tickets[t].tier
    BY <2>2 DEF KeepsIdentity, Identity, TicketKey
  <2> QED
    BY <1>0, <2>1, <2>3 DEF Sub
<1>4. ASSUME NEW p \in Procs, Refresh(p) \/ Fail(p)
      PROVE  SnapshotsSound'
  <2>1. /\ pc' = [pc EXCEPT ![p] = "idle"]
        /\ cur' = [cur EXCEPT ![p] = 0]
        /\ snap' = [snap EXCEPT ![p] = NoTicket]
        /\ UNCHANGED <<tickets, reports>>
    BY <1>4 DEF Refresh, Fail, Return
  <2> QED
    BY <1>0, <2>1 DEF Sub, TicketKey
<1>5. ASSUME NEW t \in TicketId, NEW status \in Statuses, SetStatus(t, status)
      PROVE  SnapshotsSound'
  <2>1. KeepsIdentity
    BY <1>5, KeepsIdentityNext DEF Next
  <2>2. \A u \in DOMAIN tickets : /\ TicketKey(u)' = TicketKey(u)
                                  /\ tickets'[u].severity = tickets[u].severity
                                  /\ tickets'[u].tier = tickets[u].tier
    BY <2>1 DEF KeepsIdentity, Identity, TicketKey
  <2> QED
    BY <1>0, <1>5, <2>2 DEF SetStatus, handlerVars, Sub
<1>6. CASE Crash
  BY <1>6 DEF Crash
<1>7. CASE Tick \/ UNCHANGED vars
  BY <1>7 DEF Tick, vars, handlerVars, Sub, TicketKey
<1> QED
  BY <1>1, <1>2, <1>3, <1>4, <1>5, <1>6, <1>7 DEF Next, Step
-----------------------------------------------------------------------------
(* The score of a row *)

LEMMA PriorityNext ==
    TypeInv /\ SnapshotsSound /\ PriorityConsistent /\ [Next]_vars => PriorityConsistent'
<1> SUFFICES ASSUME TypeInv, SnapshotsSound, PriorityConsistent, [Next]_vars
             PROVE  PriorityConsistent'
  OBVIOUS
<1> USE DEF PriorityConsistent
<1>0. \A t \in DOMAIN tickets : tickets[t] \in Row
  BY DEF TypeInv, TypeOK
<1>1. CASE UNCHANGED tickets
  BY <1>1
<1>2. ASSUME NEW p \in Procs, CommitUpdate(p)
      PROVE  PriorityConsistent'
  <2>1. PICK now \in since[p] .. clock :
            tickets' = [tickets EXCEPT ![snap[p].ticket] =
                          Bump(tickets[snap[p].ticket], snap[p], Sub(p), now)]
    BY <1>2 DEF CommitUpdate
  <2>2. /\ snap[p].severity = tickets[snap[p].ticket].severity
        /\ snap[p].tier = tickets[snap[p].ticket].tier
    BY <1>2 DEF CommitUpdate, SnapshotsSound
  <2> QED
    BY <1>0, <2>1, <2>2 DEF Bump, Row
<1>3. ASSUME NEW p \in Procs, CommitInsert(p)
      PROVE  PriorityConsistent'
  BY <1>3 DEF CommitInsert, With, NewRow
<1>4. ASSUME NEW t \in TicketId, NEW status \in Statuses, SetStatus(t, status)
      PROVE  PriorityConsistent'
  BY <1>0, <1>4 DEF SetStatus, Row
<1> QED
  BY <1>1, <1>2, <1>3, <1>4
  DEF Next, Step, Call, Select, Refresh, Fail, Crash, Tick, vars

\* The stored score is always the score of the stored row: an UPDATE writes both
\* from one snapshot, and what else the score depends on never changes.
THEOREM PriorityAlwaysConsistent == Spec => []PriorityConsistent
<1>1. Init => PriorityConsistent
  BY DEF Init, PriorityConsistent
<1> QED
  BY <1>1, TypeInvInit, TypeInvNext, SnapshotsInit, SnapshotsNext, PriorityNext, PTL DEF Spec

-----------------------------------------------------------------------------
(* What is merged where *)

LEMMA MergeNext ==
    /\ TypeInv /\ LiveCalls /\ SnapshotsSound /\ MergedReportsMatch
    /\ [Next]_vars
    => MergedReportsMatch'
<1> SUFFICES ASSUME TypeInv, LiveCalls, SnapshotsSound, MergedReportsMatch, [Next]_vars
             PROVE  MergedReportsMatch'
  OBVIOUS
<1> USE DEF MergedReportsMatch, MergedInto
<1>0. /\ reports \in Seq(Submissions)
      /\ \A r \in DOMAIN home : r \in 1 .. Len(reports) /\ home[r] \in DOMAIN tickets
      /\ \A p \in Procs : pc[p] # "idle" => cur[p] \in 1 .. Len(reports)
  BY DEF TypeInv, TypeOK, Reports, Refs
<1>1. \A t \in DOMAIN tickets : t \in DOMAIN tickets' /\ TicketKey(t)' = TicketKey(t)
  BY KeepsIdentityNext DEF KeepsIdentity, Identity, TicketKey
<1>2. CASE UNCHANGED <<home, reports>>
  BY <1>0, <1>1, <1>2
<1>3. ASSUME NEW p \in Procs, NEW s \in Submissions, Call(p, s)
      PROVE  MergedReportsMatch'
  <2>1. \A r \in 1 .. Len(reports) : reports'[r] = reports[r]
    BY <1>0, <1>3 DEF Call
  <2> QED
    BY <1>0, <1>1, <1>3, <2>1 DEF Call
<1>4. ASSUME NEW p \in Procs, CommitUpdate(p)
      PROVE  MergedReportsMatch'
  <2> DEFINE t == snap[p].ticket
  <2>1. /\ cur[p] \notin DOMAIN home
        /\ t \in DOMAIN tickets
        /\ Sub(p).fingerprint # NoFp
        /\ Key(Sub(p)) = TicketKey(t)
    BY <1>4 DEF CommitUpdate, LiveCalls, SnapshotsSound, TypeInv, TypeOK
  <2>2. home' = With(home, cur[p], t) /\ reports' = reports
    BY <1>4 DEF CommitUpdate
  <2>3. \A r \in DOMAIN home : /\ home'[r] = home[r]
                               /\ reports[r].fingerprint = NoFp => home[r] # t
    BY <2>1, <2>2 DEF With, Key, TicketKey
  <2> HIDE DEF t
  <2> QED
    BY <1>1, <2>1, <2>2, <2>3 DEF With, Sub
<1>5. ASSUME NEW p \in Procs, CommitInsert(p)
      PROVE  MergedReportsMatch'
  <2>1. PICK t \in TicketId \ DOMAIN tickets, now \in since[p] .. clock :
            /\ tickets' = With(tickets, t, NewRow(Sub(p), now))
            /\ home' = With(home, cur[p], t)
    BY <1>5 DEF CommitInsert
  <2>2. cur[p] \notin DOMAIN home /\ reports' = reports
    BY <1>5 DEF CommitInsert, LiveCalls
  <2>3. t \in DOMAIN tickets' /\ TicketKey(t)' = Key(Sub(p))
    BY <2>1 DEF With, NewRow, TicketKey, Key
  <2>4. \A r \in DOMAIN home : home'[r] = home[r] /\ home[r] # t
    BY <1>0, <2>1, <2>2 DEF With
  <2>5. DOMAIN home' = DOMAIN home \cup {cur[p]} /\ home'[cur[p]] = t
    BY <2>1 DEF With
  <2> QED
    BY <1>1, <2>2, <2>3, <2>4, <2>5 DEF Sub
<1> QED
  BY <1>2, <1>3, <1>4, <1>5
  DEF Next, Step, Select, Refresh, Fail, SetStatus, Crash, Tick, vars

\* A ticket only ever merges reports of its own (fingerprint, source), and a
\* report without a fingerprint is alone in its ticket.
THEOREM MergesMatch == Spec => []MergedReportsMatch
<1>1. Init => MergedReportsMatch
  BY DEF Init, MergedReportsMatch
<1> QED
  BY <1>1, TypeInvInit, TypeInvNext, LiveCallsInit, LiveCallsNext,
     SnapshotsInit, SnapshotsNext, MergeNext, PTL DEF Spec
-----------------------------------------------------------------------------
(* Counting *)

\* The count a dedupe has read, and is about to add one to, was reached by
\* distinct committed reports, its own not among them.
SnapshotCounts ==
    \A p \in Procs : pc[p] = "update" =>
        /\ snap[p].occurrences >= 1
        /\ snap[p].occurrences <= Cardinality(MergedInto(snap[p].ticket))

CountInv == NoOvercount /\ SnapshotCounts

LEMMA MergedIsFinite ==
    ASSUME TypeInv, NEW t
    PROVE  IsFiniteSet(MergedInto(t)) /\ Cardinality(MergedInto(t)) \in Nat
<1>1. Len(reports) \in Nat /\ MergedInto(t) \subseteq 1 .. Len(reports)
  BY DEF TypeInv, TypeOK, Reports, MergedInto
<1>2. IsFiniteSet(1 .. Len(reports))
  BY <1>1, FS_Interval
<1> QED
  BY <1>1, <1>2, FS_Subset, FS_CardinalityType

\* Committing a new report to a ticket makes its merged set one larger.
LEMMA CommitCounts ==
    ASSUME TypeInv, NEW r, r \notin DOMAIN home, NEW t, home' = With(home, r, t)
    PROVE  /\ Cardinality(MergedInto(t))' = Cardinality(MergedInto(t)) + 1
           /\ \A u : u # t => MergedInto(u)' = MergedInto(u)
<1>1. MergedInto(t)' = MergedInto(t) \cup {r} /\ r \notin MergedInto(t)
  BY DEF MergedInto, With
<1>2. \A u : u # t => MergedInto(u)' = MergedInto(u)
  BY DEF MergedInto, With
<1> QED
  BY <1>1, <1>2, MergedIsFinite, FS_AddElement

LEMMA CountNext ==
    TypeInv /\ LiveCalls /\ CountInv /\ [Next]_vars => CountInv'
<1> SUFFICES ASSUME TypeInv, LiveCalls, CountInv, [Next]_vars
             PROVE  CountInv'
  OBVIOUS
<1> USE DEF CountInv, NoOvercount, SnapshotCounts
<1>0. /\ pc \in [Procs -> {"idle", "select", "update", "insert", "refresh"}]
      /\ snap \in [Procs -> Snapshot \cup {NoTicket}]
      /\ \A t \in DOMAIN tickets : tickets[t] \in Row
      /\ \A p \in Procs : pc[p] = "update" => /\ snap[p] \in Snapshot
                                              /\ snap[p].ticket \in DOMAIN tickets
      /\ \A r \in DOMAIN home : home[r] \in DOMAIN tickets
  BY DEF TypeInv, TypeOK, Refs
<1>1. \A t : Cardinality(MergedInto(t)) \in Nat
  BY MergedIsFinite
<1>2. ASSUME UNCHANGED <<tickets, home>>,
             \A p \in Procs : pc'[p] = "update" => pc[p] = "update" /\ snap'[p] = snap[p]
      PROVE  CountInv'
  <2>1. \A t : MergedInto(t)' = MergedInto(t)
    BY <1>2 DEF MergedInto
  <2> QED
    BY <1>2, <2>1
<1>3. ASSUME NEW p \in Procs, Select(p)
      PROVE  CountInv'
  <2>1. \A t : MergedInto(t)' = MergedInto(t)
    BY <1>3 DEF Select, MergedInto
  <2>2. ASSUME NEW t \in Oldest(OpenMatches(Sub(p).fingerprint, Sub(p).source)),
               pc' = [pc EXCEPT ![p] = "update"],
               snap' = [snap EXCEPT ![p] = [ticket |-> t,
                                            occurrences |-> tickets[t].occurrences,
                                            severity |-> tickets[t].severity,
                                            tier |-> tickets[t].tier]]
        PROVE  SnapshotCounts'
    <3>1. t \in DOMAIN tickets
      BY DEF Oldest, OpenMatches
    <3>2. snap'[p].ticket = t /\ snap'[p].occurrences = tickets[t].occurrences
      BY <1>0, <2>2
    <3> QED
      BY <1>0, <2>1, <2>2, <3>1, <3>2
  <2>3. ASSUME pc' = [pc EXCEPT ![p] = "insert"], UNCHANGED snap
        PROVE  SnapshotCounts'
    <3> SUFFICES ASSUME NEW q \in Procs, pc'[q] = "update"
                 PROVE  /\ snap'[q].occurrences >= 1
                        /\ snap'[q].occurrences <= Cardinality(MergedInto(snap[q].ticket))'
      BY <2>3
    <3>1. pc[q] = "update" /\ snap'[q] = snap[q]
      BY <1>0, <2>3
    <3>2. MergedInto(snap[q].ticket)' = MergedInto(snap[q].ticket)
      BY <2>1, <2>3, <3>1 DEF MergedInto
    <3> QED
      BY <3>1, <3>2
  <2>4. NoOvercount'
    BY <1>3, <2>1 DEF Select
  <2> QED
    BY <1>3, <2>2, <2>3, <2>4 DEF Select
<1>4. ASSUME NEW p \in Procs, CommitUpdate(p)
      PROVE  CountInv'
  <2>0. PICK t \in DOMAIN tickets, n \in Nat : t = snap[p].ticket /\ n = snap[p].occurrences
    BY <1>0, <1>4 DEF CommitUpdate, Snapshot
  <2>1. /\ pc[p] = "update" /\ cur[p] \notin DOMAIN home
        /\ n >= 1 /\ n <= Cardinality(MergedInto(t))
    BY <1>4, <2>0 DEF CommitUpdate, LiveCalls
  <2>2. /\ Cardinality(MergedInto(t))' = Cardinality(MergedInto(t)) + 1
        /\ \A u : u # t => MergedInto(u)' = MergedInto(u)
    BY <1>4, <2>0, <2>1, CommitCounts DEF CommitUpdate
  <2>3. /\ DOMAIN tickets' = DOMAIN tickets
        /\ tickets'[t].occurrences = n + 1
        /\ \A u \in DOMAIN tickets : u # t => tickets'[u] = tickets[u]
    <3>1. PICK now \in since[p] .. clock :
              tickets' = [tickets EXCEPT ![t] = Bump(tickets[t], snap[p], Sub(p), now)]
      BY <1>4, <2>0 DEF CommitUpdate
    <3>2. tickets[t] \in Row
      BY <1>0
    <3>3. Bump(tickets[t], snap[p], Sub(p), now).occurrences = n + 1
      BY <2>0, <3>2 DEF Bump, Row
    <3> QED
      BY <3>1, <3>3
  <2>4. pc' = [pc EXCEPT ![p] = "refresh"] /\ snap' = snap
    BY <1>4 DEF CommitUpdate
  <2>5. NoOvercount'
    BY <1>1, <2>1, <2>2, <2>3
  <2>6. \A u : Cardinality(MergedInto(u)) <= Cardinality(MergedInto(u))'
    BY <1>1, <2>2
  <2>7. SnapshotCounts'
    <3> SUFFICES ASSUME NEW q \in Procs, pc'[q] = "update"
                 PROVE  /\ snap'[q].occurrences >= 1
                        /\ snap'[q].occurrences <= Cardinality(MergedInto(snap[q].ticket))'
      OBVIOUS
    <3>1. pc[q] = "update" /\ snap'[q] = snap[q]
      BY <1>0, <2>4
    <3>2. PICK u \in DOMAIN tickets, m \in Nat : u = snap[q].ticket /\ m = snap[q].occurrences
      BY <1>0, <3>1 DEF Snapshot
    <3>3. m >= 1 /\ m <= Cardinality(MergedInto(u))
      BY <3>1, <3>2
    <3>4. Cardinality(MergedInto(u)) \in Nat /\ Cardinality(MergedInto(u))' \in Nat
      BY <1>1, <2>2
    <3>5. m <= Cardinality(MergedInto(u))'
      BY <2>6, <3>3, <3>4
    <3>6. MergedInto(snap[q].ticket)' = MergedInto(u)'
      BY <3>1, <3>2
    <3> QED
      BY <3>1, <3>2, <3>3, <3>5, <3>6
  <2> QED
    BY <2>5, <2>7
<1>5. ASSUME NEW p \in Procs, CommitInsert(p)
      PROVE  CountInv'
  <2>1. PICK t \in TicketId \ DOMAIN tickets, now \in since[p] .. clock :
            /\ tickets' = With(tickets, t, NewRow(Sub(p), now))
            /\ home' = With(home, cur[p], t)
    BY <1>5 DEF CommitInsert
  <2>2. pc[p] = "insert" /\ cur[p] \notin DOMAIN home
    BY <1>5 DEF CommitInsert, LiveCalls
  <2>3. /\ Cardinality(MergedInto(t))' = Cardinality(MergedInto(t)) + 1
        /\ \A u : u # t => MergedInto(u)' = MergedInto(u)
    BY <2>1, <2>2, CommitCounts
  <2>4. /\ DOMAIN tickets' = DOMAIN tickets \cup {t}
        /\ tickets'[t].occurrences = 1
        /\ \A u \in DOMAIN tickets : tickets'[u] = tickets[u]
    BY <2>1 DEF With, NewRow
  <2>5. NoOvercount'
    BY <1>1, <2>1, <2>3, <2>4
  <2>6. SnapshotCounts'
    BY <1>0, <1>5, <2>1, <2>3 DEF CommitInsert
  <2> QED
    BY <2>5, <2>6
<1>6. ASSUME NEW t \in TicketId, NEW status \in Statuses, SetStatus(t, status)
      PROVE  CountInv'
  <2>1. \A u : MergedInto(u)' = MergedInto(u)
    BY <1>6 DEF SetStatus, MergedInto
  <2>2. /\ DOMAIN tickets' = DOMAIN tickets
        /\ \A u \in DOMAIN tickets : tickets'[u].occurrences = tickets[u].occurrences
    BY <1>0, <1>6 DEF SetStatus, Row
  <2> QED
    BY <1>6, <2>1, <2>2 DEF SetStatus, handlerVars
<1>7. ASSUME NEW p \in Procs, NEW s \in Submissions, Call(p, s)
      PROVE  CountInv'
  BY <1>0, <1>2, <1>7 DEF Call
<1>8. ASSUME NEW p \in Procs, Refresh(p) \/ Fail(p)
      PROVE  CountInv'
  BY <1>0, <1>2, <1>8 DEF Refresh, Fail, Return
<1>9. CASE Crash \/ Tick \/ UNCHANGED vars
  BY <1>0, <1>2, <1>9 DEF Crash, Tick, vars, handlerVars
<1> QED
  BY <1>3, <1>4, <1>5, <1>6, <1>7, <1>8, <1>9 DEF Next, Step

\* No interleaving, failure or restart makes a ticket count more reports than
\* were merged into it: every race errs on the low side.
THEOREM NeverOvercounts == Spec => []NoOvercount
<1>1. Init => CountInv
  BY DEF Init, CountInv, NoOvercount, SnapshotCounts
<1>2. CountInv => NoOvercount
  BY DEF CountInv
<1> QED
  BY <1>1, <1>2, TypeInvInit, TypeInvNext, LiveCallsInit, LiveCallsNext, CountNext, PTL DEF Spec
-----------------------------------------------------------------------------
(* Receipts *)

LEMMA ReceiptsNext ==
    TypeInv /\ LiveCalls /\ ReceiptsAreDurable /\ [Next]_vars => ReceiptsAreDurable'
<1> SUFFICES ASSUME TypeInv, LiveCalls, ReceiptsAreDurable, [Next]_vars
             PROVE  ReceiptsAreDurable'
  OBVIOUS
<1> USE DEF ReceiptsAreDurable
<1>1. \A t \in DOMAIN tickets : t \in DOMAIN tickets'
  BY KeepsIdentityNext DEF KeepsIdentity
<1>2. CASE UNCHANGED <<home, answer>>
  BY <1>1, <1>2
<1>3. ASSUME NEW p \in Procs, CommitUpdate(p) \/ CommitInsert(p)
      PROVE  ReceiptsAreDurable'
  <2>1. PICK t : home' = With(home, cur[p], t)
    BY <1>3 DEF CommitUpdate, CommitInsert
  <2>2. cur[p] \notin DOMAIN home /\ answer' = answer
    BY <1>3 DEF CommitUpdate, CommitInsert, LiveCalls
  <2> QED
    BY <1>1, <2>1, <2>2 DEF With
<1>4. ASSUME NEW p \in Procs, Refresh(p)
      PROVE  ReceiptsAreDurable'
  <2>1. cur[p] \in DOMAIN home /\ home[cur[p]] \in DOMAIN tickets
    BY <1>4 DEF Refresh, TypeInv, Refs
  <2> QED
    BY <1>4, <2>1 DEF Refresh, Return, With
<1>5. ASSUME NEW p \in Procs, Fail(p)
      PROVE  ReceiptsAreDurable'
  BY <1>5 DEF Fail, Return, With
<1>6. CASE Crash
  BY <1>6 DEF Crash
<1> QED
  BY <1>2, <1>3, <1>4, <1>5, <1>6 DEF Next, Step, Call, Select, SetStatus, Tick, vars

\* A 202 names the stored ticket its report was committed to, for ever.
THEOREM ReceiptsDurable == Spec => []ReceiptsAreDurable
<1>1. Init => ReceiptsAreDurable
  BY DEF Init, ReceiptsAreDurable
<1> QED
  BY <1>1, TypeInvInit, TypeInvNext, LiveCallsInit, LiveCallsNext, ReceiptsNext, PTL DEF Spec

-----------------------------------------------------------------------------
(* Time *)

\* A handler's next timestamp is not in the future, and not before the creation
\* of the row it is about to touch.
TimesInv ==
    /\ SeenInOrder
    /\ \A p \in Procs : since[p] <= clock
    /\ \A p \in Procs : pc[p] = "update" => tickets[snap[p].ticket].first_seen <= since[p]

LEMMA TimesNext == TypeInv /\ TimesInv /\ [Next]_vars => TimesInv'
<1> SUFFICES ASSUME TypeInv, TimesInv, [Next]_vars
             PROVE  TimesInv'
  OBVIOUS
<1> USE DEF TimesInv, SeenInOrder
<1>0. /\ pc \in [Procs -> {"idle", "select", "update", "insert", "refresh"}]
      /\ since \in [Procs -> Nat]
      /\ snap \in [Procs -> Snapshot \cup {NoTicket}]
      /\ clock \in Nat
      /\ \A t \in DOMAIN tickets : /\ tickets[t] \in Row
                                   /\ tickets[t].first_seen \in Nat
                                   /\ tickets[t].last_seen \in Nat
      /\ \A p \in Procs : pc[p] = "update" => snap[p].ticket \in DOMAIN tickets
  BY DEF TypeInv, TypeOK, Row
<1>1. ASSUME NEW p \in Procs, NEW s \in Submissions, Call(p, s)
      PROVE  TimesInv'
  BY <1>0, <1>1 DEF Call
<1>2. ASSUME NEW p \in Procs, Select(p)
      PROVE  TimesInv'
  <2>1. /\ since' = [since EXCEPT ![p] = clock]
        /\ UNCHANGED <<tickets, clock>>
    BY <1>2 DEF Select
  <2>2. CASE pc' = [pc EXCEPT ![p] = "insert"] /\ UNCHANGED snap
    BY <1>0, <2>1, <2>2
  <2>3. ASSUME NEW t \in DOMAIN tickets,
               pc' = [pc EXCEPT ![p] = "update"],
               snap' = [snap EXCEPT ![p] = [ticket |-> t,
                                            occurrences |-> tickets[t].occurrences,
                                            severity |-> tickets[t].severity,
                                            tier |-> tickets[t].tier]]
        PROVE  TimesInv'
    <3>1. snap'[p].ticket = t /\ tickets[t].first_seen <= clock
      BY <1>0, <2>3
    <3>2. \A q \in Procs : q # p => snap'[q] = snap[q]
      BY <1>0, <2>3
    <3> QED
      BY <1>0, <2>1, <2>3, <3>1, <3>2
  <2>4. Oldest(OpenMatches(Sub(p).fingerprint, Sub(p).source)) \subseteq DOMAIN tickets
    BY DEF Oldest, OpenMatches
  <2> QED
    BY <1>2, <2>2, <2>3, <2>4 DEF Select
<1>3. ASSUME NEW p \in Procs, CommitUpdate(p)
      PROVE  TimesInv'
  <2>1. PICK now \in since[p] .. clock :
            tickets' = [tickets EXCEPT ![snap[p].ticket] =
                          Bump(tickets[snap[p].ticket], snap[p], Sub(p), now)]
    BY <1>3 DEF CommitUpdate
  <2>2. /\ pc[p] = "update"
        /\ pc' = [pc EXCEPT ![p] = "refresh"]
        /\ UNCHANGED <<clock, since, snap>>
    BY <1>3 DEF CommitUpdate
  <2>3. PICK t \in DOMAIN tickets : t = snap[p].ticket
    BY <1>0, <2>2
  <2>4. now \in Nat /\ since[p] <= now /\ now <= clock
    BY <1>0, <2>1
  <2>5. /\ Bump(tickets[t], snap[p], Sub(p), now).first_seen = tickets[t].first_seen
        /\ Bump(tickets[t], snap[p], Sub(p), now).last_seen = now
    BY <1>0 DEF Bump, Row
  <2>6. tickets[t].first_seen <= now
    BY <1>0, <2>2, <2>3, <2>4
  <2> QED
    BY <1>0, <2>1, <2>2, <2>3, <2>4, <2>5, <2>6
<1>4. ASSUME NEW p \in Procs, CommitInsert(p)
      PROVE  TimesInv'
  <2>1. PICK t \in TicketId \ DOMAIN tickets, now \in since[p] .. clock :
            tickets' = With(tickets, t, NewRow(Sub(p), now))
    BY <1>4 DEF CommitInsert
  <2>2. /\ NewRow(Sub(p), now).first_seen = now
        /\ NewRow(Sub(p), now).last_seen = now
    BY DEF NewRow
  <2>3. now \in Nat /\ now <= clock
    BY <1>0, <2>1
  <2>4. /\ pc' = [pc EXCEPT ![p] = "refresh"]
        /\ UNCHANGED <<clock, since, snap>>
    BY <1>4 DEF CommitInsert
  <2> QED
    BY <1>0, <2>1, <2>2, <2>3, <2>4 DEF With
<1>5. ASSUME NEW p \in Procs, Refresh(p) \/ Fail(p)
      PROVE  TimesInv'
  BY <1>0, <1>5 DEF Refresh, Fail, Return
<1>6. ASSUME NEW t \in TicketId, NEW status \in Statuses, SetStatus(t, status)
      PROVE  TimesInv'
  BY <1>0, <1>6 DEF SetStatus, handlerVars, Row
<1>7. CASE Crash \/ Tick \/ UNCHANGED vars
  BY <1>0, <1>7 DEF Crash, Tick, vars, handlerVars
<1> QED
  BY <1>1, <1>2, <1>3, <1>4, <1>5, <1>6, <1>7 DEF Next, Step

\* first_seen <= last_seen <= now for every row, although overlapping calls
\* commit out of the order of their timestamps.
THEOREM SeenAlwaysInOrder == Spec => []SeenInOrder
<1>1. Init => TimesInv
  BY DEF Init, TimesInv, SeenInOrder
<1>2. TimesInv => SeenInOrder
  BY DEF TimesInv
<1> QED
  BY <1>1, <1>2, TypeInvInit, TypeInvNext, TimesNext, PTL DEF Spec
-----------------------------------------------------------------------------
(* Duplicates *)

Table == IsFiniteSet(DOMAIN tickets)
Slots(k) == Cardinality(OpenTickets(k)) + Cardinality(Creating(k))

LEMMA TableNext == Table /\ [Next]_vars => Table'
<1> SUFFICES ASSUME Table, [Next]_vars
             PROVE  Table'
  OBVIOUS
<1> USE DEF Table
<1>1. CASE DOMAIN tickets' = DOMAIN tickets
  BY <1>1
<1>2. ASSUME NEW p \in Procs, CommitInsert(p)
      PROVE  Table'
  <2>1. PICK t : DOMAIN tickets' = DOMAIN tickets \cup {t}
    BY <1>2 DEF CommitInsert, With
  <2> QED
    BY <2>1, FS_AddElement
<1> QED
  BY <1>1, <1>2
  DEF Next, Step, Call, Select, CommitUpdate, Refresh, Fail, SetStatus, Crash, Tick, vars

\* Fewer open tickets and fewer creations cannot exceed a bound that held.
LEMMA FewerSlots ==
    ASSUME IsFiniteSet(Procs), Table, NEW k,
           OpenTickets(k)' \subseteq OpenTickets(k), Creating(k)' \subseteq Creating(k),
           Slots(k) <= Cardinality(Procs)
    PROVE  Slots(k)' <= Cardinality(Procs)
<1>1. IsFiniteSet(OpenTickets(k)) /\ IsFiniteSet(Creating(k))
  BY FS_Subset DEF OpenTickets, Creating, Table
<1>2. /\ Cardinality(OpenTickets(k)') <= Cardinality(OpenTickets(k))
      /\ Cardinality(Creating(k)') <= Cardinality(Creating(k))
      /\ IsFiniteSet(OpenTickets(k)') /\ IsFiniteSet(Creating(k)')
  BY <1>1, FS_Subset
<1>3. /\ Cardinality(OpenTickets(k)) \in Nat /\ Cardinality(Creating(k)) \in Nat
      /\ Cardinality(OpenTickets(k)') \in Nat /\ Cardinality(Creating(k)') \in Nat
      /\ Cardinality(Procs) \in Nat
  BY <1>1, <1>2, FS_CardinalityType
<1> QED
  BY <1>2, <1>3 DEF Slots

LEMMA SlotsNext ==
    ASSUME IsFiniteSet(Procs), TypeInv, Table, DuplicatesBounded, [Next]_vars
    PROVE  DuplicatesBounded'
<1> SUFFICES ASSUME NEW k \in Fingerprint \X Source
             PROVE  Slots(k)' <= Cardinality(Procs)
  BY DEF DuplicatesBounded, Slots
<1>0. /\ pc \in [Procs -> {"idle", "select", "update", "insert", "refresh"}]
      /\ cur \in [Procs -> Nat]
      /\ reports \in Seq(Submissions)
      /\ \A p \in Procs : pc[p] # "idle" => cur[p] \in 1 .. Len(reports)
      /\ \A t \in DOMAIN tickets : tickets[t] \in Row
      /\ \A p \in Procs : pc[p] = "update" => snap[p].ticket \in DOMAIN tickets
      /\ k[1] # NoFp
  BY StoreAssumption DEF TypeInv, TypeOK, Reports
<1>1. Slots(k) <= Cardinality(Procs)
  BY DEF DuplicatesBounded, Slots
<1>2. ASSUME UNCHANGED tickets
      PROVE  OpenTickets(k)' = OpenTickets(k)
  BY <1>2 DEF OpenTickets, TicketKey, IsOpen
<1>3. ASSUME UNCHANGED <<cur, reports>>,
             \A p \in Procs : pc'[p] = "insert" => pc[p] = "insert"
      PROVE  Creating(k)' \subseteq Creating(k)
  BY <1>3 DEF Creating, Sub, Key
<1>4. ASSUME NEW p \in Procs, NEW s \in Submissions, Call(p, s)
      PROVE  Slots(k)' <= Cardinality(Procs)
  <2>1. \A q \in Procs : q # p /\ pc[q] # "idle" => Sub(q)' = Sub(q)
    BY <1>0, <1>4 DEF Call, Sub
  <2>2. Sub(p)' = s
    BY <1>0, <1>4 DEF Call, Sub
  <2>3. pc'[p] = "insert" => Key(Sub(p))' # k
    BY <1>0, <1>4, <2>2 DEF Call, Key
  <2>4. Creating(k)' \subseteq Creating(k)
    BY <1>0, <1>4, <2>1, <2>3 DEF Call, Creating, Key
  <2> QED
    BY <1>1, <1>2, <1>4, <2>4, FewerSlots DEF Call
<1>5. ASSUME NEW p \in Procs, Select(p)
      PROVE  Slots(k)' <= Cardinality(Procs)
  <2>1. UNCHANGED <<tickets, cur, reports>>
    BY <1>5 DEF Select
  <2>2. CASE OpenMatches(Sub(p).fingerprint, Sub(p).source) = {} /\ Key(Sub(p)) = k
    <3>1. OpenTickets(k)' = {}
      BY <1>2, <2>1, <2>2 DEF OpenMatches, OpenTickets, Key, TicketKey
    <3>2. Cardinality(OpenTickets(k)') = 0
      BY <3>1, FS_EmptySet
    <3>3. Creating(k)' \subseteq Procs
      BY DEF Creating
    <3>4. Cardinality(Creating(k)') <= Cardinality(Procs) /\ IsFiniteSet(Creating(k)')
      BY <3>3, FS_Subset
    <3>5. Cardinality(Creating(k)') \in Nat
      BY <3>4, FS_CardinalityType
    <3> QED
      BY <3>2, <3>4, <3>5 DEF Slots
  <2>3. CASE Key(Sub(p)) # k
    <3>1. Creating(k)' \subseteq Creating(k)
      BY <1>0, <1>5, <2>1, <2>3 DEF Select, Creating, Sub, Key
    <3> QED
      BY <1>1, <1>2, <2>1, <3>1, FewerSlots
  <2>4. CASE OpenMatches(Sub(p).fingerprint, Sub(p).source) # {}
    <3>1. pc' = [pc EXCEPT ![p] = "update"]
      BY <1>5, <2>4 DEF Select
    <3> QED
      BY <1>0, <1>1, <1>2, <1>3, <2>1, <3>1, FewerSlots
  <2> QED
    BY <2>2, <2>3, <2>4
<1>6. ASSUME NEW p \in Procs, CommitUpdate(p)
      PROVE  Slots(k)' <= Cardinality(Procs)
  <2>1. PICK now \in since[p] .. clock :
            tickets' = [tickets EXCEPT ![snap[p].ticket] =
                          Bump(tickets[snap[p].ticket], snap[p], Sub(p), now)]
    BY <1>6 DEF CommitUpdate
  <2>2. \A t \in DOMAIN tickets : TicketKey(t)' = TicketKey(t) /\ IsOpen(t)' = IsOpen(t)
    BY <1>0, <2>1 DEF TicketKey, IsOpen, Bump, Row
  <2>3. OpenTickets(k)' \subseteq OpenTickets(k)
    BY <2>1, <2>2 DEF OpenTickets
  <2> QED
    BY <1>0, <1>1, <1>3, <1>6, <2>3, FewerSlots DEF CommitUpdate
<1>7. ASSUME NEW p \in Procs, CommitInsert(p)
      PROVE  Slots(k)' <= Cardinality(Procs)
  <2>1. PICK t \in TicketId \ DOMAIN tickets, now \in since[p] .. clock :
            tickets' = With(tickets, t, NewRow(Sub(p), now))
    BY <1>7 DEF CommitInsert
  <2>2. /\ pc[p] = "insert"
        /\ pc' = [pc EXCEPT ![p] = "refresh"]
        /\ UNCHANGED <<cur, reports>>
    BY <1>7 DEF CommitInsert
  <2>3. OpenTickets(k)' \subseteq OpenTickets(k) \cup {t}
    BY <2>1 DEF OpenTickets, TicketKey, IsOpen, With
  <2>4. CASE Key(Sub(p)) # k
    <3>1. OpenTickets(k)' \subseteq OpenTickets(k)
      BY <2>1, <2>3, <2>4 DEF OpenTickets, TicketKey, With, NewRow, Key
    <3> QED
      BY <1>0, <1>1, <1>3, <2>2, <3>1, FewerSlots
  <2>5. CASE Key(Sub(p)) = k
    <3>1. p \in Creating(k) /\ Creating(k)' = Creating(k) \ {p}
      BY <1>0, <2>2, <2>5 DEF Creating, Sub, Key
    <3>2. IsFiniteSet(Creating(k)) /\ IsFiniteSet(OpenTickets(k))
      BY FS_Subset DEF Creating, OpenTickets, Table
    <3>3. Cardinality(Creating(k)') = Cardinality(Creating(k)) - 1
      BY <3>1, <3>2, FS_RemoveElement
    <3>4. t \notin OpenTickets(k)
      BY <2>1 DEF OpenTickets
    <3>5. /\ IsFiniteSet(OpenTickets(k) \cup {t})
          /\ Cardinality(OpenTickets(k) \cup {t}) = Cardinality(OpenTickets(k)) + 1
      BY <3>2, <3>4, FS_AddElement
    <3>6. /\ IsFiniteSet(OpenTickets(k)')
          /\ Cardinality(OpenTickets(k)') <= Cardinality(OpenTickets(k)) + 1
      BY <2>3, <3>5, FS_Subset
    <3>7. /\ Cardinality(OpenTickets(k)) \in Nat /\ Cardinality(Creating(k)) \in Nat
          /\ Cardinality(OpenTickets(k)') \in Nat /\ Cardinality(Procs) \in Nat
      BY <3>2, <3>6, FS_CardinalityType
    <3> QED
      BY <1>1, <3>3, <3>6, <3>7 DEF Slots
  <2> QED
    BY <2>4, <2>5
<1>8. ASSUME NEW p \in Procs, Refresh(p) \/ Fail(p)
      PROVE  Slots(k)' <= Cardinality(Procs)
  <2>1. /\ pc' = [pc EXCEPT ![p] = "idle"]
        /\ cur' = [cur EXCEPT ![p] = 0]
        /\ UNCHANGED <<tickets, reports>>
    BY <1>8 DEF Refresh, Fail, Return
  <2>2. Creating(k)' \subseteq Creating(k)
    BY <1>0, <2>1 DEF Creating, Sub, Key
  <2> QED
    BY <1>1, <1>2, <2>1, <2>2, FewerSlots
<1>9. ASSUME NEW t \in TicketId, NEW status \in Statuses, SetStatus(t, status)
      PROVE  Slots(k)' <= Cardinality(Procs)
  <2>1. \A u \in DOMAIN tickets : /\ TicketKey(u)' = TicketKey(u)
                                  /\ IsOpen(u)' => IsOpen(u)
    BY <1>0, <1>9 DEF SetStatus, TicketKey, IsOpen, Row
  <2>2. OpenTickets(k)' \subseteq OpenTickets(k)
    BY <1>9, <2>1 DEF SetStatus, OpenTickets
  <2> QED
    BY <1>1, <1>3, <1>9, <2>2, FewerSlots DEF SetStatus, handlerVars
<1>10. CASE Crash
  <2>1. UNCHANGED tickets /\ Creating(k)' = {}
    BY <1>10 DEF Crash, Creating
  <2> QED
    BY <1>1, <1>2, <2>1, FewerSlots
<1>11. CASE Tick \/ UNCHANGED vars
  BY <1>1, <1>2, <1>3, <1>11, FewerSlots DEF Tick, vars, handlerVars
<1> QED
  BY <1>4, <1>5, <1>6, <1>7, <1>8, <1>9, <1>10, <1>11 DEF Next, Step

LEMMA DuplicatesInit ==
    ASSUME IsFiniteSet(Procs), Init
    PROVE  Table /\ DuplicatesBounded
<1>1. DOMAIN tickets = {} /\ \A p \in Procs : pc[p] = "idle"
  BY DEF Init
<1>2. \A k : OpenTickets(k) = {} /\ Creating(k) = {}
  BY <1>1 DEF OpenTickets, Creating
<1>3. Cardinality(Procs) \in Nat
  BY FS_CardinalityType
<1>4. \A k \in Fingerprint \X Source :
          Cardinality(OpenTickets(k)) + Cardinality(Creating(k)) = 0
  BY <1>2, FS_EmptySet
<1>5. Table
  BY <1>1, FS_EmptySet DEF Table
<1> QED
  BY <1>3, <1>4, <1>5 DEF DuplicatesBounded

\* However many reports of one crash arrive, the open tickets they share never
\* outnumber the handlers: duplicates are bounded by overlap, not by traffic.
THEOREM DuplicatesAlwaysBounded ==
    ASSUME IsFiniteSet(Procs)
    PROVE  Spec => []DuplicatesBounded
<1>1. Init => Table /\ DuplicatesBounded
  BY DuplicatesInit
<1>2. TypeInv /\ Table /\ DuplicatesBounded /\ [Next]_vars => DuplicatesBounded'
  BY SlotsNext
<1> QED
  BY <1>1, <1>2, TypeInvInit, TypeInvNext, TableNext, PTL DEF Spec
-----------------------------------------------------------------------------
(* TicketStore implements SharedLedger *)

\* The variables of the ledger, as TicketStore gives them (home is the other one).
Asked == [r \in Reports |-> Key(reports[r])]
Counts == [t \in DOMAIN tickets |-> tickets[t].occurrences]
Keyed == [t \in DOMAIN tickets |-> TicketKey(t)]
OpenOnes == {t \in DOMAIN tickets : IsOpen(t)}
Told == {r \in DOMAIN answer : answer[r].code = 202}
Receipts == [r \in Told |-> answer[r].ticket]

ledgerVars == <<Asked, home, Counts, Keyed, OpenOnes, Receipts>>

\* What the steps of the store know about the state they start from.
LedgerInv ==
    TypeInv /\ LiveCalls /\ SnapshotsSound /\ CountInv /\ Table /\ DuplicatesBounded

LEMMA KeyIsKey ==
    ASSUME NEW s \in Submissions
    PROVE  /\ Key(s) \in (Fingerprint \cup {NoFp}) \X Source
           /\ Key(s) \notin {NoFp} \X Source <=> s.fingerprint # NoFp
           /\ s.fingerprint # NoFp => Key(s) \in Fingerprint \X Source
  BY StoreAssumption DEF Key, Submission

\* While the table stays as it is, so do the counts, keys and open tickets.
LEMMA TableStays ==
    ASSUME tickets' = tickets
    PROVE  UNCHANGED <<Counts, Keyed, OpenOnes>>
<1>1. \A t : TicketKey(t)' = TicketKey(t) /\ IsOpen(t)' = IsOpen(t)
  BY DEF TicketKey, IsOpen
<1> QED
  BY <1>1 DEF Counts, Keyed, OpenOnes

LEMMA AskedStays == ASSUME reports' = reports PROVE Asked' = Asked
  BY DEF Asked, Reports, Key

LEMMA ReceiptsStay == ASSUME answer' = answer PROVE Receipts' = Receipts
  BY DEF Receipts, Told

LEMMA CallAsks ==
    ASSUME LedgerInv, NEW p \in Procs, NEW s \in Submissions, Call(p, s)
    PROVE  Shared!Next
<1>1. reports' = Append(reports, s) /\ UNCHANGED <<tickets, home, answer>>
  BY DEF Call
<1>2. PICK n \in Nat : n = Len(reports)
  BY DEF LedgerInv, TypeInv, TypeOK
<1>3. reports \in Seq(Submissions)
  BY DEF LedgerInv, TypeInv, TypeOK
<1>4. Len(reports') = n + 1 /\ reports'[n + 1] = s /\ \A r \in 1 .. n : reports'[r] = reports[r]
  BY <1>1, <1>2, <1>3
<1>5. Asked = [r \in 1 .. n |-> Key(reports[r])]
  BY <1>2 DEF Asked, Reports
<1>6. Asked' = [r \in 1 .. n + 1 |-> IF r = n + 1 THEN Key(s) ELSE Key(reports[r])]
  BY <1>4 DEF Asked, Reports, Key
<1>7. \A r \in 1 .. n : reports[r] \in Submissions
  BY <1>2, <1>3
<1>8. Asked \in Seq((Fingerprint \cup {NoFp}) \X Source) /\ Len(Asked) = n
  <2>1. \A r \in 1 .. n : Key(reports[r]) \in (Fingerprint \cup {NoFp}) \X Source
    BY <1>7, KeyIsKey
  <2> QED
    BY <1>5, <2>1
<1>9. Asked' = Append(Asked, Key(s))
  BY <1>5, <1>6, <1>8
<1>10. UNCHANGED <<home, Counts, Keyed, OpenOnes, Receipts>>
  BY <1>1, TableStays, ReceiptsStay
<1>11. Shared!Ask(Key(s))
  BY <1>9, <1>10 DEF Shared!Ask, Asked, Counts, Keyed, OpenOnes, Receipts, Told
<1> QED
  BY <1>11, KeyIsKey DEF Shared!Next

\* The report of a handler before its COMMIT has arrived and is not filed.
LEMMA InFlightPending ==
    ASSUME LedgerInv, NEW p \in Procs, pc[p] \in {"update", "insert"}
    PROVE  /\ cur[p] \in Shared!Pending /\ cur[p] \notin DOMAIN home
           /\ Sub(p) \in Submissions /\ Asked[cur[p]] = Key(Sub(p))
<1>1. cur[p] \in Reports /\ cur[p] \notin DOMAIN home
  BY DEF LedgerInv, TypeInv, TypeOK, LiveCalls
<1>2. Sub(p) \in Submissions
  BY <1>1 DEF LedgerInv, TypeInv, TypeOK, Sub, Reports
<1>3. Asked[cur[p]] = Key(Sub(p))
  BY <1>1 DEF Asked, Sub
<1> QED
  BY <1>1, <1>2, <1>3 DEF Shared!Pending

LEMMA UpdateMerges ==
    ASSUME LedgerInv, NEW p \in Procs, CommitUpdate(p)
    PROVE  Shared!Next
<1>1. /\ pc[p] = "update" /\ home' = With(home, cur[p], snap[p].ticket)
      /\ UNCHANGED <<reports, answer>>
  BY DEF CommitUpdate
<1>2. PICK t \in DOMAIN tickets, n \in Nat : t = snap[p].ticket /\ n = snap[p].occurrences
  BY <1>1 DEF LedgerInv, TypeInv, TypeOK, Snapshot
<1>3. PICK m \in Nat : m = Cardinality(MergedInto(t))
  BY MergedIsFinite DEF LedgerInv
<1>4. n >= 1 /\ n <= m
  BY <1>1, <1>2, <1>3 DEF LedgerInv, CountInv, SnapshotCounts
<1>5. /\ cur[p] \in Shared!Pending /\ Sub(p) \in Submissions
      /\ Asked[cur[p]] = Key(Sub(p)) /\ Key(Sub(p)) = TicketKey(t)
      /\ Sub(p).fingerprint # NoFp
  BY <1>1, <1>2, InFlightPending DEF LedgerInv, SnapshotsSound
<1>6. PICK now : tickets' = [tickets EXCEPT ![t] = Bump(tickets[t], snap[p], Sub(p), now)]
  BY <1>2 DEF CommitUpdate
<1>7. /\ DOMAIN tickets' = DOMAIN tickets
      /\ tickets'[t].occurrences = n + 1
      /\ \A u \in DOMAIN tickets \ {t} : tickets'[u] = tickets[u]
      /\ tickets'[t].fingerprint = tickets[t].fingerprint
      /\ tickets'[t].source = tickets[t].source /\ tickets'[t].status = tickets[t].status
  <2>1. tickets[t] \in Row
    BY DEF LedgerInv, TypeInv, TypeOK
  <2> QED
    BY <1>2, <1>6, <2>1 DEF Bump, Row
<1>8. \A u \in DOMAIN tickets : TicketKey(u)' = TicketKey(u) /\ IsOpen(u)' = IsOpen(u)
  BY <1>7 DEF TicketKey, IsOpen
<1>9. Keyed' = Keyed /\ OpenOnes' = OpenOnes
  BY <1>7, <1>8 DEF Keyed, OpenOnes
<1>10. Counts' = [Counts EXCEPT ![t] = n + 1]
  BY <1>7 DEF Counts
<1>11. Shared!Cardinality(Shared!FiledIn(t)) = m
  BY <1>3 DEF Shared!Cardinality, Cardinality, Shared!FiledIn, MergedInto
<1>12. n + 1 \in 2 .. Shared!Cardinality(Shared!FiledIn(t)) + 1
  BY <1>3, <1>4, <1>11
<1>13. home' = Shared!Extend(home, cur[p], t)
  BY <1>1, <1>2 DEF With, Shared!Extend
<1>14. Keyed[t] = Asked[cur[p]] /\ Keyed[t] \notin {NoFp} \X Source
  BY <1>5, KeyIsKey DEF Keyed
<1>15. Shared!Merge(cur[p], t)
  BY <1>1, <1>9, <1>10, <1>12, <1>13, <1>14, AskedStays, ReceiptsStay
     DEF Shared!Merge, Asked, Counts, Keyed, OpenOnes, Receipts, Told
<1> QED
  BY <1>5, <1>15 DEF Shared!Next, Counts

LEMMA InsertOpens ==
    ASSUME IsFiniteSet(Procs), LedgerInv, NEW p \in Procs, CommitInsert(p)
    PROVE  Shared!Next
<1>1. PICK t \in TicketId \ DOMAIN tickets, now \in since[p] .. clock :
          /\ tickets' = With(tickets, t, NewRow(Sub(p), now))
          /\ home' = With(home, cur[p], t)
  BY DEF CommitInsert
<1>2. pc[p] = "insert" /\ UNCHANGED <<reports, answer>>
  BY DEF CommitInsert
<1>3. PICK k : k = Key(Sub(p))
  OBVIOUS
<1>4. /\ cur[p] \in Shared!Pending /\ Sub(p) \in Submissions /\ Asked[cur[p]] = k
  BY <1>2, <1>3, InFlightPending
<1>5. /\ DOMAIN tickets' = DOMAIN tickets \cup {t}
      /\ tickets'[t].occurrences = 1 /\ tickets'[t].status = "new"
      /\ tickets'[t].fingerprint = Sub(p).fingerprint /\ tickets'[t].source = Sub(p).source
      /\ \A u \in DOMAIN tickets : tickets'[u] = tickets[u]
  BY <1>1 DEF With, NewRow
<1>6. /\ TicketKey(t)' = k /\ IsOpen(t)'
      /\ \A u \in DOMAIN tickets : TicketKey(u)' = TicketKey(u) /\ IsOpen(u)' = IsOpen(u)
  BY <1>3, <1>5 DEF TicketKey, IsOpen, Key, OPEN_STATES
<1>7. Counts' = Shared!Extend(Counts, t, 1)
  BY <1>5 DEF Counts, Shared!Extend
<1>8. Keyed' = Shared!Extend(Keyed, t, k)
  BY <1>5, <1>6 DEF Keyed, Shared!Extend
<1>9. OpenOnes' = OpenOnes \cup {t}
  BY <1>5, <1>6 DEF OpenOnes
<1>10. home' = Shared!Extend(home, cur[p], t)
  BY <1>1 DEF With, Shared!Extend
<1>11. ASSUME k \notin {NoFp} \X Source
       PROVE  Shared!Cardinality(Shared!OpenFor(k)) < Cardinality(Procs)
  <2>1. k \in Fingerprint \X Source
    BY <1>3, <1>4, <1>11, KeyIsKey
  <2>2. Cardinality(OpenTickets(k)) + Cardinality(Creating(k)) <= Cardinality(Procs)
    BY <2>1 DEF LedgerInv, DuplicatesBounded
  <2>3. IsFiniteSet(OpenTickets(k)) /\ IsFiniteSet(Creating(k))
    BY FS_Subset DEF OpenTickets, Creating, LedgerInv, Table
  <2>4. Creating(k) # {}
    BY <1>2, <1>3 DEF Creating
  <2>5. /\ Cardinality(OpenTickets(k)) \in Nat /\ Cardinality(Creating(k)) \in Nat
        /\ Cardinality(Procs) \in Nat /\ Cardinality(Creating(k)) # 0
    BY <2>3, <2>4, FS_CardinalityType, FS_EmptySet
  <2>6. Cardinality(OpenTickets(k)) < Cardinality(Procs)
    BY <2>2, <2>5
  <2>7. Shared!OpenFor(k) = OpenTickets(k)
    BY DEF Shared!OpenFor, OpenTickets
  <2>8. Shared!Cardinality(OpenTickets(k)) = Cardinality(OpenTickets(k))
    BY DEF Shared!Cardinality, Cardinality
  <2> QED
    BY <2>6, <2>7, <2>8
<1>12. Shared!Open(cur[p], t)
  BY <1>2, <1>4, <1>7, <1>8, <1>9, <1>10, <1>11, AskedStays, ReceiptsStay
     DEF Shared!Open, Asked, Counts, Keyed, OpenOnes, Receipts, Told
<1> QED
  BY <1>1, <1>4, <1>12 DEF Shared!Next, Counts

\* The 202 names the ticket the report is filed in.
LEMMA RefreshAcknowledges ==
    ASSUME LedgerInv, NEW p \in Procs, Refresh(p)
    PROVE  Shared!Next
<1>1. PICK r : r = cur[p]
  OBVIOUS
<1>2. /\ pc[p] = "refresh" /\ UNCHANGED <<tickets, reports, home>>
      /\ answer' = With(answer, r, [code |-> 202, ticket |-> home[r]])
  BY <1>1 DEF Refresh, Return
<1>3. r \in DOMAIN home /\ r \notin DOMAIN answer
  BY <1>1, <1>2 DEF LedgerInv, TypeInv, Refs, LiveCalls
<1>4. Told' = Told \cup {r}
  BY <1>2, <1>3 DEF Told, With
<1>5. Receipts' = Shared!Extend(Receipts, r, home[r])
  <2>1. \A q \in Told : answer'[q].ticket = answer[q].ticket /\ q # r
    BY <1>2, <1>3 DEF Told, With
  <2>2. answer'[r].ticket = home[r]
    BY <1>2 DEF With
  <2> QED
    BY <1>4, <2>1, <2>2 DEF Receipts, Shared!Extend
<1>6. Shared!Acknowledge(r)
  BY <1>2, <1>5, TableStays, AskedStays
     DEF Shared!Acknowledge, Asked, Counts, Keyed, OpenOnes, Receipts, Told
<1>7. r \in DOMAIN home \ DOMAIN Receipts
  BY <1>3 DEF Receipts, Told
<1> QED
  BY <1>6, <1>7 DEF Shared!Next, Receipts, Told

\* A caller told 500, or nothing, has no receipt.
LEMMA UntoldStays ==
    ASSUME NEW R, R \cap DOMAIN answer = {}, DOMAIN answer' = DOMAIN answer \cup R,
           \A r \in R : answer'[r].code # 202,
           \A r \in DOMAIN answer : answer'[r] = answer[r]
    PROVE  Receipts' = Receipts
<1>1. Told' = Told
  BY DEF Told
<1> QED
  BY <1>1 DEF Receipts, Told

LEMMA FailStutters ==
    ASSUME LedgerInv, NEW p \in Procs, Fail(p)
    PROVE  UNCHANGED ledgerVars
<1>1. /\ pc[p] # "idle" /\ UNCHANGED <<tickets, reports, home>>
      /\ answer' = With(answer, cur[p], [code |-> 500, ticket |-> NoTicket])
  BY DEF Fail, Return
<1>2. cur[p] \notin DOMAIN answer
  BY <1>1 DEF LedgerInv, LiveCalls
<1>3. Receipts' = Receipts
  <2>1. /\ {cur[p]} \cap DOMAIN answer = {}
        /\ DOMAIN answer' = DOMAIN answer \cup {cur[p]}
        /\ answer'[cur[p]].code # 202
        /\ \A r \in DOMAIN answer : answer'[r] = answer[r]
    BY <1>1, <1>2 DEF With
  <2>2. Told' = Told
    BY <2>1 DEF Told
  <2> QED
    BY <2>1, <2>2 DEF Receipts, Told
<1> QED
  BY <1>1, <1>3, TableStays, AskedStays DEF ledgerVars

LEMMA CrashStutters ==
    ASSUME LedgerInv, Crash
    PROVE  UNCHANGED ledgerVars
<1> DEFINE inFlight == {cur[p] : p \in {q \in Procs : pc[q] # "idle"}}
<1>1. /\ UNCHANGED <<tickets, reports, home>>
      /\ answer' = [r \in DOMAIN answer \cup inFlight |->
                      IF r \in inFlight THEN [code |-> 0, ticket |-> NoTicket] ELSE answer[r]]
  BY DEF Crash
<1>2. inFlight \cap DOMAIN answer = {}
  BY DEF LedgerInv, LiveCalls
<1>3. Receipts' = Receipts
  <2>1. /\ DOMAIN answer' = DOMAIN answer \cup inFlight
        /\ \A r \in inFlight : answer'[r].code # 202
        /\ \A r \in DOMAIN answer : answer'[r] = answer[r]
    BY <1>1, <1>2
  <2> HIDE DEF inFlight
  <2> QED
    BY <1>2, <2>1, UntoldStays
<1> QED
  BY <1>1, <1>3, TableStays, AskedStays DEF ledgerVars

\* An operator closes a ticket, or moves it between the states that are open.
LEMMA StatusCloses ==
    ASSUME LedgerInv, NEW t \in TicketId, NEW status \in Statuses, SetStatus(t, status)
    PROVE  Shared!Next \/ UNCHANGED ledgerVars
<1>1. /\ t \in DOMAIN tickets /\ IsOpen(t)
      /\ tickets' = [tickets EXCEPT ![t].status = status]
      /\ UNCHANGED <<reports, home, answer>>
  BY DEF SetStatus
<1>2. tickets[t] \in Row
  BY <1>1 DEF LedgerInv, TypeInv, TypeOK
<1>3. /\ DOMAIN tickets' = DOMAIN tickets /\ tickets'[t].status = status
      /\ \A u \in DOMAIN tickets : /\ tickets'[u].occurrences = tickets[u].occurrences
                                   /\ tickets'[u].fingerprint = tickets[u].fingerprint
                                   /\ tickets'[u].source = tickets[u].source
                                   /\ u # t => tickets'[u].status = tickets[u].status
  BY <1>1, <1>2 DEF Row
<1>4. Counts' = Counts /\ Keyed' = Keyed
  BY <1>3 DEF Counts, Keyed, TicketKey
<1>5. Asked' = Asked /\ Receipts' = Receipts
  BY <1>1, AskedStays, ReceiptsStay
<1>6. CASE status \in OPEN_STATES
  <2>1. OpenOnes' = OpenOnes
    BY <1>1, <1>3, <1>6 DEF OpenOnes, IsOpen
  <2> QED
    BY <1>1, <1>4, <1>5, <2>1 DEF ledgerVars
<1>7. CASE status \notin OPEN_STATES
  <2>1. OpenOnes' = OpenOnes \ {t}
    BY <1>1, <1>3, <1>7 DEF OpenOnes, IsOpen
  <2>2. Shared!Close(t) /\ t \in OpenOnes
    BY <1>1, <1>4, <1>5, <2>1
    DEF Shared!Close, Asked, Counts, Keyed, OpenOnes, Receipts, Told
  <2> QED
    BY <2>2 DEF Shared!Next, OpenOnes
<1> QED
  BY <1>6, <1>7

\* However calls overlap, fail or die, and operators close tickets, the table is a
\* ledger in which every report is filed at most once, in a ticket of its key, where
\* it is counted at most once, and receipts stay true: each COMMIT of
\* create_or_dedupe is one step of it.
THEOREM StoreIsSharedLedger ==
    ASSUME IsFiniteSet(Procs)
    PROVE  Spec => ImplementsSharedLedger
<1>1. Init => LedgerInv
  <2> SUFFICES ASSUME Init PROVE LedgerInv
    OBVIOUS
  <2>1. CountInv
    BY DEF Init, CountInv, NoOvercount, SnapshotCounts
  <2>2. Table /\ DuplicatesBounded
    BY DuplicatesInit
  <2> QED
    BY <2>1, <2>2, TypeInvInit, LiveCallsInit, SnapshotsInit DEF LedgerInv
<1>2. LedgerInv /\ [Next]_vars => LedgerInv'
  BY TypeInvNext, LiveCallsNext, SnapshotsNext, CountNext, TableNext, SlotsNext DEF LedgerInv
<1>3. Init => Shared!Init
  BY DEF Init, Shared!Init, Shared!Nothing, Reports
<1>4. LedgerInv /\ [Next]_vars => Shared!Next \/ UNCHANGED ledgerVars
  <2> SUFFICES ASSUME LedgerInv, [Next]_vars PROVE Shared!Next \/ UNCHANGED ledgerVars
    OBVIOUS
  <2>1. ASSUME NEW p \in Procs, NEW s \in Submissions, Call(p, s) PROVE Shared!Next
    BY <2>1, CallAsks
  <2>2. ASSUME NEW p \in Procs, CommitUpdate(p) PROVE Shared!Next
    BY <2>2, UpdateMerges
  <2>3. ASSUME NEW p \in Procs, CommitInsert(p) PROVE Shared!Next
    BY <2>3, InsertOpens
  <2>4. ASSUME NEW p \in Procs, Refresh(p) PROVE Shared!Next
    BY <2>4, RefreshAcknowledges
  <2>5. ASSUME NEW p \in Procs, Fail(p) PROVE UNCHANGED ledgerVars
    BY <2>5, FailStutters
  <2>6. ASSUME NEW t \in TicketId, NEW status \in Statuses, SetStatus(t, status)
        PROVE  Shared!Next \/ UNCHANGED ledgerVars
    BY <2>6, StatusCloses
  <2>7. CASE Crash
    BY <2>7, CrashStutters
  <2>8. ASSUME UNCHANGED <<tickets, reports, home, answer>> PROVE UNCHANGED ledgerVars
    BY <2>8, TableStays, AskedStays, ReceiptsStay DEF ledgerVars
  <2>9. CASE Tick \/ UNCHANGED vars \/ \E p \in Procs : Select(p)
    BY <2>8, <2>9 DEF Tick, vars, Select
  <2> QED
    BY <2>1, <2>2, <2>3, <2>4, <2>5, <2>6, <2>7, <2>9 DEF Next, Step
<1>5. UNCHANGED ledgerVars => UNCHANGED Shared!vars
  BY DEF ledgerVars, Shared!vars, Asked, Counts, Keyed, OpenOnes, Receipts, Told
<1>6. LedgerInv /\ [Next]_vars => [Shared!Next]_Shared!vars
  BY <1>4, <1>5
<1> QED
  BY <1>1, <1>2, <1>3, <1>6, PTL DEF Spec, ImplementsSharedLedger, Shared!Spec
=============================================================================
