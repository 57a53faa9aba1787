---------------------- MODULE TicketStoreSerialProofs ----------------------
(***************************************************************************)
(* The store with one handler implements the ledger, for any submissions,  *)
(* number of reports, failures, restarts and operators' closings.          *)
(***************************************************************************)
EXTENDS TicketStoreSerial, TicketStoreProofs

\* With no other handler, the count a dedupe has read is still the row's count.
FreshSnapshot ==
    pc[Handler] = "update" =>
        snap[Handler].occurrences = tickets[snap[Handler].ticket].occurrences

Inv == TypeInv /\ LiveCalls /\ SnapshotsSound /\ FreshSnapshot

LEMMA FreshInit == Init => FreshSnapshot
  BY SerialAssumption DEF Init, FreshSnapshot

LEMMA FreshNext == Inv /\ [Next]_vars => FreshSnapshot'
<1> SUFFICES ASSUME Inv, [Next]_vars
             PROVE  FreshSnapshot'
  OBVIOUS
<1> USE DEF FreshSnapshot
<1>0. /\ pc \in [Procs -> {"idle", "select", "update", "insert", "refresh"}]
      /\ snap \in [Procs -> Snapshot \cup {NoTicket}]
      /\ \A t \in DOMAIN tickets : tickets[t] \in Row
      /\ pc[Handler] = "update" => snap[Handler].ticket \in DOMAIN tickets
      /\ FreshSnapshot
      /\ Handler \in Procs /\ \A p \in Procs : p = Handler
  BY SerialAssumption DEF Inv, TypeInv, TypeOK
<1>1. ASSUME NEW p \in Procs, Select(p)
      PROVE  FreshSnapshot'
  BY <1>0, <1>1 DEF Select
<1>2. ASSUME NEW p \in Procs, pc'[p] # "update"
      PROVE  FreshSnapshot'
  BY <1>0, <1>2
<1>3. ASSUME NEW p \in Procs,
             \/ \E s \in Submissions : Call(p, s)
             \/ CommitUpdate(p) \/ CommitInsert(p) \/ Refresh(p) \/ Fail(p)
      PROVE  FreshSnapshot'
  <2>1. pc'[p] # "update"
    BY <1>0, <1>3 DEF Call, CommitUpdate, CommitInsert, Refresh, Fail, Return
  <2> QED
    BY <1>2, <2>1
<1>4. ASSUME NEW t \in TicketId, NEW status \in Statuses, SetStatus(t, status)
      PROVE  FreshSnapshot'
  <2>1. /\ tickets' = [tickets EXCEPT ![t] = [tickets[t] EXCEPT !.status = status]]
        /\ UNCHANGED <<pc, snap>>
    BY <1>4 DEF SetStatus, handlerVars
  <2>2. \A u \in DOMAIN tickets : tickets'[u].occurrences = tickets[u].occurrences
    BY <1>0, <2>1 DEF Row
  <2> QED
    BY <1>0, <2>1, <2>2
<1>5. CASE Crash
  BY <1>0, <1>5 DEF Crash
<1>6. CASE Tick \/ UNCHANGED vars
  BY <1>0, <1>6 DEF Tick, vars, handlerVars
<1> QED
  BY <1>1, <1>3, <1>4, <1>5, <1>6 DEF Next, Step

LEMMA InvHolds == Spec => []Inv
<1>1. Init => Inv
  BY TypeInvInit, LiveCallsInit, SnapshotsInit, FreshInit DEF Inv
<1>2. Inv /\ [Next]_vars => Inv'
  BY TypeInvNext, LiveCallsNext, SnapshotsNext, FreshNext DEF Inv
<1> QED
  BY <1>1, <1>2, PTL DEF Spec

-----------------------------------------------------------------------------
(* The refinement *)

LedgerCount == [t \in DOMAIN tickets |-> tickets[t].occurrences]
LedgerKey == [t \in DOMAIN tickets |-> TicketKey(t)]
LedgerOpen == {t \in DOMAIN tickets : IsOpen(t)}

LEMMA LedgerInit == Init => Ledger!Init
<1> SUFFICES ASSUME Init
             PROVE  Ledger!Init
  OBVIOUS
<1>1. DOMAIN tickets = {}
  BY DEF Init
<1>2. Assigned = {}
  BY SerialAssumption DEF Init, Assigned
<1> QED
  BY <1>1, <1>2 DEF Ledger!Init

LEMMA LedgerNext == Inv /\ [Next]_vars => [Ledger!Next]_(Ledger!vars)
<1> SUFFICES ASSUME Inv, [Next]_vars
             PROVE  Ledger!Next \/ UNCHANGED Ledger!vars
  BY DEF Ledger!vars
<1> DEFINE h == Handler
<1>0. /\ pc \in [Procs -> {"idle", "select", "update", "insert", "refresh"}]
      /\ cur \in [Procs -> Nat]
      /\ snap \in [Procs -> Snapshot \cup {NoTicket}]
      /\ reports \in Seq(Submissions)
      /\ \A t \in DOMAIN tickets : tickets[t] \in Row
      /\ \A p \in Procs : pc[p] # "idle" => cur[p] \in 1 .. Len(reports)
      /\ pc[h] = "update" => /\ snap[h].ticket \in DOMAIN tickets
                             /\ snap[h].occurrences = tickets[snap[h].ticket].occurrences
      /\ h \in Procs /\ \A p \in Procs : p = h
  BY SerialAssumption DEF Inv, TypeInv, TypeOK, Reports, FreshSnapshot
<1>1. ASSUME UNCHANGED tickets
      PROVE  UNCHANGED <<LedgerCount, LedgerKey, LedgerOpen>>
  BY <1>1 DEF LedgerCount, LedgerKey, LedgerOpen, TicketKey, IsOpen
<1>2. ASSUME UNCHANGED <<LedgerCount, LedgerKey, LedgerOpen>>, UNCHANGED Assigned
      PROVE  UNCHANGED Ledger!vars
  BY <1>2 DEF Ledger!vars, LedgerCount, LedgerKey, LedgerOpen
<1>3. ASSUME UNCHANGED <<LedgerCount, LedgerKey, LedgerOpen>>, Assigned' = {}
      PROVE  Ledger!Next \/ UNCHANGED Ledger!vars
  <2>1. CASE Assigned = {}
    BY <1>2, <1>3, <2>1
  <2>2. CASE Assigned # {}
    BY <1>3, <2>2 DEF Ledger!Next, Ledger!Abandon, LedgerCount, LedgerKey, LedgerOpen
  <2> QED
    BY <2>1, <2>2
<1>4. ASSUME NEW s \in Submissions, Call(h, s)
      PROVE  Ledger!Next \/ UNCHANGED Ledger!vars
  <2>1. /\ UNCHANGED <<LedgerCount, LedgerKey, LedgerOpen>>
        /\ Assigned = {}
        /\ Sub(h)' = s
        /\ pc'[h] = IF s.fingerprint = NoFp THEN "insert" ELSE "select"
    BY <1>0, <1>1, <1>4 DEF Call, Assigned, Sub
  <2>2. CASE s.fingerprint # NoFp
    BY <1>2, <2>1, <2>2 DEF Assigned
  <2>3. CASE s.fingerprint = NoFp
    <3>1. Assigned' = {[key |-> Key(s), ticket |-> NoTicket]}
      BY <2>1, <2>3 DEF Assigned, Key
    <3>2. Key(s) \in {NoFp} \X Source
      BY <2>3, StoreAssumption DEF Key, Submission
    <3>3. Ledger!OpenFor(Key(s)) = {}
      BY <3>2 DEF Ledger!OpenFor
    <3>4. Ledger!Assign(Key(s))
      BY <2>1, <3>1, <3>3 DEF Ledger!Assign, LedgerCount, LedgerKey, LedgerOpen
    <3> QED
      BY <3>2, <3>4 DEF Ledger!Next
  <2> QED
    BY <2>2, <2>3
<1>5. ASSUME Select(h)
      PROVE  Ledger!Next \/ UNCHANGED Ledger!vars
  <2> DEFINE k == Key(Sub(h))
             matches == OpenMatches(Sub(h).fingerprint, Sub(h).source)
  <2>1. /\ pc[h] = "select" /\ Assigned = {}
        /\ UNCHANGED <<tickets, cur, reports>>
        /\ UNCHANGED <<LedgerCount, LedgerKey, LedgerOpen>>
    BY <1>1, <1>5 DEF Select, Assigned
  <2>2. Sub(h)' = Sub(h)
    BY <2>1 DEF Sub
  <2>3. Sub(h) \in Submission /\ Sub(h).fingerprint # NoFp
    BY <1>0, <2>1, StoreAssumption DEF Sub, Inv, SnapshotsSound
  <2>4. k \in (Fingerprint \cup {NoFp}) \X Source /\ k \notin {NoFp} \X Source
    BY <2>3 DEF Key, Submission
  <2>5. Ledger!OpenFor(k) = matches
    <3>1. Ledger!OpenFor(k) = {t \in LedgerOpen : LedgerKey[t] = k}
      BY <2>4 DEF Ledger!OpenFor, LedgerKey, LedgerOpen
    <3>2. \A t \in DOMAIN tickets :
             LedgerKey[t] = k <=> /\ tickets[t].fingerprint = Sub(h).fingerprint
                                  /\ tickets[t].source = Sub(h).source
      BY DEF LedgerKey, TicketKey, Key
    <3> QED
      BY <3>1, <3>2 DEF OpenMatches, LedgerOpen
  <2>6. CASE matches = {} /\ pc' = [pc EXCEPT ![h] = "insert"]
    <3>1. Assigned' = {[key |-> k, ticket |-> NoTicket]}
      BY <1>0, <2>2, <2>6 DEF Assigned, Key
    <3>2. Ledger!Assign(k)
      BY <2>1, <2>5, <2>6, <3>1 DEF Ledger!Assign, LedgerCount, LedgerKey, LedgerOpen
    <3> QED
      BY <2>4, <3>2 DEF Ledger!Next
  <2>7. ASSUME NEW t \in Oldest(matches),
               pc' = [pc EXCEPT ![h] = "update"],
               snap' = [snap EXCEPT ![h] = [ticket |-> t,
                                            occurrences |-> tickets[t].occurrences,
                                            severity |-> tickets[t].severity,
                                            tier |-> tickets[t].tier]]
        PROVE  Ledger!Next
    <3>1. Assigned' = {[key |-> k, ticket |-> t]}
      BY <1>0, <2>2, <2>7 DEF Assigned, Key
    <3>2. t \in matches
      BY DEF Oldest
    <3> HIDE DEF matches, k
    <3>3. Ledger!Assign(k)
      BY <2>1, <2>5, <3>1, <3>2 DEF Ledger!Assign, LedgerCount, LedgerKey, LedgerOpen
    <3> QED
      BY <2>4, <3>3 DEF Ledger!Next
  <2> QED
    BY <1>5, <2>6, <2>7 DEF Select
<1>6. ASSUME CommitUpdate(h)
      PROVE  Ledger!Next
  <2>1. PICK now \in since[h] .. clock :
            tickets' = [tickets EXCEPT ![snap[h].ticket] =
                          Bump(tickets[snap[h].ticket], snap[h], Sub(h), now)]
    BY <1>6 DEF CommitUpdate
  <2>2. PICK t \in DOMAIN tickets : t = snap[h].ticket
    BY <1>0, <1>6 DEF CommitUpdate
  <2>3. pc[h] = "update" /\ pc' = [pc EXCEPT ![h] = "refresh"]
    BY <1>6 DEF CommitUpdate
  <2>4. /\ DOMAIN tickets' = DOMAIN tickets
        /\ tickets'[t].occurrences = tickets[t].occurrences + 1
        /\ \A u \in DOMAIN tickets : u # t => tickets'[u].occurrences = tickets[u].occurrences
    BY <1>0, <2>1, <2>2, <2>3 DEF Bump, Row
  <2>5. \A u \in DOMAIN tickets : TicketKey(u)' = TicketKey(u) /\ IsOpen(u)' = IsOpen(u)
    BY <1>0, <2>1, <2>2 DEF Bump, Row, TicketKey, IsOpen
  <2>6. LedgerCount' = [LedgerCount EXCEPT ![t] = @ + 1]
    BY <2>4 DEF LedgerCount
  <2>7. LedgerKey' = LedgerKey /\ LedgerOpen' = LedgerOpen
    BY <2>4, <2>5 DEF LedgerKey, LedgerOpen
  <2>8. PICK a : /\ a = [key |-> Key(Sub(h)), ticket |-> t]
                 /\ Assigned = {a} /\ Assigned' = {}
    BY <1>0, <2>2, <2>3 DEF Assigned
  <2>9. t # NoTicket
    BY StoreAssumption DEF Inv, TypeInv, TypeOK
  <2>10. Ledger!Count(a)
    BY <2>6, <2>7, <2>8, <2>9 DEF Ledger!Count, LedgerCount, LedgerKey, LedgerOpen
  <2> QED
    BY <2>8, <2>10 DEF Ledger!Next
<1>7. ASSUME CommitInsert(h)
      PROVE  Ledger!Next
  <2>1. PICK t \in TicketId \ DOMAIN tickets, now \in since[h] .. clock :
            tickets' = With(tickets, t, NewRow(Sub(h), now))
    BY <1>7 DEF CommitInsert
  <2>2. pc[h] = "insert" /\ pc' = [pc EXCEPT ![h] = "refresh"]
    BY <1>7 DEF CommitInsert
  <2> DEFINE a == [key |-> Key(Sub(h)), ticket |-> NoTicket]
  <2>3. Assigned = {a} /\ Assigned' = {}
    BY <1>0, <2>2 DEF Assigned
  <2>4. /\ DOMAIN tickets' = DOMAIN tickets \cup {t}
        /\ tickets'[t] = NewRow(Sub(h), now)
        /\ \A u \in DOMAIN tickets : tickets'[u] = tickets[u]
    BY <2>1 DEF With
  <2>5. LedgerCount' = Ledger!Extend(LedgerCount, t, 1)
    BY <2>1, <2>4 DEF LedgerCount, Ledger!Extend, NewRow
  <2>6. LedgerKey' = Ledger!Extend(LedgerKey, t, Key(Sub(h)))
    BY <2>1, <2>4 DEF LedgerKey, Ledger!Extend, NewRow, TicketKey, Key
  <2>7. LedgerOpen' = LedgerOpen \cup {t}
    BY <2>1, <2>4 DEF LedgerOpen, NewRow, IsOpen, OPEN_STATES
  <2>8. Ledger!Open(a, t)
    BY <2>3, <2>5, <2>6, <2>7 DEF Ledger!Open, LedgerCount, LedgerKey, LedgerOpen
  <2>9. t \in TicketId \ DOMAIN LedgerCount
    BY <2>1 DEF LedgerCount
  <2> QED
    BY <2>3, <2>8, <2>9 DEF Ledger!Next, LedgerCount
<1>8. ASSUME Refresh(h) \/ Fail(h) \/ Crash
      PROVE  Ledger!Next \/ UNCHANGED Ledger!vars
  <2>1. UNCHANGED tickets /\ pc'[h] = "idle"
    BY <1>0, <1>8 DEF Refresh, Fail, Return, Crash
  <2> QED
    BY <1>1, <1>3, <2>1 DEF Assigned
<1>9. ASSUME NEW t \in TicketId, NEW status \in Statuses, SetStatus(t, status)
      PROVE  Ledger!Next \/ UNCHANGED Ledger!vars
  <2>1. /\ t \in DOMAIN tickets /\ IsOpen(t)
        /\ tickets' = [tickets EXCEPT ![t] = [tickets[t] EXCEPT !.status = status]]
        /\ UNCHANGED <<pc, cur, snap, reports>>
    BY <1>9 DEF SetStatus, handlerVars
  <2>2. Assigned' = Assigned
    BY <2>1 DEF Assigned, Sub
  <2>3. /\ DOMAIN tickets' = DOMAIN tickets
        /\ \A u \in DOMAIN tickets : /\ tickets'[u].occurrences = tickets[u].occurrences
                                     /\ TicketKey(u)' = TicketKey(u)
    BY <1>0, <2>1 DEF Row, TicketKey
  <2>4. LedgerCount' = LedgerCount /\ LedgerKey' = LedgerKey
    BY <2>3 DEF LedgerCount, LedgerKey
  <2>5. \A u \in DOMAIN tickets : u # t => IsOpen(u)' = IsOpen(u)
    BY <2>1 DEF IsOpen
  <2>6. CASE IsOpen(t)'
    <3>1. LedgerOpen' = LedgerOpen
      BY <2>1, <2>3, <2>5, <2>6 DEF LedgerOpen
    <3> QED
      BY <1>2, <2>2, <2>4, <3>1
  <2>7. CASE ~IsOpen(t)'
    <3>1. t \in LedgerOpen /\ LedgerOpen' = LedgerOpen \ {t}
      BY <2>1, <2>3, <2>5, <2>7 DEF LedgerOpen
    <3>2. Ledger!Close(t)
      BY <2>2, <2>4, <3>1 DEF Ledger!Close, LedgerCount, LedgerKey, LedgerOpen
    <3> QED
      BY <3>1, <3>2 DEF Ledger!Next, LedgerOpen
  <2> QED
    BY <2>6, <2>7
<1>10. CASE Tick \/ UNCHANGED vars
  <2>1. UNCHANGED <<tickets, pc, cur, snap, reports>>
    BY <1>10 DEF Tick, vars, handlerVars
  <2>2. UNCHANGED Assigned
    BY <2>1 DEF Assigned, Sub
  <2> QED
    BY <1>1, <1>2, <2>1, <2>2
<1> QED
  BY <1>0, <1>4, <1>5, <1>6, <1>7, <1>8, <1>9, <1>10 DEF Next, Step

\* With a single handler the store is the ledger: every step of the code is an
\* assignment, an exact increment, an opening, a closing, or invisible.
THEOREM SerialStoreIsLedger == Spec => ImplementsLedger
<1>1. Spec => Ledger!Spec
  BY LedgerInit, LedgerNext, InvHolds, PTL DEF Spec, Ledger!Spec
<1> QED
  BY <1>1 DEF ImplementsLedger

-----------------------------------------------------------------------------
(* What the ledger gives the operators *)

Homes == \A r \in DOMAIN home : home[r] \in DOMAIN tickets

\* One committed report adds one to its ticket, an opened ticket starts with one.
LEMMA CountedNext == Inv /\ EveryReportCounted /\ [Next]_vars => EveryReportCounted'
<1> SUFFICES ASSUME Inv, EveryReportCounted, [Next]_vars, NEW u \in DOMAIN tickets'
             PROVE  tickets'[u].occurrences = Cardinality(MergedInto(u)')
  BY DEF EveryReportCounted
<1> DEFINE h == Handler
<1>0. /\ TypeInv
      /\ pc \in [Procs -> {"idle", "select", "update", "insert", "refresh"}]
      /\ \A t \in DOMAIN tickets : tickets[t] \in Row
      /\ pc[h] = "update" => /\ snap[h].ticket \in DOMAIN tickets
                             /\ snap[h].occurrences = tickets[snap[h].ticket].occurrences
      /\ pc[h] \in {"update", "insert"} => cur[h] \notin DOMAIN home
      /\ Homes
      /\ h \in Procs /\ \A p \in Procs : p = h
  BY SerialAssumption DEF Inv, TypeInv, TypeOK, FreshSnapshot, LiveCalls, Refs, Homes
<1>1. \A t \in DOMAIN tickets : tickets[t].occurrences = Cardinality(MergedInto(t))
  BY DEF EveryReportCounted
<1>2. CASE UNCHANGED <<tickets, home>>
  BY <1>1, <1>2 DEF MergedInto
<1>3. CASE CommitUpdate(h)
  <2>1. PICK now \in since[h] .. clock :
            tickets' = [tickets EXCEPT ![snap[h].ticket] =
                          Bump(tickets[snap[h].ticket], snap[h], Sub(h), now)]
    BY <1>3 DEF CommitUpdate
  <2>2. PICK t \in DOMAIN tickets : t = snap[h].ticket
    BY <1>0, <1>3 DEF CommitUpdate
  <2>3. /\ pc[h] = "update" /\ cur[h] \notin DOMAIN home
        /\ home' = With(home, cur[h], t)
    BY <1>0, <1>3, <2>2 DEF CommitUpdate
  <2>4. /\ DOMAIN tickets' = DOMAIN tickets
        /\ tickets'[t].occurrences = tickets[t].occurrences + 1
        /\ \A q \in DOMAIN tickets : q # t => tickets'[q] = tickets[q]
    BY <1>0, <2>1, <2>2, <2>3 DEF Bump, Row
  <2>5. /\ Cardinality(MergedInto(t)') = Cardinality(MergedInto(t)) + 1
        /\ \A q : q # t => MergedInto(q)' = MergedInto(q)
    BY <1>0, <2>3, CommitCounts
  <2> QED
    BY <1>1, <2>2, <2>4, <2>5
<1>4. CASE CommitInsert(h)
  <2>1. PICK t \in TicketId \ DOMAIN tickets, now \in since[h] .. clock :
            /\ tickets' = With(tickets, t, NewRow(Sub(h), now))
            /\ home' = With(home, cur[h], t)
    BY <1>4 DEF CommitInsert
  <2>2. cur[h] \notin DOMAIN home
    BY <1>0, <1>4 DEF CommitInsert
  <2>3. MergedInto(t) = {}
    BY <1>0, <2>1 DEF MergedInto, Homes
  <2>4. /\ Cardinality(MergedInto(t)') = 1
        /\ \A q : q # t => MergedInto(q)' = MergedInto(q)
    BY <1>0, <2>1, <2>2, <2>3, CommitCounts, FS_EmptySet
  <2>5. /\ tickets'[t].occurrences = 1
        /\ DOMAIN tickets' = DOMAIN tickets \cup {t}
        /\ \A q \in DOMAIN tickets : tickets'[q] = tickets[q]
    BY <2>1 DEF With, NewRow
  <2> QED
    BY <1>1, <2>4, <2>5
<1>5. ASSUME NEW t \in TicketId, NEW status \in Statuses, SetStatus(t, status)
      PROVE  tickets'[u].occurrences = Cardinality(MergedInto(u)')
  <2>1. /\ tickets' = [tickets EXCEPT ![t] = [tickets[t] EXCEPT !.status = status]]
        /\ home' = home
    BY <1>5 DEF SetStatus
  <2>2. /\ DOMAIN tickets' = DOMAIN tickets
        /\ \A q \in DOMAIN tickets : tickets'[q].occurrences = tickets[q].occurrences
    BY <1>0, <2>1 DEF Row
  <2> QED
    BY <1>1, <2>1, <2>2 DEF MergedInto
<1> QED
  BY <1>0, <1>2, <1>3, <1>4, <1>5
  DEF Next, Step, Call, Select, Refresh, Fail, Crash, Tick, vars, handlerVars

\* models.py l.149: without overlap `occurrences + 1` is exact, through failures,
\* restarts and operators: every committed report is counted, once.
THEOREM EveryReportAlwaysCounted == Spec => []EveryReportCounted
<1>1. Init => EveryReportCounted
  BY DEF Init, EveryReportCounted
<1> QED
  BY <1>1, InvHolds, CountedNext, PTL DEF Spec

\* models.py l.136-147: with one handler nothing can be created between the query
\* and the insert it decides on: a key never has two open tickets.
THEOREM OneOpenTicketAlways == Spec => []OneOpenTicketPerKey
<1>1. IsFiniteSet(Procs) /\ Cardinality(Procs) = 1
  BY SerialAssumption, FS_Singleton
<1>2. ASSUME Table, DuplicatesBounded
      PROVE  OneOpenTicketPerKey
  <2>1. ASSUME NEW k \in Fingerprint \X Source
        PROVE  Cardinality(OpenTickets(k)) <= 1
    <3>1. IsFiniteSet(OpenTickets(k)) /\ IsFiniteSet(Creating(k))
      BY <1>1, <1>2, FS_Subset DEF OpenTickets, Creating, Table
    <3>2. Cardinality(OpenTickets(k)) \in Nat /\ Cardinality(Creating(k)) \in Nat
      BY <3>1, FS_CardinalityType
    <3> QED
      BY <1>1, <1>2, <3>2 DEF DuplicatesBounded
  <2> QED
    BY <2>1 DEF OneOpenTicketPerKey
<1>3. Init => Table
  BY FS_EmptySet DEF Init, Table
<1> QED
  BY <1>1, <1>2, <1>3, TableNext, DuplicatesAlwaysBounded, PTL DEF Spec

\* The call in flight is the latest report, and a ticket describes its first one.
LatestCall == pc[Handler] # "idle" => cur[Handler] = Len(reports)
Describes(r, t) == /\ reports[r].severity = tickets[t].severity
                   /\ reports[r].tier = tickets[t].tier
DescribesFirst ==
    \A t \in DOMAIN tickets : \E r \in FirstReports(t) : Describes(r, t)

QueueInv == LatestCall /\ DescribesFirst

LEMMA LatestNext == TypeInv /\ LatestCall /\ [Next]_vars => LatestCall'
<1> SUFFICES ASSUME TypeInv, LatestCall, [Next]_vars
             PROVE  LatestCall'
  OBVIOUS
<1> USE DEF LatestCall
<1>0. /\ pc \in [Procs -> {"idle", "select", "update", "insert", "refresh"}]
      /\ cur \in [Procs -> Nat] /\ reports \in Seq(Submissions)
      /\ Handler \in Procs /\ \A p \in Procs : p = Handler
  BY SerialAssumption DEF TypeInv, TypeOK
<1>1. ASSUME NEW s \in Submissions, Call(Handler, s)
      PROVE  LatestCall'
  BY <1>0, <1>1 DEF Call
<1>2. CASE \/ Select(Handler) \/ CommitUpdate(Handler) \/ CommitInsert(Handler)
           \/ Refresh(Handler) \/ Fail(Handler) \/ Crash
  BY <1>0, <1>2 DEF Select, CommitUpdate, CommitInsert, Refresh, Fail, Crash, Return
<1>3. CASE UNCHANGED <<pc, cur, reports>>
  BY <1>3
<1> QED
  BY <1>0, <1>1, <1>2, <1>3 DEF Next, Step, SetStatus, Tick, vars, handlerVars

LEMMA DescribesNext ==
    Inv /\ QueueInv /\ [Next]_vars => DescribesFirst'
<1> SUFFICES ASSUME Inv, QueueInv, [Next]_vars, NEW u \in DOMAIN tickets'
             PROVE  \E r \in FirstReports(u)' : Describes(r, u)'
  BY DEF DescribesFirst
<1> DEFINE h == Handler
<1>0. /\ TypeInv
      /\ reports \in Seq(Submissions) /\ cur \in [Procs -> Nat]
      /\ DOMAIN home \subseteq 1 .. Len(reports)
      /\ Homes
      /\ pc[h] # "idle" => cur[h] = Len(reports) /\ cur[h] \in 1 .. Len(reports)
      /\ pc[h] \in {"update", "insert"} => cur[h] \notin DOMAIN home
      /\ pc[h] = "update" => snap[h].ticket \in DOMAIN tickets
      /\ h \in Procs /\ \A p \in Procs : p = h
  BY SerialAssumption
  DEF Inv, TypeInv, TypeOK, LiveCalls, Refs, Homes, Reports, QueueInv, LatestCall
<1>1. \A t \in DOMAIN tickets : \E r \in FirstReports(t) : Describes(r, t)
  BY DEF QueueInv, DescribesFirst
<1>2. /\ \A t \in DOMAIN tickets : /\ tickets'[t].severity = tickets[t].severity
                                   /\ tickets'[t].tier = tickets[t].tier
      /\ \A r \in DOMAIN home : reports'[r] = reports[r]
  <2>1. KeepsIdentity
    BY <1>0, KeepsIdentityNext
  <2>2. \A r \in DOMAIN home : reports'[r] = reports[r]
    BY <1>0 DEF Next, Step, Call, Select, CommitUpdate, CommitInsert, Refresh, Fail,
                SetStatus, Crash, Tick, vars
  <2> QED
    BY <2>1, <2>2 DEF KeepsIdentity, Identity
<1>3. ASSUME u \in DOMAIN tickets, MergedInto(u)' = MergedInto(u)
      PROVE  \E r \in FirstReports(u)' : Describes(r, u)'
  <2>1. PICK r \in FirstReports(u) : Describes(r, u)
    BY <1>1, <1>3
  <2>2. r \in DOMAIN home
    BY <2>1 DEF FirstReports, MergedInto
  <2>3. r \in FirstReports(u)'
    BY <1>3, <2>1 DEF FirstReports
  <2>4. Describes(r, u)'
    BY <1>2, <1>3, <2>1, <2>2 DEF Describes
  <2> QED
    BY <2>3, <2>4
<1>4. CASE CommitUpdate(h)
  <2>1. PICK t \in DOMAIN tickets : t = snap[h].ticket
    BY <1>0, <1>4 DEF CommitUpdate
  <2>2. /\ home' = With(home, cur[h], t) /\ DOMAIN tickets' = DOMAIN tickets
        /\ cur[h] = Len(reports) /\ cur[h] \notin DOMAIN home
    BY <1>0, <1>4, <2>1 DEF CommitUpdate
  <2>3. CASE u # t
    <3>1. MergedInto(u)' = MergedInto(u)
      BY <2>2, <2>3 DEF MergedInto, With
    <3> QED
      BY <1>3, <2>2, <3>1
  <2>4. CASE u = t
    <3>1. PICK r \in FirstReports(u) : Describes(r, u)
      BY <1>1, <2>1, <2>4
    <3>2. r \in DOMAIN home /\ r \in 1 .. Len(reports)
      BY <1>0, <3>1 DEF FirstReports, MergedInto
    <3>3. MergedInto(u)' = MergedInto(u) \cup {Len(reports)}
      BY <2>2, <2>4 DEF MergedInto, With
    <3>4. r \in FirstReports(u)'
      BY <1>0, <3>1, <3>2, <3>3 DEF FirstReports
    <3>5. Describes(r, u)'
      BY <1>2, <2>1, <2>4, <3>1, <3>2 DEF Describes
    <3> QED
      BY <3>4, <3>5
  <2> QED
    BY <2>3, <2>4
<1>5. CASE CommitInsert(h)
  <2>1. PICK t \in TicketId \ DOMAIN tickets, now \in since[h] .. clock :
            /\ tickets' = With(tickets, t, NewRow(Sub(h), now))
            /\ home' = With(home, cur[h], t) /\ reports' = reports
    BY <1>5 DEF CommitInsert
  <2>2. CASE u # t
    <3>1. MergedInto(u)' = MergedInto(u) /\ u \in DOMAIN tickets
      BY <1>0, <1>5, <2>1, <2>2 DEF MergedInto, With, CommitInsert
    <3> QED
      BY <1>3, <3>1
  <2>3. CASE u = t
    <3>1. MergedInto(u)' = {cur[h]}
      BY <1>0, <2>1, <2>3 DEF MergedInto, With, Homes
    <3>2. cur[h] \in FirstReports(u)'
      BY <1>0, <3>1 DEF FirstReports
    <3>3. /\ tickets'[u].severity = reports[cur[h]].severity
          /\ tickets'[u].tier = reports[cur[h]].tier
      BY <2>1, <2>3 DEF With, NewRow, Sub
    <3> QED
      BY <2>1, <3>2, <3>3 DEF Describes
  <2> QED
    BY <2>2, <2>3
<1>6. CASE home' = home /\ DOMAIN tickets' = DOMAIN tickets
  BY <1>3, <1>6 DEF MergedInto
<1> QED
  BY <1>0, <1>4, <1>5, <1>6
  DEF Next, Step, Call, Select, Refresh, Fail, SetStatus, Crash, Tick, vars

\* tickets.py l.96, models.py l.213: in the queue of any length every ticket has
\* the weight of the crash first reported times all its reports, and no open
\* ticket that is left out weighs more than one that is shown.
THEOREM QueueAlwaysShowsTheWorst == Spec => []QueueShowsTheWorst
<1>1. ASSUME TypeInv, EveryReportCounted, PriorityConsistent, DescribesFirst,
             NEW t \in DOMAIN tickets
      PROVE  TrueScores(t) = {tickets[t].priority} /\ tickets[t].priority \in Nat
  <2>1. tickets[t].priority =
            PriorityScore(tickets[t].severity, Cardinality(MergedInto(t)), tickets[t].tier)
    BY <1>1 DEF EveryReportCounted, PriorityConsistent
  <2>2. PICK r \in FirstReports(t) : Describes(r, t)
    BY <1>1 DEF DescribesFirst
  <2>3. DOMAIN home \subseteq 1 .. Len(reports) /\ Len(reports) \in Nat
    BY <1>1 DEF TypeInv, TypeOK, Reports
  <2>4. FirstReports(t) = {r}
    BY <2>2, <2>3 DEF FirstReports, MergedInto
  <2>5. TrueScores(t) = {PriorityScore(reports[r].severity, Cardinality(MergedInto(t)),
                                       reports[r].tier)}
    BY <2>4 DEF TrueScores
  <2>6. tickets[t].priority \in Nat
    BY <1>1 DEF TypeInv, TypeOK, Row
  <2> QED
    BY <2>1, <2>2, <2>5, <2>6 DEF Describes
<1>2. ASSUME TypeInv, EveryReportCounted, PriorityConsistent, DescribesFirst
      PROVE  QueueShowsTheWorst
  <2> SUFFICES ASSUME NEW limit \in 0 .. Cardinality(DOMAIN tickets),
                      NEW Q \in AdminQueue(limit), NEW t \in Q
               PROVE  /\ TrueScores(t) = {tickets[t].priority}
                      /\ \A u \in DOMAIN tickets :
                           IsOpen(u) /\ u \notin Q
                              => \A n \in TrueScores(u) : n <= tickets[t].priority
    <3>1. ASSUME NEW limit \in 0 .. Cardinality(DOMAIN tickets),
                 NEW views \in TriageQueue(limit), NEW v \in views,
                 NEW Q \in AdminQueue(limit), views = {View(q) : q \in Q},
                 NEW t \in Q, v = View(t)
          PROVE  /\ TrueScores(v.id) = {v.priority_score}
                 /\ \A u \in DOMAIN tickets :
                      IsOpen(u) /\ (\A w \in views : w.id # u)
                         => \A n \in TrueScores(u) : n <= v.priority_score
      <4>1. \A q : View(q).id = q /\ View(q).priority_score = tickets[q].priority
        BY DEF View
      <4>2. \A u : (\A w \in views : w.id # u) => u \notin Q
        <5> SUFFICES ASSUME NEW u \in Q
                     PROVE  \E w \in views : w.id = u
          OBVIOUS
        <5>1. View(u) \in views
          BY <3>1
        <5> QED
          BY <4>1, <5>1
      <4> QED
        BY <3>1, <4>1, <4>2
    <3> QED
      BY <3>1 DEF QueueShowsTheWorst, TriageQueue
  <2>1. /\ t \in DOMAIN tickets
        /\ \A u \in DOMAIN tickets : IsOpen(u) /\ u \notin Q => RanksAbove(t, u)
    BY DEF AdminQueue
  <2>2. ASSUME NEW u \in DOMAIN tickets, IsOpen(u), u \notin Q, NEW n \in TrueScores(u)
        PROVE  n <= tickets[t].priority
    <3>1. n = tickets[u].priority /\ n \in Nat /\ tickets[t].priority \in Nat
      BY <1>1, <1>2, <2>1, <2>2
    <3> QED
      BY <2>1, <2>2, <3>1 DEF RanksAbove
  <2> QED
    BY <1>1, <1>2, <2>1, <2>2
<1>3. Init => QueueInv
  BY SerialAssumption DEF Init, QueueInv, LatestCall, DescribesFirst
<1>4. Inv /\ QueueInv /\ [Next]_vars => QueueInv'
  BY LatestNext, DescribesNext DEF Inv, QueueInv
<1>5. Inv /\ QueueInv => TypeInv /\ DescribesFirst
  BY DEF Inv, QueueInv
<1> QED
  BY <1>2, <1>3, <1>4, <1>5, InvHolds, EveryReportAlwaysCounted, PriorityAlwaysConsistent,
     PTL DEF Spec
=============================================================================
