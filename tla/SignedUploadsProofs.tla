------------------------ MODULE SignedUploadsProofs ------------------------
(***************************************************************************)
(* Proofs about SignedUploads: for any number of handlers, documents, keys *)
(* and deployments, on either backend.                                     *)
(***************************************************************************)
EXTENDS SignedUploads, TLAPS, FiniteSetTheorems

\* What a stored row, and the request that will become one, must satisfy.
Genuine(t, r) ==
    /\ r.doc.signature # NoSignature
    /\ r.doc.signature.by = r.key_id
    /\ r.doc.signature.over = r.doc.payload
    /\ Vouches(r.under, r.key_id)
    /\ t = "release" => r.slot \in Channel
    /\ t = "license" => \/ r.doc.payload.expires = Never
                        \/ r.doc.payload.kind = "release"
                        \/ r.doc.payload.expires >= r.when

InFlight == {p \in Procs : pc[p] # "idle"}

\* A handler in flight checked its document under the settings still in force,
\* and remembers uploads that were accepted before it.
LiveRequest(p) ==
    /\ req[p].table \in Table /\ req[p].doc \in Submitted
    /\ Genuine(req[p].table, Row(req[p]))
    /\ Trusts(Trust(req[p].table), req[p].doc.signature.key_id)
    /\ req[p].since \subseteq accepted

\* Its id is new to the table before the COMMIT and stored, in the slot of the
\* document, after it; it is greater than every id accepted before the request.
OwnId(p) ==
    /\ pc[p] \in {"commit", "refresh"} =>
         /\ rid[p] \in 1 .. lastId[req[p].table]
         /\ \A b \in req[p].since : b.table = req[p].table => b.id < rid[p]
    /\ pc[p] = "commit" => rid[p] \notin DOMAIN rows[req[p].table]
    /\ pc[p] = "refresh" =>
         rid[p] \in Ids(req[p].table, SlotOf(req[p].table, req[p].doc.payload))

DistinctIds ==
    \A p, q \in Procs :
        p # q /\ pc[p] = "commit" /\ pc[q] = "commit" /\ req[p].table = req[q].table
            => rid[p] # rid[q]

TypeInv ==
    /\ env \in Deployments
    /\ clock \in Nat /\ uploads \in Nat
    /\ DOMAIN rows = Table /\ lastId \in [Table -> Nat]
    /\ pc \in [Procs -> {"idle", "insert", "commit", "refresh"}]
    /\ DOMAIN req = Procs
    /\ rid \in [Procs -> Nat]
    /\ served \in [Table -> [Slot -> Nat]]
    /\ \A p \in Procs : pc[p] = "idle" => req[p] = NoRequest

RowsInv == \A t \in Table : \A i \in DOMAIN rows[t] :
               i \in 1 .. lastId[t] /\ Genuine(t, rows[t][i])

HandlersInv == \A p \in InFlight : LiveRequest(p) /\ OwnId(p)

AcceptedInv == \A a \in accepted :
                   /\ a.table \in Table /\ a.id \in Ids(a.table, a.slot)
                   /\ \A i \in a.after : i < a.id

ServedInv == \A t \in Table : \A s \in Slot : served[t][s] = 0 \/ served[t][s] \in Ids(t, s)

Inv == TypeInv /\ RowsInv /\ HandlersInv /\ DistinctIds /\ AcceptedInv /\ ServedInv

-----------------------------------------------------------------------------

\* A key the trust store trusts is one the settings name.
LEMMA TrustsVouched ==
    ASSUME NEW settings, IsSettings(settings), NEW k, Trusts(FromSettings(settings), k)
    PROVE  Vouches(settings, k)
<1>1. PICK e \in FromSettings(settings) : e.key = k /\ e.status \in Trusted
  BY DEF Trusts
<1>2. CASE settings.json = "list"
  <2>1. FromSettings(settings) = FromKeys(settings.keys)
    BY <1>2 DEF FromSettings
  <2>2. PICK i \in DOMAIN settings.keys : e = settings.keys[i]
    BY <1>1, <2>1 DEF FromKeys
  <2> QED
    BY <1>1, <1>2, <2>2 DEF Vouches
<1>3. CASE settings.json = "malformed"
  <2>1. FromSettings(settings) = FromKeys(<<>>)
    BY <1>3 DEF FromSettings
  <2>2. FromKeys(<<>>) = {}
    BY DEF FromKeys
  <2> QED
    BY <1>1, <2>1, <2>2
<1>4. CASE settings.json = "unset"
  <2> DEFINE list == [i \in 1 .. Len(settings.single) |->
                        [key |-> settings.single[i], status |-> "active"]]
  <2>1. FromSettings(settings) = FromKeys(list)
    BY <1>4 DEF FromSettings
  <2>2. PICK i \in DOMAIN list : e = list[i]
    BY <1>1, <2>1 DEF FromKeys
  <2>3. i \in DOMAIN settings.single /\ e.key = settings.single[i]
    BY <2>2 DEF IsSettings
  <2> QED
    BY <1>1, <1>4, <2>3 DEF Vouches
<1> QED
  BY <1>2, <1>3, <1>4 DEF IsSettings

\* A document that passes the checks makes a genuine row.
LEMMA PassesGenuine ==
    ASSUME NEW t \in Table, NEW doc \in Submitted, env \in Deployments, clock \in Nat,
           Passes(t, doc), NEW r, r.table = t, r.doc = doc, r.under = env[t], r.when = clock
    PROVE  Genuine(t, Row(r)) /\ Trusts(Trust(t), doc.signature.key_id)
<1>1. /\ doc.signature # NoSignature
      /\ Trusts(Trust(t), doc.signature.key_id)
      /\ doc.signature.by = doc.signature.key_id
      /\ doc.signature.over = doc.payload
  BY DEF Passes, Verifies
<1>2. IsSettings(env[t])
  BY UploadsAssumption
<1>3. Vouches(env[t], doc.signature.key_id)
  BY <1>1, <1>2, TrustsVouched DEF Trust
<1>4. doc.payload \in Payload
  BY UploadsAssumption DEF Document
<1>5. /\ Row(r).doc = doc /\ Row(r).key_id = doc.signature.key_id
      /\ Row(r).under = env[t] /\ Row(r).when = clock /\ Row(r).slot = SlotOf(t, doc.payload)
  BY DEF Row
<1>6. t = "release" => Row(r).slot \in Channel
  BY <1>5 DEF Passes, SlotOf
<1>7. doc.payload.kind \in Table /\ doc.payload.expires \in Nat
  BY <1>4, UploadsAssumption
<1>8. t = "license" => \/ doc.payload.expires = Never
                       \/ doc.payload.kind = "release"
                       \/ doc.payload.expires >= clock
  BY <1>7 DEF Passes, Expired, Table
<1> QED
  BY <1>1, <1>3, <1>5, <1>6, <1>8 DEF Genuine

LEMMA InvInit == Init => Inv
<1> SUFFICES ASSUME Init PROVE Inv
  OBVIOUS
<1>1. TypeInv
  BY DEF Init, TypeInv
<1>2. InFlight = {} /\ accepted = {} /\ \A t \in Table : DOMAIN rows[t] = {}
  BY DEF Init, InFlight, NoRows
<1>3. RowsInv /\ HandlersInv /\ AcceptedInv
  BY <1>2 DEF RowsInv, HandlersInv, AcceptedInv
<1>4. DistinctIds
  BY DEF Init, DistinctIds
<1>5. ServedInv
  BY DEF Init, ServedInv
<1> QED
  BY <1>1, <1>3, <1>4, <1>5 DEF Inv

\* Once a handler is idle again nothing about it is left to say.
LEMMA IdleKeeps ==
    ASSUME Inv, NEW p \in Procs, Idle(p), UNCHANGED <<env, rows, lastId>>,
           accepted \subseteq accepted'
    PROVE  /\ pc' \in [Procs -> {"idle", "insert", "commit", "refresh"}]
           /\ DOMAIN req' = Procs /\ rid' \in [Procs -> Nat]
           /\ \A q \in Procs : pc'[q] = "idle" => req'[q] = NoRequest
           /\ HandlersInv' /\ DistinctIds'
<1>1. /\ pc' = [pc EXCEPT ![p] = "idle"] /\ req' = [req EXCEPT ![p] = NoRequest]
      /\ rid' = [rid EXCEPT ![p] = 0]
  BY DEF Idle
<1>2. /\ pc \in [Procs -> {"idle", "insert", "commit", "refresh"}]
      /\ DOMAIN req = Procs /\ rid \in [Procs -> Nat]
      /\ \A q \in Procs : pc[q] = "idle" => req[q] = NoRequest
  BY DEF Inv, TypeInv
<1>3. pc'[p] = "idle" /\ req'[p] = NoRequest
  BY <1>1, <1>2
<1>4. \A q \in Procs \ {p} : pc'[q] = pc[q] /\ req'[q] = req[q] /\ rid'[q] = rid[q]
  BY <1>1, <1>2
<1>5. ASSUME NEW q \in Procs, pc'[q] # "idle"
      PROVE  LiveRequest(q)' /\ OwnId(q)'
  <2>1. q # p /\ q \in InFlight
    BY <1>3, <1>4, <1>5 DEF InFlight
  <2>2. pc'[q] = pc[q] /\ req'[q] = req[q] /\ rid'[q] = rid[q]
    BY <1>4, <2>1
  <2>3. LiveRequest(q) /\ OwnId(q)
    BY <2>1 DEF Inv, HandlersInv
  <2>4. LiveRequest(q)'
    BY <2>2, <2>3 DEF LiveRequest, Trust
  <2>5. OwnId(q)'
    BY <2>2, <2>3 DEF OwnId, Ids
  <2> QED
    BY <2>4, <2>5
<1>6. HandlersInv'
  BY <1>5 DEF HandlersInv, InFlight
<1>7. DistinctIds'
  BY <1>3, <1>4 DEF Inv, DistinctIds
<1> QED
  BY <1>1, <1>2, <1>3, <1>4, <1>6, <1>7

\* A step that touches no handler, no row and no answer.
LEMMA QuietKeeps ==
    ASSUME Inv, UNCHANGED <<env, rows, lastId, pc, req, rid, accepted>>,
           clock' \in Nat, uploads' \in Nat, served' \in [Table -> [Slot -> Nat]], ServedInv'
    PROVE  Inv'
<1>1. TypeInv'
  BY DEF Inv, TypeInv
<1>2. RowsInv'
  BY DEF Inv, RowsInv
<1>3. HandlersInv'
  <2> SUFFICES ASSUME NEW p \in Procs, pc[p] # "idle" PROVE LiveRequest(p)' /\ OwnId(p)'
    BY DEF HandlersInv, InFlight
  <2>1. LiveRequest(p) /\ OwnId(p)
    BY DEF Inv, HandlersInv, InFlight
  <2> QED
    BY <2>1 DEF LiveRequest, Trust, OwnId, Ids
<1>4. DistinctIds'
  BY DEF Inv, DistinctIds
<1>5. AcceptedInv'
  BY DEF Inv, AcceptedInv, Ids
<1> QED
  BY <1>1, <1>2, <1>3, <1>4, <1>5 DEF Inv

LEMMA AcceptKeeps ==
    ASSUME Inv, NEW p \in Procs, NEW t \in Table, NEW doc \in Submitted, Accept(p, t, doc)
    PROVE  Inv'
<1> DEFINE r == [table |-> t, doc |-> doc, under |-> env[t], when |-> clock,
                 since |-> accepted]
<1>1. /\ pc[p] = "idle" /\ Passes(t, doc)
      /\ uploads' = uploads + 1
      /\ pc' = [pc EXCEPT ![p] = "insert"] /\ req' = [req EXCEPT ![p] = r]
      /\ UNCHANGED <<env, clock, rows, lastId, rid, accepted, served>>
  BY DEF Accept
<1>2. TypeInv
  BY DEF Inv
<1>3. pc'[p] = "insert" /\ req'[p] = r
  BY <1>1, <1>2 DEF TypeInv
<1>4. \A q \in Procs \ {p} : pc'[q] = pc[q] /\ req'[q] = req[q]
  BY <1>1, <1>2 DEF TypeInv
<1>5. Genuine(t, Row(r)) /\ Trusts(Trust(t), doc.signature.key_id)
  BY <1>1, <1>2, PassesGenuine DEF TypeInv
<1>6. TypeInv'
  BY <1>1, <1>2, <1>3, <1>4 DEF TypeInv
<1>7. RowsInv' /\ AcceptedInv' /\ ServedInv'
  BY <1>1 DEF Inv, RowsInv, AcceptedInv, ServedInv, Ids
<1>8. ASSUME NEW q \in Procs, pc'[q] # "idle"
      PROVE  LiveRequest(q)' /\ OwnId(q)'
  <2>1. CASE q = p
    <3>1. LiveRequest(p)'
      BY <1>1, <1>3, <1>5 DEF LiveRequest, Trust
    <3>2. OwnId(p)'
      BY <1>3 DEF OwnId
    <3> QED
      BY <2>1, <3>1, <3>2
  <2>2. CASE q # p
    <3>1. pc'[q] = pc[q] /\ req'[q] = req[q]
      BY <1>4, <2>2
    <3>2. LiveRequest(q) /\ OwnId(q)
      BY <1>8, <3>1 DEF Inv, HandlersInv, InFlight
    <3> QED
      BY <1>1, <3>1, <3>2 DEF LiveRequest, Trust, OwnId, Ids
  <2> QED
    BY <2>1, <2>2
<1>9. HandlersInv'
  BY <1>8 DEF HandlersInv, InFlight
<1>10. DistinctIds'
  BY <1>1, <1>3, <1>4 DEF Inv, DistinctIds
<1> QED
  BY <1>6, <1>7, <1>9, <1>10 DEF Inv

LEMMA InsertKeeps ==
    ASSUME Inv, NEW p \in Procs, Insert(p)
    PROVE  Inv'
<1> DEFINE t == req[p].table
<1> DEFINE id == lastId[t] + 1
<1>1. TypeInv /\ LiveRequest(p) /\ pc[p] = "insert"
  BY DEF Inv, HandlersInv, InFlight, Insert
<1>2. t \in Table /\ lastId[t] \in Nat /\ lastId \in [Table -> Nat]
  BY <1>1 DEF LiveRequest, TypeInv
<1>3. /\ lastId' = [lastId EXCEPT ![t] = id]
      /\ rid' = [rid EXCEPT ![p] = lastId'[t]]
      /\ pc' = [pc EXCEPT ![p] = "commit"]
      /\ UNCHANGED <<env, clock, rows, req, uploads, accepted, served>>
  BY DEF Insert
<1>4. lastId'[t] = id /\ \A s \in Table : lastId'[s] \in Nat /\ lastId'[s] >= lastId[s]
  BY <1>2, <1>3
<1>5. pc'[p] = "commit" /\ rid'[p] = id
  BY <1>1, <1>3, <1>4 DEF TypeInv
<1>6. \A q \in Procs \ {p} : pc'[q] = pc[q] /\ rid'[q] = rid[q]
  BY <1>1, <1>3 DEF TypeInv
<1>7. TypeInv'
  BY <1>1, <1>2, <1>3, <1>4, <1>5, <1>6 DEF TypeInv
<1>8. RowsInv'
  BY <1>2, <1>3, <1>4 DEF Inv, RowsInv
<1>9. AcceptedInv' /\ ServedInv'
  BY <1>3 DEF Inv, AcceptedInv, ServedInv, Ids
<1>10. ASSUME NEW q \in Procs, pc'[q] # "idle"
       PROVE  LiveRequest(q)' /\ OwnId(q)'
  <2>1. CASE q = p
    <3>1. LiveRequest(p)'
      BY <1>1, <1>3 DEF LiveRequest, Trust
    <3>2. \A b \in accepted : b.table = t => b.id \in 1 .. lastId[t]
      BY <1>2 DEF Inv, AcceptedInv, Ids, RowsInv
    <3>3. \A b \in req[p].since : b.table = t => b.id < id
      BY <1>1, <1>2, <3>2 DEF LiveRequest
    <3>4. id \in 1 .. lastId'[t] /\ id \notin DOMAIN rows[t]
      BY <1>2, <1>4 DEF Inv, RowsInv
    <3>5. OwnId(p)'
      BY <1>3, <1>5, <3>3, <3>4 DEF OwnId
    <3> QED
      BY <2>1, <3>1, <3>5
  <2>2. CASE q # p
    <3>1. pc'[q] = pc[q] /\ req'[q] = req[q] /\ rid'[q] = rid[q]
      BY <1>3, <1>6, <2>2
    <3>2. LiveRequest(q) /\ OwnId(q)
      BY <1>10, <3>1 DEF Inv, HandlersInv, InFlight
    <3>3. LiveRequest(q)'
      BY <1>3, <3>1, <3>2 DEF LiveRequest, Trust
    <3>4. req[q].table \in Table /\ lastId[req[q].table] \in Nat
          /\ lastId'[req[q].table] \in Nat /\ lastId'[req[q].table] >= lastId[req[q].table]
      BY <1>2, <1>4, <3>2 DEF LiveRequest
    <3>5. rid[q] \in 1 .. lastId[req[q].table] => rid[q] \in 1 .. lastId'[req[q].table]
      BY <3>4
    <3>6. OwnId(q)'
      BY <1>3, <3>1, <3>2, <3>5 DEF OwnId, Ids
    <3> QED
      BY <3>3, <3>6
  <2> QED
    BY <2>1, <2>2
<1>11. HandlersInv'
  BY <1>10 DEF HandlersInv, InFlight
<1>12. DistinctIds'
  <2>1. ASSUME NEW q \in Procs \ {p}, pc[q] = "commit", req[q].table = t
        PROVE  rid[q] < id
    <3>1. OwnId(q)
      BY <2>1 DEF Inv, HandlersInv, InFlight
    <3>2. rid[q] \in 1 .. lastId[t]
      BY <2>1, <3>1 DEF OwnId
    <3> QED
      BY <1>2, <3>2
  <2>2. ASSUME NEW q \in Procs \ {p}, pc[q] = "commit", req[q].table = t
        PROVE  rid[q] # id
    <3>1. rid[q] \in Nat
      BY <1>1 DEF TypeInv
    <3> QED
      BY <1>2, <2>1, <2>2, <3>1
  <2> QED
    BY <1>3, <1>5, <1>6, <2>2 DEF Inv, DistinctIds
<1> QED
  BY <1>7, <1>8, <1>9, <1>11, <1>12 DEF Inv

LEMMA CommitKeeps ==
    ASSUME Inv, NEW p \in Procs, Commit(p)
    PROVE  Inv'
<1> DEFINE t == req[p].table
<1> DEFINE slot == SlotOf(t, req[p].doc.payload)
<1>1. TypeInv /\ LiveRequest(p) /\ OwnId(p) /\ pc[p] = "commit"
  BY DEF Inv, HandlersInv, InFlight, Commit
<1>2. /\ rows' = [rows EXCEPT ![t] =
                      [i \in DOMAIN @ \cup {rid[p]} |-> IF i = rid[p] THEN Row(req[p]) ELSE @[i]]]
      /\ pc' = [pc EXCEPT ![p] = "refresh"]
      /\ UNCHANGED <<env, clock, lastId, req, rid, uploads, accepted, served>>
  BY DEF Commit
<1>3. t \in Table /\ DOMAIN rows = Table
  BY <1>1 DEF LiveRequest, TypeInv
<1>4. /\ DOMAIN rows' = Table
      /\ \A s \in Table \ {t} : rows'[s] = rows[s]
      /\ DOMAIN rows'[t] = DOMAIN rows[t] \cup {rid[p]}
      /\ rows'[t][rid[p]] = Row(req[p])
      /\ \A i \in DOMAIN rows[t] : i # rid[p] => rows'[t][i] = rows[t][i]
  BY <1>2, <1>3
<1>5. rid[p] \notin DOMAIN rows[t] /\ rid[p] \in 1 .. lastId[t]
  BY <1>1 DEF OwnId
<1>6. pc'[p] = "refresh" /\ \A q \in Procs \ {p} : pc'[q] = pc[q]
  BY <1>1, <1>2 DEF TypeInv
<1>7. TypeInv'
  BY <1>1, <1>2, <1>4, <1>6 DEF TypeInv
<1>8. RowsInv'
  BY <1>1, <1>2, <1>4, <1>5 DEF Inv, RowsInv, LiveRequest
<1>9. \A s \in Table : \A x : Ids(s, x) \subseteq Ids(s, x)'
  BY <1>3, <1>4, <1>5 DEF Ids
<1>10. rid[p] \in Ids(t, slot)'
  <2>1. Row(req[p]).slot = slot
    BY DEF Row
  <2>2. rid[p] \in DOMAIN rows'[t] /\ rows'[t][rid[p]].slot = slot
    BY <1>4, <2>1
  <2>3. rid' = rid /\ req' = req
    BY <1>2
  <2> QED
    BY <2>2, <2>3 DEF Ids
<1>11. AcceptedInv'
  BY <1>2, <1>9 DEF Inv, AcceptedInv
<1>12. ServedInv'
  BY <1>2, <1>9 DEF Inv, ServedInv
<1>13. ASSUME NEW q \in Procs, pc'[q] # "idle"
       PROVE  LiveRequest(q)' /\ OwnId(q)'
  <2>1. LiveRequest(q) /\ OwnId(q)
    BY <1>1, <1>6, <1>13 DEF Inv, HandlersInv, InFlight
  <2>2. LiveRequest(q)'
    BY <1>2, <2>1 DEF LiveRequest, Trust
  <2>3. CASE q = p
    <3>1. pc[p] = "commit" /\ pc'[p] = "refresh"
      BY <1>1, <1>6
    <3>2. rid' = rid /\ req' = req /\ lastId' = lastId
      BY <1>2
    <3>3. /\ rid[p] \in 1 .. lastId[t]
          /\ \A b \in req[p].since : b.table = t => b.id < rid[p]
      BY <1>1 DEF OwnId
    <3>4. OwnId(p)'
      BY <1>10, <3>1, <3>2, <3>3 DEF OwnId
    <3> QED
      BY <2>2, <2>3, <3>4
  <2>4. CASE q # p
    <3>1. pc'[q] = pc[q]
      BY <1>6, <2>4
    <3>2. pc[q] = "commit" => rid[q] \notin DOMAIN rows'[req[q].table]
      BY <1>1, <1>4, <2>1, <2>4 DEF Inv, DistinctIds, OwnId, LiveRequest
    <3>3. pc[q] = "refresh" =>
            rid[q] \in Ids(req[q].table, SlotOf(req[q].table, req[q].doc.payload))'
      BY <1>2, <1>9, <2>1 DEF OwnId, LiveRequest
    <3>4. rid' = rid /\ req' = req /\ lastId' = lastId
      BY <1>2
    <3>5. pc[q] \in {"commit", "refresh"} =>
            /\ rid[q] \in 1 .. lastId[req[q].table]
            /\ \A b \in req[q].since : b.table = req[q].table => b.id < rid[q]
      BY <2>1 DEF OwnId
    <3>6. OwnId(q)'
      BY <3>1, <3>2, <3>3, <3>4, <3>5 DEF OwnId
    <3> QED
      BY <2>2, <3>6
  <2> QED
    BY <2>2, <2>3, <2>4
<1>14. HandlersInv'
  BY <1>13 DEF HandlersInv, InFlight
<1>15. DistinctIds'
  BY <1>2, <1>6 DEF Inv, DistinctIds
<1> QED
  BY <1>7, <1>8, <1>11, <1>12, <1>14, <1>15 DEF Inv

LEMMA AnswerKeeps ==
    ASSUME Inv, NEW p \in Procs, Answer(p)
    PROVE  Inv'
<1> DEFINE t == req[p].table
<1> DEFINE slot == SlotOf(t, req[p].doc.payload)
<1>1. LiveRequest(p) /\ OwnId(p) /\ pc[p] = "refresh"
  BY DEF Inv, HandlersInv, InFlight, Answer
<1>2. /\ accepted' = accepted \cup {Receipt(p)} /\ Idle(p)
      /\ UNCHANGED <<env, clock, rows, lastId, uploads, served>>
  BY DEF Answer
<1>3. /\ pc' \in [Procs -> {"idle", "insert", "commit", "refresh"}]
      /\ DOMAIN req' = Procs /\ rid' \in [Procs -> Nat]
      /\ \A q \in Procs : pc'[q] = "idle" => req'[q] = NoRequest
      /\ HandlersInv' /\ DistinctIds'
  BY <1>2, IdleKeeps
<1>4. TypeInv' /\ RowsInv' /\ ServedInv'
  BY <1>2, <1>3 DEF Inv, TypeInv, RowsInv, ServedInv, Ids
<1>5. /\ Receipt(p).table = t /\ Receipt(p).slot = slot /\ Receipt(p).id = rid[p]
      /\ \A i \in Receipt(p).after : \E b \in req[p].since : b.table = t /\ b.id = i
  BY DEF Receipt
<1>6. rid[p] \in Ids(t, slot) /\ \A i \in Receipt(p).after : i < rid[p]
  BY <1>1, <1>5 DEF OwnId
<1>7. AcceptedInv'
  BY <1>1, <1>2, <1>5, <1>6 DEF Inv, AcceptedInv, Ids, LiveRequest
<1> QED
  BY <1>3, <1>4, <1>7 DEF Inv

LEMMA FailKeeps ==
    ASSUME Inv, NEW p \in Procs, Fail(p)
    PROVE  Inv'
<1>1. Idle(p) /\ UNCHANGED <<env, clock, rows, lastId, uploads, accepted, served>>
  BY DEF Fail
<1>2. /\ pc' \in [Procs -> {"idle", "insert", "commit", "refresh"}]
      /\ DOMAIN req' = Procs /\ rid' \in [Procs -> Nat]
      /\ \A q \in Procs : pc'[q] = "idle" => req'[q] = NoRequest
      /\ HandlersInv' /\ DistinctIds'
  BY <1>1, IdleKeeps
<1> QED
  BY <1>1, <1>2 DEF Inv, TypeInv, RowsInv, AcceptedInv, ServedInv, Ids

LEMMA RedeployKeeps ==
    ASSUME Inv, NEW d \in Deployments, Redeploy(d)
    PROVE  Inv'
<1>1. /\ \A p \in Procs : pc'[p] = "idle" /\ req'[p] = NoRequest
      /\ pc' = [p \in Procs |-> "idle"] /\ req' = [p \in Procs |-> NoRequest]
      /\ rid' = [p \in Procs |-> 0] /\ env' = d
      /\ UNCHANGED <<clock, rows, lastId, uploads, accepted, served>>
  BY DEF Redeploy
<1>2. TypeInv' /\ HandlersInv' /\ DistinctIds'
  BY <1>1 DEF Inv, TypeInv, HandlersInv, InFlight, DistinctIds
<1> QED
  BY <1>1, <1>2 DEF Inv, RowsInv, AcceptedInv, ServedInv, Ids

LEMMA GetKeeps ==
    ASSUME Inv, NEW t \in Table, NEW s \in Slot, Get(t, s)
    PROVE  Inv'
<1>1. PICK i \in DOMAIN rows[t] :
          IsLatest(t, s, i) /\ served' = [served EXCEPT ![t][s] = i]
  BY DEF Get
<1>2. UNCHANGED <<env, clock, rows, lastId, pc, req, rid, uploads, accepted>>
  BY DEF Get, handlerVars
<1>3. i \in Nat /\ lastId[t] \in Nat /\ served \in [Table -> [Slot -> Nat]]
  BY DEF Inv, TypeInv, RowsInv
<1>4. served' \in [Table -> [Slot -> Nat]]
  BY <1>1, <1>3
<1>5. ServedInv'
  BY <1>1, <1>2, <1>3 DEF Inv, ServedInv, IsLatest, Ids
<1>6. clock \in Nat /\ uploads \in Nat
  BY DEF Inv, TypeInv
<1> QED
  BY <1>2, <1>4, <1>5, <1>6, QuietKeeps

LEMMA RefuseAndTickKeep ==
    ASSUME Inv, Tick \/ \E t \in Table, doc \in Submitted : Refuse(t, doc)
    PROVE  Inv'
<1>1. /\ UNCHANGED <<env, rows, lastId, pc, req, rid, accepted, served>>
      /\ clock' \in Nat /\ uploads' \in Nat
  BY DEF Tick, Refuse, handlerVars, Inv, TypeInv
<1>2. served' \in [Table -> [Slot -> Nat]] /\ ServedInv'
  BY <1>1 DEF Inv, TypeInv, ServedInv, Ids
<1> QED
  BY <1>1, <1>2, QuietKeeps

LEMMA InvNext == Inv /\ [Next]_vars => Inv'
<1> SUFFICES ASSUME Inv, [Next]_vars PROVE Inv'
  OBVIOUS
<1>1. CASE UNCHANGED vars
  <2>1. UNCHANGED <<env, clock, rows, lastId, pc, req, rid, uploads, accepted, served>>
    BY <1>1 DEF vars, handlerVars
  <2> QED
    BY <2>1, QuietKeeps DEF Inv, TypeInv, ServedInv, Ids
<1>2. ASSUME NEW p \in Procs, NEW t \in Table, NEW doc \in Submitted, Accept(p, t, doc)
      PROVE  Inv'
  BY <1>2, AcceptKeeps
<1>3. ASSUME NEW p \in Procs, Insert(p) \/ Commit(p) \/ Answer(p) \/ Fail(p)
      PROVE  Inv'
  BY <1>3, InsertKeeps, CommitKeeps, AnswerKeeps, FailKeeps
<1>4. ASSUME NEW t \in Table, NEW s \in Slot, Get(t, s)
      PROVE  Inv'
  BY <1>4, GetKeeps
<1>5. ASSUME NEW d \in Deployments, Redeploy(d)
      PROVE  Inv'
  BY <1>5, RedeployKeeps
<1> QED
  BY <1>1, <1>2, <1>3, <1>4, <1>5, RefuseAndTickKeep DEF Next

LEMMA InvHolds == Spec => []Inv
<1> QED
  BY InvInit, InvNext, PTL DEF Spec

-----------------------------------------------------------------------------

\* Types of both tables and of the requests in flight; a request past its INSERT
\* owns an id of its table, invisible to readers until its COMMIT.
THEOREM UploadsTypeCorrect == Spec => []TypeOK
<1>1. ASSUME Inv, NEW p \in Procs, pc[p] # "idle"
      PROVE  /\ req[p].table \in Table /\ req[p].doc \in Submitted
             /\ pc[p] = "commit" => /\ rid[p] \in 1 .. lastId[req[p].table]
                                    /\ rid[p] \notin DOMAIN rows[req[p].table]
             /\ pc[p] = "refresh" => rid[p] \in DOMAIN rows[req[p].table]
  <2>1. LiveRequest(p) /\ OwnId(p)
    BY <1>1 DEF Inv, HandlersInv, InFlight
  <2> QED
    BY <2>1 DEF LiveRequest, OwnId, Ids
<1>2. Inv => TypeOK
  BY <1>1 DEF Inv, TypeInv, RowsInv, TypeOK
<1> QED
  BY <1>2, InvHolds, PTL

\* No row is ever stored that was not signed by the key it names, trusted by the
\* settings in force when the handler checked it: verify_manifest runs before
\* the INSERT in upload_manifest and register_license, and nothing in between
\* can change the document or let a restart survive it.
THEOREM RowsAlwaysGenuine == Spec => []RowsAreGenuine
<1>1. Inv => RowsAreGenuine
  BY DEF Inv, RowsInv, Genuine, RowsAreGenuine
<1> QED
  BY <1>1, InvHolds, PTL

\* What was answered accepted = true stays stored: session.commit() precedes the
\* answer of both handlers and no statement of models.py updates or deletes rows.
THEOREM AcceptedAlwaysStored == Spec => []AcceptedIsStored
<1>1. Inv => AcceptedIsStored
  BY DEF Inv, AcceptedInv, AcceptedIsStored
<1> QED
  BY <1>1, InvHolds, PTL

\* An upload sent after another one was accepted gets a greater id, so the
\* latest-row queries (order by id desc) never prefer the older one.
THEOREM LaterAlwaysWins == Spec => []LaterUploadWins
<1>1. ASSUME Inv, NEW a \in accepted, NEW i \in a.after, IsLatest(a.table, a.slot, i)
      PROVE  FALSE
  <2>1. a.table \in Table /\ a.id \in Ids(a.table, a.slot) /\ i < a.id
    BY <1>1 DEF Inv, AcceptedInv
  <2>2. i \in Ids(a.table, a.slot) /\ a.id <= i
    BY <1>1, <2>1 DEF IsLatest
  <2>3. lastId[a.table] \in Nat
    BY <1>1, <2>1 DEF Inv, TypeInv
  <2>4. i \in 1 .. lastId[a.table] /\ a.id \in 1 .. lastId[a.table]
    BY <1>1, <2>1, <2>2 DEF Ids, Inv, RowsInv
  <2> QED
    BY <2>1, <2>2, <2>3, <2>4
<1>2. Inv => LaterUploadWins
  BY <1>1 DEF LaterUploadWins
<1> QED
  BY <1>2, InvHolds, PTL

\* After a redeployment that drops or revokes a key no row signed by it appears:
\* the handlers that had checked it ended with the old process.
THEOREM RevokedNeverEnter == Spec => RevokedKeysStayOut
<1>1. ASSUME Inv, [Next]_vars, NEW t \in Table, NEW i \in DOMAIN rows'[t] \ DOMAIN rows[t]
      PROVE  Trusts(Trust(t), rows'[t][i].key_id)
  <2>1. PICK p \in Procs : Commit(p)
    <3>1. rows' # rows
      BY <1>1
    <3>2. \/ rows' = rows
          \/ \E p \in Procs : Commit(p)
      BY <1>1 DEF Next, vars, Refuse, Accept, Insert, Answer, Fail, Get, Redeploy, Tick
    <3> QED
      BY <3>1, <3>2
  <2>2. LiveRequest(p) /\ DOMAIN rows = Table
    BY <1>1, <2>1 DEF Inv, HandlersInv, InFlight, TypeInv, Commit
  <2>3. t = req[p].table /\ i = rid[p] /\ rows'[t][i] = Row(req[p])
    BY <2>1, <2>2 DEF Commit
  <2>4. rows'[t][i].key_id = req[p].doc.signature.key_id
    BY <2>3 DEF Row
  <2> QED
    BY <2>2, <2>3, <2>4 DEF LiveRequest
<1>2. Inv /\ [Next]_vars =>
        [\A t \in Table : \A i \in DOMAIN rows'[t] \ DOMAIN rows[t] :
            Trusts(Trust(t), rows'[t][i].key_id)]_vars
  BY <1>1
<1> QED
  BY <1>2, InvHolds, PTL DEF Spec, RevokedKeysStayOut

\* Two reads of a slot never go back in time: rows are only added, whatever the
\* order of their COMMITs, and both queries take the greatest committed id.
THEOREM ReadsMonotone == Spec => ReadsNeverGoBack
<1>1. ASSUME Inv, NEW u \in Table, NEW x \in Slot, Get(u, x), NEW t \in Table, NEW s \in Slot
      PROVE  served'[t][s] >= served[t][s]
  <2>1. PICK i \in DOMAIN rows[u] : IsLatest(u, x, i) /\ served' = [served EXCEPT ![u][x] = i]
    BY <1>1 DEF Get
  <2>2. served \in [Table -> [Slot -> Nat]] /\ served[t][s] \in Nat
    BY <1>1 DEF Inv, TypeInv
  <2>3. CASE t = u /\ s = x
    <3>1. served'[t][s] = i
      BY <2>1, <2>2, <2>3
    <3>2. i \in Nat
      BY <1>1 DEF Inv, TypeInv, RowsInv
    <3>3. served[t][s] = 0 \/ served[t][s] <= i
      BY <1>1, <2>1, <2>3 DEF Inv, ServedInv, IsLatest
    <3> QED
      BY <2>2, <3>1, <3>2, <3>3
  <2>4. CASE ~(t = u /\ s = x)
    <3>1. served'[t][s] = served[t][s]
      BY <2>1, <2>2, <2>4
    <3> QED
      BY <2>2, <3>1
  <2> QED
    BY <2>3, <2>4
<1>2. ASSUME Inv, [Next]_vars, served' # served
      PROVE  \A t \in Table : \A s \in Slot : served'[t][s] >= served[t][s]
  <2>1. \E u \in Table, x \in Slot : Get(u, x)
    BY <1>2 DEF Next, vars, Refuse, Accept, Insert, Commit, Answer, Fail, Redeploy, Tick
  <2> QED
    BY <1>1, <1>2, <2>1
<1>3. ASSUME Inv, served' = served
      PROVE  \A t \in Table : \A s \in Slot : served'[t][s] >= served[t][s]
  BY <1>3 DEF Inv, TypeInv
<1>4. Inv /\ [Next]_vars =>
        [\A t \in Table : \A s \in Slot : served'[t][s] >= served[t][s]]_vars
  BY <1>2, <1>3
<1> QED
  BY <1>4, InvHolds, PTL DEF Spec, ReadsNeverGoBack
-----------------------------------------------------------------------------
(* No upload is acknowledged twice *)

HoldsId(p) == pc[p] \in {"commit", "refresh"}

\* The id a handler holds is not one that was answered, nor another handler's.
Unanswered ==
    \A p \in Procs : HoldsId(p) =>
        \A a \in accepted : a.table = req[p].table => a.id # rid[p]
OwnedOnce ==
    \A p, q \in Procs :
        p # q /\ HoldsId(p) /\ HoldsId(q) /\ req[p].table = req[q].table => rid[p] # rid[q]

AckInv == IsFiniteSet(accepted) /\ Unanswered /\ OwnedOnce

\* A step after which no handler holds an id it did not hold, and nothing more
\* was answered.
LEMMA AckShrinks ==
    ASSUME AckInv, accepted' = accepted,
           \A p \in Procs : HoldsId(p)' =>
               HoldsId(p) /\ req'[p] = req[p] /\ rid'[p] = rid[p]
    PROVE  AckInv'
<1>1. IsFiniteSet(accepted')
  BY DEF AckInv
<1>2. Unanswered'
  BY DEF AckInv, Unanswered
<1>3. OwnedOnce'
  BY DEF AckInv, OwnedOnce
<1> QED
  BY <1>1, <1>2, <1>3 DEF AckInv

\* The id of an INSERT is greater than those answered and those held.
LEMMA InsertAck ==
    ASSUME Inv, AckInv, NEW p \in Procs, Insert(p)
    PROVE  AckInv'
<1>1. /\ pc[p] = "insert" /\ UNCHANGED <<rows, req, accepted>>
      /\ lastId' = [lastId EXCEPT ![req[p].table] = @ + 1]
      /\ rid' = [rid EXCEPT ![p] = lastId'[req[p].table]]
      /\ pc' = [pc EXCEPT ![p] = "commit"]
  BY DEF Insert
<1>2. req[p].table \in Table
  BY <1>1 DEF Inv, HandlersInv, InFlight, LiveRequest
<1>3. PICK t \in Table : t = req[p].table
  BY <1>2
<1>4. PICK last \in Nat : last = lastId[t]
  BY DEF Inv, TypeInv
<1>5. rid'[p] = last + 1
  BY <1>1, <1>3, <1>4 DEF Inv, TypeInv
<1>6. \A q \in Procs \ {p} : pc'[q] = pc[q] /\ rid'[q] = rid[q]
  BY <1>1 DEF Inv, TypeInv
<1>7. \A a \in accepted : a.table = t => a.id # last + 1
  <2> SUFFICES ASSUME NEW a \in accepted, a.table = t PROVE a.id # last + 1
    OBVIOUS
  <2>1. a.id \in 1 .. last
    BY <1>4 DEF Inv, AcceptedInv, RowsInv, Ids
  <2> QED
    BY <1>4, <2>1
<1>8. \A q \in Procs \ {p} : HoldsId(q) /\ req[q].table = t => rid[q] # last + 1
  <2> SUFFICES ASSUME NEW q \in Procs \ {p}, HoldsId(q), req[q].table = t
               PROVE  rid[q] # last + 1
    OBVIOUS
  <2>1. rid[q] \in 1 .. last
    BY <1>4 DEF HoldsId, Inv, HandlersInv, InFlight, OwnId
  <2> QED
    BY <1>4, <2>1
<1>9. Unanswered'
  BY <1>1, <1>3, <1>5, <1>6, <1>7 DEF AckInv, Unanswered, HoldsId
<1>10. OwnedOnce'
  BY <1>1, <1>3, <1>5, <1>6, <1>8 DEF AckInv, OwnedOnce, HoldsId
<1> QED
  BY <1>1, <1>9, <1>10 DEF AckInv

LEMMA AnswerAck ==
    ASSUME Inv, AckInv, NEW p \in Procs, Answer(p)
    PROVE  AckInv'
<1>1. /\ pc[p] = "refresh" /\ accepted' = accepted \cup {Receipt(p)}
      /\ pc' = [pc EXCEPT ![p] = "idle"] /\ req' = [req EXCEPT ![p] = NoRequest]
      /\ rid' = [rid EXCEPT ![p] = 0]
  BY DEF Answer, Idle
<1>2. Receipt(p).table = req[p].table /\ Receipt(p).id = rid[p]
  BY DEF Receipt
<1>3. /\ pc'[p] = "idle"
      /\ \A q \in Procs \ {p} : pc'[q] = pc[q] /\ req'[q] = req[q] /\ rid'[q] = rid[q]
  BY <1>1 DEF Inv, TypeInv
<1>4. \A q \in Procs \ {p} : HoldsId(q) /\ req[q].table = req[p].table => rid[q] # rid[p]
  BY <1>1 DEF AckInv, OwnedOnce, HoldsId
<1>5. Unanswered'
  BY <1>1, <1>2, <1>3, <1>4 DEF AckInv, Unanswered, HoldsId
<1>6. OwnedOnce'
  BY <1>3 DEF AckInv, OwnedOnce, HoldsId
<1>7. IsFiniteSet(accepted')
  BY <1>1, FS_AddElement DEF AckInv
<1> QED
  BY <1>5, <1>6, <1>7 DEF AckInv

LEMMA AckNext == Inv /\ AckInv /\ [Next]_vars => AckInv'
<1> SUFFICES ASSUME Inv, AckInv, [Next]_vars PROVE AckInv'
  OBVIOUS
<1>1. CASE UNCHANGED <<pc, req, rid, accepted>>
  BY <1>1, AckShrinks DEF HoldsId
<1>2. ASSUME NEW p \in Procs, NEW t \in Table, NEW doc \in Submitted, Accept(p, t, doc)
      PROVE  AckInv'
  <2>1. accepted' = accepted /\ rid' = rid /\ pc'[p] = "insert"
        /\ \A q \in Procs \ {p} : pc'[q] = pc[q] /\ req'[q] = req[q]
    BY <1>2 DEF Accept, Inv, TypeInv
  <2> QED
    BY <2>1, AckShrinks DEF HoldsId
<1>3. ASSUME NEW p \in Procs, Commit(p)
      PROVE  AckInv'
  <2>1. accepted' = accepted /\ rid' = rid /\ req' = req /\ pc[p] = "commit"
        /\ \A q \in Procs \ {p} : pc'[q] = pc[q]
    BY <1>3 DEF Commit, Inv, TypeInv
  <2> QED
    BY <2>1, AckShrinks DEF HoldsId
<1>4. ASSUME NEW p \in Procs, Fail(p)
      PROVE  AckInv'
  <2>1. accepted' = accepted /\ pc'[p] = "idle"
        /\ \A q \in Procs \ {p} : pc'[q] = pc[q] /\ req'[q] = req[q] /\ rid'[q] = rid[q]
    BY <1>4 DEF Fail, Idle, Inv, TypeInv
  <2> QED
    BY <2>1, AckShrinks DEF HoldsId
<1>5. ASSUME NEW d \in Deployments, Redeploy(d)
      PROVE  AckInv'
  <2>1. accepted' = accepted /\ \A q \in Procs : pc'[q] = "idle"
    BY <1>5 DEF Redeploy
  <2> QED
    BY <2>1, AckShrinks DEF HoldsId
<1>6. CASE \/ UNCHANGED vars \/ Tick
           \/ \E t \in Table, doc \in Submitted : Refuse(t, doc)
           \/ \E t \in Table, s \in Slot : Get(t, s)
  BY <1>1, <1>6 DEF vars, handlerVars, Tick, Refuse, Get
<1> QED
  BY <1>2, <1>3, <1>4, <1>5, <1>6, InsertAck, AnswerAck DEF Next

LEMMA AckHolds == Spec => []AckInv
<1>1. Init => AckInv
  BY FS_EmptySet DEF Init, AckInv, Unanswered, OwnedOnce, HoldsId
<1> QED
  BY <1>1, InvHolds, AckNext, PTL DEF Spec

-----------------------------------------------------------------------------
(* SignedUploads implements Register *)

\* The variables of the register, as SignedUploads gives them.
Values == [c \in Cell |-> InEffect(c)]
Calls == [p \in Procs |-> CallOf(p)]
Seen == [c \in Cell |-> LastSeen(c)]
Told == [c \in Cell |-> Cardinality(Acknowledged(c))]

\* Every upload that passes the checks writes a cell of the register.
LEMMA CellExists ==
    ASSUME NEW t \in Table, NEW doc \in Submitted, t = "release" => doc.payload.slot \in Channel
    PROVE  <<t, SlotOf(t, doc.payload)>> \in Cell
<1>1. doc.payload \in Payload
  BY UploadsAssumption DEF Document
<1>2. /\ doc.payload.kind \in Table /\ doc.payload.slot \in Channel \cup Customer
      /\ doc.payload.slot \in Channel <=> doc.payload.kind = "release"
  BY <1>1, UploadsAssumption
<1>3. CASE t = "release"
  BY <1>3 DEF SlotOf, Cell
<1>4. CASE t = "license" /\ doc.payload.kind = "release"
  BY <1>4 DEF SlotOf, Cell
<1>5. CASE t = "license" /\ doc.payload.kind = "license"
  BY <1>2, <1>5 DEF SlotOf, Cell
<1> QED
  BY <1>2, <1>3, <1>4, <1>5 DEF Table

\* While no row is added, what a cell holds and what was read of it stay.
LEMMA RowsStay ==
    ASSUME rows' = rows
    PROVE  /\ Values' = Values
           /\ served' = served => Seen' = Seen
<1>1. \A c : InEffect(c)' = InEffect(c)
  BY DEF InEffect, Ids
<1>2. served' = served => \A c : LastSeen(c)' = LastSeen(c)
  BY DEF LastSeen
<1> QED
  BY <1>1, <1>2 DEF Values, Seen

\* While nothing is answered, nothing more is acknowledged.
LEMMA ToldStays ==
    ASSUME accepted' = accepted
    PROVE  Told' = Told
BY DEF Told, Acknowledged

\* The call of a handler that takes no step stays.
LEMMA CallStays ==
    ASSUME rows' = rows, NEW p, pc'[p] = pc[p], req'[p] = req[p], rid'[p] = rid[p]
    PROVE  CallOf(p)' = CallOf(p)
<1>1. CellOf(p)' = CellOf(p)
  BY DEF CellOf
<1>2. TookEffect(p)' <=> TookEffect(p)
  BY <1>1 DEF TookEffect, Ids
<1> QED
  BY <1>1, <1>2 DEF CallOf

LEMMA AcceptBegins ==
    ASSUME Inv, NEW p \in Procs, NEW t \in Table, NEW doc \in Submitted, Accept(p, t, doc)
    PROVE  Atomic!Begin(p)
<1>1. /\ pc[p] = "idle" /\ Passes(t, doc) /\ UNCHANGED <<rows, rid, served, accepted>>
      /\ pc' = [pc EXCEPT ![p] = "insert"]
      /\ req' = [req EXCEPT ![p] = [table |-> t, doc |-> doc, under |-> env[t],
                                    when |-> clock, since |-> accepted]]
  BY DEF Accept
<1>2. /\ pc'[p] = "insert" /\ req'[p].table = t /\ req'[p].doc = doc
      /\ \A q \in Procs \ {p} : pc'[q] = pc[q] /\ req'[q] = req[q] /\ rid'[q] = rid[q]
  BY <1>1 DEF Inv, TypeInv
<1>3. CallOf(p) = [stage |-> "none"]
  BY <1>1 DEF CallOf
<1>4. CallOf(p)' = [stage |-> "called", cell |-> <<t, SlotOf(t, doc.payload)>>, value |-> doc]
  BY <1>2 DEF CallOf, CellOf, TookEffect
<1>5. <<t, SlotOf(t, doc.payload)>> \in Cell
  BY <1>1, CellExists DEF Passes
<1>6. CallOf(p)' \in [stage : {"called"}, cell : Cell, value : Submitted]
  BY <1>4, <1>5
<1>7. \A q \in Procs \ {p} : CallOf(q)' = CallOf(q)
  BY <1>1, <1>2, CallStays
<1>8. Calls' = [Calls EXCEPT ![p] = Calls'[p]]
  BY <1>7 DEF Calls
<1>9. Calls[p] = [stage |-> "none"] /\ Calls'[p] = CallOf(p)'
  BY <1>3 DEF Calls
<1>10. Values' = Values /\ Seen' = Seen /\ Told' = Told
  BY <1>1, RowsStay, ToldStays
<1> QED
  BY <1>6, <1>8, <1>9, <1>10 DEF Atomic!Begin, Atomic!NoCall, Calls, Values, Seen, Told

\* The id of an INSERT is greater than every committed one: the write has yet to
\* take effect.
LEMMA InsertStutters ==
    ASSUME Inv, NEW p \in Procs, Insert(p)
    PROVE  UNCHANGED <<Values, Calls, Seen, Told>>
<1>1. /\ pc[p] = "insert" /\ UNCHANGED <<rows, req, served, accepted>>
      /\ lastId' = [lastId EXCEPT ![req[p].table] = @ + 1]
      /\ rid' = [rid EXCEPT ![p] = lastId'[req[p].table]]
      /\ pc' = [pc EXCEPT ![p] = "commit"]
  BY DEF Insert
<1>2. req[p].table \in Table
  BY <1>1 DEF Inv, HandlersInv, InFlight, LiveRequest
<1>3. lastId \in [Table -> Nat] /\ lastId[req[p].table] \in Nat
  BY <1>2 DEF Inv, TypeInv
<1>4. rid'[p] = lastId[req[p].table] + 1 /\ pc'[p] = "commit"
  BY <1>1, <1>2, <1>3 DEF Inv, TypeInv
<1>5. CellOf(p)' = CellOf(p) /\ CellOf(p)[1] = req[p].table
  BY <1>1 DEF CellOf
<1>6. \A j \in Ids(CellOf(p)[1], CellOf(p)[2]) : j \in 1 .. lastId[req[p].table]
  BY <1>2, <1>5 DEF Inv, RowsInv, Ids
<1>7. ~ \E j \in Ids(CellOf(p)[1], CellOf(p)[2]) : j > rid'[p]
  BY <1>3, <1>4, <1>6
<1>8. ~TookEffect(p) /\ ~TookEffect(p)'
  BY <1>1, <1>4, <1>5, <1>7 DEF TookEffect, Ids
<1>9. CallOf(p)' = CallOf(p)
  BY <1>1, <1>4, <1>5, <1>8 DEF CallOf
<1>10. \A q \in Procs \ {p} : CallOf(q)' = CallOf(q)
  <2>1. \A q \in Procs \ {p} : pc'[q] = pc[q] /\ req'[q] = req[q] /\ rid'[q] = rid[q]
    BY <1>1 DEF Inv, TypeInv
  <2> QED
    BY <1>1, <2>1, CallStays
<1>11. Calls' = Calls
  BY <1>9, <1>10 DEF Calls
<1> QED
  BY <1>1, <1>11, RowsStay, ToldStays

\* The answer of handler p adds its upload, and no other, to those acknowledged.
LEMMA AnswerTells ==
    ASSUME Inv, AckInv, NEW p \in Procs, Answer(p)
    PROVE  CellOf(p) \in Cell /\ Told' = [Told EXCEPT ![CellOf(p)] = @ + 1]
<1>1. pc[p] = "refresh" /\ accepted' = accepted \cup {Receipt(p)}
  BY DEF Answer
<1>2. LiveRequest(p)
  BY <1>1 DEF Inv, HandlersInv, InFlight
<1>3. req[p].table = "release" => req[p].doc.payload.slot \in Channel
  BY <1>2 DEF LiveRequest, Genuine, Row, SlotOf
<1>4. CellOf(p) \in Cell
  BY <1>2, <1>3, CellExists DEF LiveRequest, CellOf
<1>5. PICK r : r = Receipt(p)
  OBVIOUS
<1>6. PICK c \in Cell : c = CellOf(p)
  BY <1>4
<1>7. r.table = req[p].table /\ r.id = rid[p] /\ <<r.table, r.slot>> = c
  BY <1>5, <1>6 DEF Receipt, CellOf
<1>8. r \notin accepted
  BY <1>1, <1>7 DEF AckInv, Unanswered, HoldsId
<1>9. Acknowledged(c)' = Acknowledged(c) \cup {r}
  BY <1>1, <1>5, <1>7 DEF Acknowledged
<1>10. IsFiniteSet(Acknowledged(c)) /\ r \notin Acknowledged(c)
  <2>1. Acknowledged(c) \in SUBSET accepted
    BY DEF Acknowledged
  <2> QED
    BY <1>8, <2>1, FS_Subset DEF AckInv
<1>11. Cardinality(Acknowledged(c)') = Cardinality(Acknowledged(c)) + 1
  BY <1>9, <1>10, FS_AddElement
<1>12. \A d \in Cell \ {c} : Acknowledged(d)' = Acknowledged(d)
  BY <1>1, <1>5, <1>7 DEF Acknowledged
<1>13. Told' = [Told EXCEPT ![c] = @ + 1]
  BY <1>11, <1>12 DEF Told
<1> QED
  BY <1>4, <1>6, <1>13

\* An upload is acknowledged once it took effect.
LEMMA AnswerReturns ==
    ASSUME Inv, AckInv, NEW p \in Procs, Answer(p)
    PROVE  Atomic!Return(p)
<1>1. pc[p] = "refresh" /\ UNCHANGED <<rows, served>>
  BY DEF Answer
<1>2. /\ pc' = [pc EXCEPT ![p] = "idle"] /\ req' = [req EXCEPT ![p] = NoRequest]
      /\ rid' = [rid EXCEPT ![p] = 0]
  BY DEF Answer, Idle
<1>3. /\ pc'[p] = "idle"
      /\ \A q \in Procs \ {p} : pc'[q] = pc[q] /\ req'[q] = req[q] /\ rid'[q] = rid[q]
  BY <1>2 DEF Inv, TypeInv
<1>4. CallOf(p).stage = "done" /\ CallOf(p).cell = CellOf(p)
  BY <1>1 DEF CallOf, TookEffect
<1>5. CallOf(p)' = [stage |-> "none"]
  BY <1>3 DEF CallOf
<1>6. \A q \in Procs \ {p} : CallOf(q)' = CallOf(q)
  BY <1>1, <1>3, CallStays
<1>7. /\ Calls[p].stage = "done" /\ Calls[p].cell = CellOf(p)
      /\ Calls' = [Calls EXCEPT ![p] = [stage |-> "none"]]
  BY <1>4, <1>5, <1>6 DEF Calls
<1>8. Values' = Values /\ Seen' = Seen
  BY <1>1, RowsStay
<1>9. Told' = [Told EXCEPT ![Calls[p].cell] = @ + 1]
  BY <1>7, AnswerTells
<1> QED
  BY <1>7, <1>8, <1>9 DEF Atomic!Return, Atomic!NoCall, Calls, Values, Seen, Told

\* Writes that end without an answer, in any of their stages.
LEMMA EndsAbort ==
    ASSUME Inv, UNCHANGED <<rows, served, accepted>>,
           \A p \in Procs : \/ pc'[p] = "idle"
                            \/ pc'[p] = pc[p] /\ req'[p] = req[p] /\ rid'[p] = rid[p]
    PROVE  Atomic!Abort
<1>1. \A p \in Procs : CallOf(p)' = [stage |-> "none"] \/ CallOf(p)' = CallOf(p)
  <2> SUFFICES ASSUME NEW p \in Procs
               PROVE  CallOf(p)' = [stage |-> "none"] \/ CallOf(p)' = CallOf(p)
    OBVIOUS
  <2>1. CASE pc'[p] = "idle"
    BY <2>1 DEF CallOf
  <2>2. CASE pc'[p] = pc[p] /\ req'[p] = req[p] /\ rid'[p] = rid[p]
    BY <2>2, CallStays
  <2> QED
    BY <2>1, <2>2
<1>2. Calls' = [p \in Procs |-> IF Calls'[p] = [stage |-> "none"]
                                THEN [stage |-> "none"] ELSE Calls[p]]
  BY <1>1 DEF Calls
<1>3. Values' = Values /\ Seen' = Seen /\ Told' = Told
  BY RowsStay, ToldStays
<1> QED
  BY <1>2, <1>3 DEF Atomic!Abort, Atomic!NoCall, Calls, Values, Seen, Told

LEMMA FailAborts ==
    ASSUME Inv, NEW p \in Procs, Fail(p)
    PROVE  Atomic!Abort
<1>1. /\ pc' = [pc EXCEPT ![p] = "idle"] /\ req' = [req EXCEPT ![p] = NoRequest]
      /\ rid' = [rid EXCEPT ![p] = 0] /\ UNCHANGED <<rows, served, accepted>>
  BY DEF Fail, Idle
<1>2. \A q \in Procs : \/ pc'[q] = "idle"
                       \/ pc'[q] = pc[q] /\ req'[q] = req[q] /\ rid'[q] = rid[q]
  BY <1>1 DEF Inv, TypeInv
<1> QED
  BY <1>1, <1>2, EndsAbort

LEMMA RedeployAborts ==
    ASSUME Inv, NEW d \in Deployments, Redeploy(d)
    PROVE  Atomic!Abort
<1>1. UNCHANGED <<rows, served, accepted>> /\ \A p \in Procs : pc'[p] = "idle"
  BY DEF Redeploy
<1> QED
  BY <1>1, EndsAbort

\* The greatest committed id of a cell: the row a GET returns.
Newest(c) == {j \in Ids(c[1], c[2]) : \A k \in Ids(c[1], c[2]) : k <= j}

LEMMA InEffectIsNewest ==
    ASSUME NEW c, NEW i, Newest(c) = {i}
    PROVE  InEffect(c) = rows[c[1]][i].doc
<1>1. {rows[c[1]][j].doc : j \in Newest(c)} = {rows[c[1]][i].doc}
  OBVIOUS
<1> QED
  BY <1>1 DEF InEffect, Newest

LEMMA GetReads ==
    ASSUME Inv, NEW t \in Table, NEW s \in Slot, Get(t, s)
    PROVE  \/ <<t, s>> \in Cell /\ Atomic!Read(<<t, s>>)
           \/ UNCHANGED <<Values, Calls, Seen, Told>>
<1>1. PICK i \in DOMAIN rows[t] :
          IsLatest(t, s, i) /\ served' = [served EXCEPT ![t][s] = i]
  BY DEF Get
<1>2. UNCHANGED <<rows, pc, req, rid, accepted>>
  BY DEF Get, handlerVars
<1>3. Values' = Values /\ Told' = Told
  BY <1>2, RowsStay, ToldStays
<1>4. Calls' = Calls
  BY <1>2, CallStays DEF Calls
<1>5. served \in [Table -> [Slot -> Nat]] /\ lastId[t] \in Nat
  BY DEF Inv, TypeInv
<1>6. i \in Nat /\ i # 0 /\ \A j \in Ids(t, s) : j \in Nat
  BY <1>5 DEF Inv, RowsInv, Ids
<1>7. \A c \in Cell : c # <<t, s>> => LastSeen(c)' = LastSeen(c)
  <2> SUFFICES ASSUME NEW c \in Cell, c # <<t, s>> PROVE LastSeen(c)' = LastSeen(c)
    OBVIOUS
  <2>1. PICK u \in Table, x \in Slot : c = <<u, x>>
    BY DEF Cell, Table, Slot
  <2>2. served'[u][x] = served[u][x]
    BY <1>1, <1>5, <2>1
  <2> QED
    BY <1>2, <2>1, <2>2 DEF LastSeen
<1>8. CASE <<t, s>> \in Cell
  <2>1. Newest(<<t, s>>) = {i}
    BY <1>1, <1>6 DEF Newest, IsLatest
  <2>2. InEffect(<<t, s>>) = rows[t][i].doc
    BY <2>1, InEffectIsNewest
  <2>3. served'[t][s] = i
    BY <1>1, <1>5
  <2>4. LastSeen(<<t, s>>)' = rows[t][i].doc
    BY <1>2, <1>6, <2>3 DEF LastSeen
  <2>5. Seen' = [Seen EXCEPT ![<<t, s>>] = Values[<<t, s>>]]
    BY <1>7, <1>8, <2>2, <2>4 DEF Seen, Values
  <2> QED
    BY <1>3, <1>4, <1>8, <2>5 DEF Atomic!Read, Calls, Values, Seen, Told
<1>9. CASE <<t, s>> \notin Cell
  BY <1>3, <1>4, <1>7, <1>9 DEF Seen
<1> QED
  BY <1>8, <1>9
\* What a COMMIT changes: one cell gains the row of one handler.
LEMMA CommitAdds ==
    ASSUME Inv, NEW p \in Procs, Commit(p)
    PROVE  /\ pc[p] = "commit" /\ pc'[p] = "refresh" /\ UNCHANGED <<req, rid, served>>
           /\ \A q \in Procs \ {p} : pc'[q] = pc[q]
           /\ CellOf(p) \in Cell /\ rid[p] \notin DOMAIN rows[CellOf(p)[1]]
           /\ \A c \in Cell : Ids(c[1], c[2])' =
                  IF c = CellOf(p) THEN Ids(c[1], c[2]) \cup {rid[p]} ELSE Ids(c[1], c[2])
           /\ \A c \in Cell : \A i \in DOMAIN rows[c[1]] : rows'[c[1]][i] = rows[c[1]][i]
           /\ rows'[CellOf(p)[1]][rid[p]].doc = req[p].doc
<1> DEFINE t == req[p].table
<1> DEFINE slot == SlotOf(t, req[p].doc.payload)
<1>1. TypeInv /\ LiveRequest(p) /\ OwnId(p) /\ pc[p] = "commit"
  BY DEF Inv, HandlersInv, InFlight, Commit
<1>2. /\ rows' = [rows EXCEPT ![t] =
                      [i \in DOMAIN @ \cup {rid[p]} |-> IF i = rid[p] THEN Row(req[p]) ELSE @[i]]]
      /\ pc' = [pc EXCEPT ![p] = "refresh"]
      /\ UNCHANGED <<req, rid, served>>
  BY DEF Commit
<1>3. t \in Table /\ DOMAIN rows = Table /\ rid[p] \notin DOMAIN rows[t]
  BY <1>1 DEF LiveRequest, TypeInv, OwnId
<1>4. /\ \A u \in Table \ {t} : rows'[u] = rows[u]
      /\ DOMAIN rows'[t] = DOMAIN rows[t] \cup {rid[p]}
      /\ rows'[t][rid[p]] = Row(req[p])
      /\ \A i \in DOMAIN rows[t] : rows'[t][i] = rows[t][i]
  BY <1>2, <1>3
<1>5. Row(req[p]).slot = slot /\ Row(req[p]).doc = req[p].doc
  BY DEF Row
<1>6. CellOf(p) = <<t, slot>>
  BY DEF CellOf
<1>7. CellOf(p) \in Cell
  <2>1. t = "release" => slot \in Channel
    BY <1>1, <1>5 DEF LiveRequest, Genuine
  <2>2. t = "release" => req[p].doc.payload.slot \in Channel
    BY <2>1 DEF SlotOf
  <2> QED
    BY <1>1, <1>6, <2>2, CellExists DEF LiveRequest
<1>8. \A u \in Table : \A s : Ids(u, s)' =
          IF u = t /\ s = slot THEN Ids(u, s) \cup {rid[p]} ELSE Ids(u, s)
  <2> SUFFICES ASSUME NEW u \in Table, NEW s
               PROVE  Ids(u, s)' =
                        IF u = t /\ s = slot THEN Ids(u, s) \cup {rid[p]} ELSE Ids(u, s)
    OBVIOUS
  <2>1. CASE u # t
    BY <1>4, <2>1 DEF Ids
  <2>2. CASE u = t
    <3>1. Ids(u, s)' = {i \in DOMAIN rows[t] \cup {rid[p]} : rows'[t][i].slot = s}
      BY <1>4, <2>2 DEF Ids
    <3>2. rows'[t][rid[p]].slot = slot
      BY <1>4, <1>5
    <3> QED
      BY <1>3, <1>4, <2>2, <3>1, <3>2 DEF Ids
  <2> QED
    BY <2>1, <2>2
<1>9. \A c \in Cell : \E u \in Table, s \in Slot : c = <<u, s>>
  BY DEF Cell, Table, Slot
<1>10. \A c \in Cell : Ids(c[1], c[2])' =
           IF c = CellOf(p) THEN Ids(c[1], c[2]) \cup {rid[p]} ELSE Ids(c[1], c[2])
  <2> SUFFICES ASSUME NEW c \in Cell
               PROVE  Ids(c[1], c[2])' =
                        IF c = CellOf(p) THEN Ids(c[1], c[2]) \cup {rid[p]}
                        ELSE Ids(c[1], c[2])
    OBVIOUS
  <2>1. PICK u \in Table, s \in Slot : c = <<u, s>>
    BY <1>9
  <2>2. c[1] = u /\ c[2] = s /\ (c = CellOf(p) <=> u = t /\ s = slot)
    BY <1>6, <2>1
  <2> QED
    BY <1>8, <2>2
<1>11. \A c \in Cell : \A i \in DOMAIN rows[c[1]] : rows'[c[1]][i] = rows[c[1]][i]
  <2> SUFFICES ASSUME NEW u \in Table, NEW i \in DOMAIN rows[u]
               PROVE  rows'[u][i] = rows[u][i]
    BY <1>9
  <2> QED
    BY <1>4
<1>12. pc'[p] = "refresh" /\ \A q \in Procs \ {p} : pc'[q] = pc[q]
  BY <1>1, <1>2 DEF TypeInv
<1> QED
  BY <1>1, <1>2, <1>3, <1>4, <1>5, <1>6, <1>7, <1>10, <1>11, <1>12

\* The other cells, and what was read, are not touched.
LEMMA CommitKeepsOthers ==
    ASSUME Inv, NEW p \in Procs, Commit(p)
    PROVE  /\ Seen' = Seen
           /\ \A c \in Cell \ {CellOf(p)} : InEffect(c)' = InEffect(c)
<1>1. served' = served /\ \A c \in Cell : \A i \in DOMAIN rows[c[1]] :
          rows'[c[1]][i] = rows[c[1]][i]
  BY CommitAdds
<1>2. \A c \in Cell : LastSeen(c)' = LastSeen(c)
  <2> SUFFICES ASSUME NEW c \in Cell PROVE LastSeen(c)' = LastSeen(c)
    OBVIOUS
  <2>1. c[1] \in Table /\ c[2] \in Slot
    BY DEF Cell, Table, Slot
  <2>2. served[c[1]][c[2]] = 0 \/ served[c[1]][c[2]] \in DOMAIN rows[c[1]]
    BY <2>1 DEF Inv, ServedInv, Ids
  <2> QED
    BY <1>1, <2>2 DEF LastSeen
<1>3. ASSUME NEW c \in Cell \ {CellOf(p)} PROVE InEffect(c)' = InEffect(c)
  <2>1. Ids(c[1], c[2])' = Ids(c[1], c[2])
    BY CommitAdds
  <2>2. Newest(c)' = Newest(c)
    BY <2>1 DEF Newest
  <2>3. \A i \in Newest(c) : rows'[c[1]][i] = rows[c[1]][i]
    BY <1>1 DEF Newest, Ids
  <2>4. {rows'[c[1]][i].doc : i \in Newest(c)'} = {rows[c[1]][i].doc : i \in Newest(c)}
    BY <2>2, <2>3
  <2> QED
    BY <2>4 DEF InEffect, Newest
<1> QED
  BY <1>2, <1>3 DEF Seen

\* A handler whose COMMIT is still ahead takes effect with that of p when p writes
\* its cell and has the greater id.
LEMMA CommitTakesEffect ==
    ASSUME Inv, NEW p \in Procs, Commit(p), NEW q \in Procs \ {p}
    PROVE  /\ CellOf(q)' = CellOf(q)
           /\ TookEffect(q)' <=> \/ TookEffect(q)
                                 \/ pc[q] = "commit" /\ CellOf(q) = CellOf(p) /\ rid[p] > rid[q]
<1>1. pc'[q] = pc[q] /\ UNCHANGED <<req, rid>>
  BY CommitAdds
<1>2. CellOf(q)' = CellOf(q)
  BY <1>1 DEF CellOf
<1>3. CASE pc[q] = "commit"
  <2>1. LiveRequest(q)
    BY <1>3 DEF Inv, HandlersInv, InFlight
  <2>2. req[q].table = "release" => req[q].doc.payload.slot \in Channel
    BY <2>1 DEF LiveRequest, Genuine, Row, SlotOf
  <2>3. CellOf(q) \in Cell
    BY <2>1, <2>2, CellExists DEF LiveRequest, CellOf
  <2>4. Ids(CellOf(q)[1], CellOf(q)[2])' =
          IF CellOf(q) = CellOf(p) THEN Ids(CellOf(q)[1], CellOf(q)[2]) \cup {rid[p]}
          ELSE Ids(CellOf(q)[1], CellOf(q)[2])
    BY <1>2, <2>3, CommitAdds
  <2> QED
    BY <1>1, <1>2, <1>3, <2>4 DEF TookEffect
<1>4. CASE pc[q] # "commit"
  BY <1>1, <1>2, <1>4 DEF TookEffect
<1> QED
  BY <1>2, <1>3, <1>4
\* A COMMIT of the greatest id of its cell writes it, and with it the smaller ids
\* still to be committed; a COMMIT below the greatest changes nothing.
LEMMA CommitWrites ==
    ASSUME Inv, NEW p \in Procs, Commit(p)
    PROVE  \/ \E overwritten \in SUBSET Procs : Atomic!Write(p, overwritten)
           \/ UNCHANGED <<Values, Calls, Seen, Told>>
<1> DEFINE cell == CellOf(p)
<1>1. /\ pc[p] = "commit" /\ pc'[p] = "refresh" /\ UNCHANGED <<req, rid>>
      /\ \A q \in Procs \ {p} : pc'[q] = pc[q]
      /\ cell \in Cell /\ rid[p] \notin DOMAIN rows[cell[1]]
      /\ rows'[cell[1]][rid[p]].doc = req[p].doc
      /\ \A i \in DOMAIN rows[cell[1]] : rows'[cell[1]][i] = rows[cell[1]][i]
  BY CommitAdds
<1>2. PICK c \in Cell : c = cell
  BY <1>1
<1>3. PICK ids : ids = Ids(c[1], c[2])
  OBVIOUS
<1>4. PICK id : id = rid[p]
  OBVIOUS
<1>5. Ids(c[1], c[2])' = ids \cup {id} /\ id \notin ids
  BY <1>1, <1>2, <1>3, <1>4, CommitAdds DEF Ids
<1>6. id \in Nat /\ \A i \in ids : i \in Nat
  <2>1. c[1] \in Table
    BY DEF Cell, Table
  <2>2. lastId[c[1]] \in Nat /\ \A i \in DOMAIN rows[c[1]] : i \in 1 .. lastId[c[1]]
    BY <2>1 DEF Inv, TypeInv, RowsInv
  <2> QED
    BY <1>3, <1>4, <2>2 DEF Ids, Inv, TypeInv
<1>7. Seen' = Seen /\ Told' = Told /\ \A d \in Cell \ {c} : InEffect(d)' = InEffect(d)
  BY <1>2, CommitKeepsOthers, ToldStays DEF Commit
<1>8. CellOf(p)' = c /\ CellOf(p) = c
  BY <1>1, <1>2 DEF CellOf
<1>9. TookEffect(p) <=> \E j \in ids : j > id
  BY <1>1, <1>3, <1>4, <1>8 DEF TookEffect
<1>10. CallOf(p)' = [stage |-> "done", cell |-> c, value |-> req[p].doc]
  BY <1>1, <1>8 DEF CallOf, TookEffect
<1>11. CallOf(p) = [stage |-> IF TookEffect(p) THEN "done" ELSE "called",
                    cell |-> c, value |-> req[p].doc]
  BY <1>1, <1>8 DEF CallOf
<1>12. CASE TookEffect(p)
  <2>1. PICK j \in ids : j > id
    BY <1>9, <1>12
  <2>2. \A q \in Procs \ {p} : TookEffect(q)' <=> TookEffect(q)
    <3> SUFFICES ASSUME NEW q \in Procs \ {p}, pc[q] = "commit", CellOf(q) = c, id > rid[q]
                 PROVE  TookEffect(q)
      BY <1>4, <1>8, CommitTakesEffect
    <3>1. rid[q] \in Nat /\ j \in Nat /\ j > rid[q]
      BY <1>6, <2>1 DEF Inv, TypeInv
    <3> QED
      BY <1>3, <2>1, <3>1 DEF TookEffect
  <2>3. \A q \in Procs : CallOf(q)' = CallOf(q)
    <3> SUFFICES ASSUME NEW q \in Procs, q # p PROVE CallOf(q)' = CallOf(q)
      BY <1>10, <1>11, <1>12
    <3>1. CellOf(q)' = CellOf(q) /\ pc'[q] = pc[q] /\ req' = req
      BY <1>1, CommitTakesEffect
    <3> QED
      BY <2>2, <3>1 DEF CallOf
  <2>4. Newest(c)' = Newest(c)
    <3>1. Newest(c)' = {i \in ids \cup {id} : \A k \in ids \cup {id} : k <= i}
      BY <1>5 DEF Newest
    <3>2. Newest(c) = {i \in ids : \A k \in ids : k <= i}
      BY <1>3 DEF Newest
    <3>3. \A i : i \in Newest(c)' <=> i \in Newest(c)
      BY <1>6, <2>1, <3>1, <3>2
    <3> QED
      BY <3>3
  <2>5. {rows'[c[1]][i].doc : i \in Newest(c)'} = {rows[c[1]][i].doc : i \in Newest(c)}
    <3>1. \A i \in Newest(c) : rows'[c[1]][i] = rows[c[1]][i]
      BY <1>1, <1>2 DEF Newest, Ids
    <3> QED
      BY <2>4, <3>1
  <2>6. InEffect(c)' = InEffect(c)
    BY <2>5 DEF InEffect, Newest
  <2>7. Values' = Values
    BY <1>7, <2>6 DEF Values
  <2>8. Calls' = Calls
    BY <2>3 DEF Calls
  <2> QED
    BY <1>7, <2>7, <2>8
<1>13. CASE ~TookEffect(p)
  <2> DEFINE hidden == {q \in Procs \ {p} : /\ pc[q] = "commit" /\ CellOf(q) = c
                                            /\ id > rid[q] /\ ~TookEffect(q)}
  <2>1. \A j \in ids : j < id
    BY <1>5, <1>6, <1>9, <1>13
  <2>2. Newest(c)' = {id}
    <3>1. Newest(c)' = {i \in ids \cup {id} : \A k \in ids \cup {id} : k <= i}
      BY <1>5 DEF Newest
    <3> QED
      BY <1>6, <2>1, <3>1
  <2>3. InEffect(c)' = req[p].doc
    <3>1. {rows'[c[1]][i].doc : i \in Newest(c)'} = {req[p].doc}
      BY <1>1, <1>2, <1>4, <2>2
    <3> QED
      BY <3>1 DEF InEffect, Newest
  <2>4. Values' = [Values EXCEPT ![c] = req[p].doc]
    BY <1>7, <2>3 DEF Values
  <2>5. \A q \in Procs \ {p} : TookEffect(q)' <=> TookEffect(q) \/ q \in hidden
    BY <1>4, <1>8, CommitTakesEffect
  <2>6. \A q \in Procs \ {p} : ~(q \in hidden) => CallOf(q)' = CallOf(q)
    <3> SUFFICES ASSUME NEW q \in Procs \ {p}, q \notin hidden
                 PROVE  CallOf(q)' = CallOf(q)
      OBVIOUS
    <3>1. CellOf(q)' = CellOf(q) /\ pc'[q] = pc[q] /\ req' = req
      BY <1>1, CommitTakesEffect
    <3> QED
      BY <2>5, <3>1 DEF CallOf
  <2>7. \A q \in hidden : /\ CallOf(q) = [stage |-> "called", cell |-> c, value |-> req[q].doc]
                          /\ CallOf(q)' = [stage |-> "done", cell |-> c, value |-> req[q].doc]
    <3> SUFFICES ASSUME NEW q \in hidden
                 PROVE  /\ CallOf(q) = [stage |-> "called", cell |-> c, value |-> req[q].doc]
                        /\ CallOf(q)' = [stage |-> "done", cell |-> c, value |-> req[q].doc]
      OBVIOUS
    <3>1. CellOf(q)' = c /\ CellOf(q) = c /\ pc[q] = "commit" /\ pc'[q] = "commit" /\ req' = req
      BY <1>1, CommitTakesEffect
    <3>2. TookEffect(q)' /\ ~TookEffect(q)
      BY <2>5
    <3> QED
      BY <3>1, <3>2 DEF CallOf
  <2>8. CallOf(p) = [stage |-> "called", cell |-> c, value |-> req[p].doc]
    BY <1>11, <1>13
  <2>9. hidden \in SUBSET Procs /\ p \notin hidden
    OBVIOUS
  <2> HIDE DEF hidden
  <2>10. \A q \in Procs : Calls[q] = CallOf(q) /\ Calls'[q] = CallOf(q)'
    BY DEF Calls
  <2>11. \A q \in hidden \cup {p} : Calls'[q] = [Calls[q] EXCEPT !.stage = "done"]
    BY <1>10, <2>7, <2>8, <2>9, <2>10
  <2>12. \A q \in Procs : q \notin hidden \cup {p} => Calls'[q] = Calls[q]
    BY <2>6, <2>10
  <2>13. Calls' = [q \in Procs |-> IF q \in hidden \cup {p}
                                   THEN [Calls[q] EXCEPT !.stage = "done"] ELSE Calls[q]]
    BY <2>11, <2>12 DEF Calls
  <2>14. \A q \in hidden \cup {p} : Calls[q].stage = "called" /\ Calls[q].cell = c
    BY <2>7, <2>8, <2>9, <2>10
  <2>15. Calls[p].cell = c /\ Calls[p].value = req[p].doc
    BY <2>8, <2>10
  <2>16. Atomic!Write(p, hidden)
    BY <1>7, <2>4, <2>13, <2>14, <2>15 DEF Atomic!Write, Calls, Values, Seen, Told
  <2> QED
    BY <2>9, <2>16
<1> QED
  BY <1>12, <1>13

\* Both authorities are atomic registers, one per channel and one per customer,
\* although the id is given at the INSERT and rows become visible in the order of
\* their COMMITs: store_release_manifest and store_license_token, with the
\* latest-row queries of models.py, lose no write and reorder none, and an upload
\* is answered accepted = true (releases.py l.107) only once it took effect.
THEOREM UploadsAreAtomic == Spec => ImplementsRegister
<1>1. Init => Atomic!Init
  <2> SUFFICES ASSUME Init PROVE Atomic!Init
    OBVIOUS
  <2>1. \A p \in Procs : CallOf(p) = [stage |-> "none"]
    BY DEF Init, CallOf
  <2>2. \A c \in Cell : c[1] \in Table /\ c[2] \in Slot
    BY DEF Cell, Table, Slot
  <2>3. \A c \in Cell : LastSeen(c) = NoRequest
    BY <2>2 DEF Init, LastSeen
  <2>4. \A c \in Cell : InEffect(c) = NoRequest
    <3> SUFFICES ASSUME NEW c \in Cell PROVE InEffect(c) = NoRequest
      OBVIOUS
    <3>1. Ids(c[1], c[2]) = {}
      BY <2>2 DEF Init, Ids, NoRows
    <3> QED
      BY <3>1 DEF InEffect
  <2>5. \A c \in Cell : Cardinality(Acknowledged(c)) = 0
    BY FS_EmptySet DEF Init, Acknowledged
  <2> QED
    BY <2>1, <2>3, <2>4, <2>5 DEF Atomic!Init, Atomic!NoCall
<1>2. ASSUME Inv, AckInv, [Next]_vars
      PROVE  Atomic!Next \/ UNCHANGED <<Values, Calls, Seen, Told>>
  <2>1. ASSUME NEW p \in Procs, NEW t \in Table, NEW doc \in Submitted, Accept(p, t, doc)
        PROVE  Atomic!Next
    BY <1>2, <2>1, AcceptBegins DEF Atomic!Next
  <2>2. ASSUME NEW p \in Procs, Insert(p)
        PROVE  UNCHANGED <<Values, Calls, Seen, Told>>
    BY <1>2, <2>2, InsertStutters
  <2>3. ASSUME NEW p \in Procs, Commit(p)
        PROVE  Atomic!Next \/ UNCHANGED <<Values, Calls, Seen, Told>>
    BY <1>2, <2>3, CommitWrites DEF Atomic!Next
  <2>4. ASSUME NEW p \in Procs, Answer(p)
        PROVE  Atomic!Next
    BY <1>2, <2>4, AnswerReturns DEF Atomic!Next
  <2>5. ASSUME NEW p \in Procs, Fail(p)
        PROVE  Atomic!Next
    BY <1>2, <2>5, FailAborts DEF Atomic!Next
  <2>6. ASSUME NEW t \in Table, NEW s \in Slot, Get(t, s)
        PROVE  Atomic!Next \/ UNCHANGED <<Values, Calls, Seen, Told>>
    BY <1>2, <2>6, GetReads DEF Atomic!Next
  <2>7. ASSUME NEW d \in Deployments, Redeploy(d)
        PROVE  Atomic!Next
    BY <1>2, <2>7, RedeployAborts DEF Atomic!Next
  <2>8. CASE \/ UNCHANGED vars \/ Tick
             \/ \E t \in Table, doc \in Submitted : Refuse(t, doc)
    <3>1. UNCHANGED <<rows, pc, req, rid, served, accepted>>
      BY <2>8 DEF vars, handlerVars, Tick, Refuse
    <3>2. Calls' = Calls
      BY <3>1, CallStays DEF Calls
    <3> QED
      BY <3>1, <3>2, RowsStay, ToldStays
  <2> QED
    BY <1>2, <2>1, <2>2, <2>3, <2>4, <2>5, <2>6, <2>7, <2>8 DEF Next
<1>3. UNCHANGED <<Values, Calls, Seen, Told>> => UNCHANGED Atomic!vars
  BY DEF Atomic!vars, Values, Calls, Seen, Told
<1>4. Inv /\ AckInv /\ [Next]_vars => [Atomic!Next]_Atomic!vars
  BY <1>2, <1>3
<1> QED
  BY <1>1, <1>4, InvHolds, AckHolds, PTL DEF Spec, ImplementsRegister, Atomic!Spec
=============================================================================
