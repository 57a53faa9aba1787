--------------------------- MODULE SignedUploads ---------------------------
(***************************************************************************)
(* The two authorities that take documents signed offline: POST            *)
(* /releases/upload with GET /releases/manifest/{channel}, and POST        *)
(* /license/register with GET /license/registered/{customer_ref}.  Both    *)
(* verify against the trust store of the running process, append one row   *)
(* and serve the row with the greatest id.  Everything up to the first     *)
(* await is one step; the INSERT, the COMMIT and the refresh are others.   *)
(***************************************************************************)
EXTENDS Signing, FiniteSets

CONSTANTS
    Procs,         \* handlers running at the same time
    Backend,       \* "sqlite" (one writer at a time) or "postgres"
    Channel,       \* CHANNELS
    Customer,      \* values of customer_ref
    NoCustomer,    \* customer_ref when the payload has none: ""
    Submitted,     \* the documents that are uploaded
    Deployments,   \* what the environment may configure: SIGNING_* and LICENSE_* settings
    MaxUploads,    \* bound: requests
    MaxClock       \* bound: last instant

Table == {"release", "license"}
Slot == Channel \cup Customer \cup {NoCustomer}
Never == 0         \* expires_at absent or null

ASSUME UploadsAssumption ==
    /\ Backend \in {"sqlite", "postgres"}
    /\ Payload \subseteq [kind : Table, slot : Channel \cup Customer, version : Nat,
                          expires : Nat]
    /\ \A d \in Payload : d.slot \in Channel <=> d.kind = "release"
    /\ Submitted \subseteq Document
    /\ \A d \in Deployments : DOMAIN d = Table /\ \A k \in Table : IsSettings(d[k])
    /\ MaxUploads \in Nat /\ MaxClock \in Nat

VARIABLES
    env,       \* the settings the running process has read: a deployment
    clock,     \* time.time()
    rows,      \* release_manifests and license_tokens: committed rows by id
    lastId,    \* the last id each table gave to an INSERT
    pc,        \* idle, insert, commit, refresh
    req,       \* the request a handler serves (with history: since, under, when)
    rid,       \* the id its INSERT was given
    uploads,   \* number of requests so far
    accepted,  \* history: the uploads answered with accepted = true
    served     \* history: the id the last GET of a slot returned; 0: 404

handlerVars == <<pc, req, rid>>
vars == <<env, clock, rows, lastId, handlerVars, uploads, accepted, served>>

NoRequest == [table |-> "none"]
NoRows == [i \in {} |-> NoRequest]

Init ==
    /\ env \in Deployments
    /\ clock = 1
    /\ rows = [t \in Table |-> NoRows]
    /\ lastId = [t \in Table |-> 0]
    /\ pc = [p \in Procs |-> "idle"]
    /\ req = [p \in Procs |-> NoRequest]
    /\ rid = [p \in Procs |-> 0]
    /\ uploads = 0
    /\ accepted = {}
    /\ served = [t \in Table |-> [s \in Slot |-> 0]]

-----------------------------------------------------------------------------
(* The checks and the queries *)

\* The channel of a manifest; the customer_ref of a token ("" when it has none).
SlotOf(t, payload) ==
    IF t = "license" /\ payload.kind = "release" THEN NoCustomer ELSE payload.slot

\* int(expires_at) < int(time.time()).
Expired(payload, now) ==
    payload.kind = "license" /\ payload.expires # Never /\ payload.expires < now

\* _trust_store() of releases.py and of licensing.py.
Trust(t) == FromSettings(env[t])

\* upload_manifest's checks; register_license's.
Passes(t, doc) ==
    /\ t = "release" => doc.payload.slot \in Channel
    /\ Verifies(doc, Trust(t))
    /\ t = "license" => ~Expired(doc.payload, clock)

\* Mutation of Ids: the queries forget their filter.
Ids_EverySlot(t, s) == {i \in DOMAIN rows[t] : s \in Slot}

Ids(t, s) == {i \in DOMAIN rows[t] : rows[t][i].slot = s}

\* Mutation of IsLatest: the greatest version, whenever it was uploaded.
IsLatest_ByVersion(t, s, i) ==
    /\ i \in Ids(t, s)
    /\ \A j \in Ids(t, s) : rows[t][j].doc.payload.version <= rows[t][i].doc.payload.version

\* latest_release_manifest, latest_license_token_for: order by id desc, limit 1.
IsLatest(t, s, i) ==
    /\ i \in Ids(t, s)
    /\ \A j \in Ids(t, s) : j <= i

Row(r) == [slot |-> SlotOf(r.table, r.doc.payload), doc |-> r.doc,
           key_id |-> r.doc.signature.key_id, expires |-> r.doc.payload.expires,
           under |-> r.under, when |-> r.when]

-----------------------------------------------------------------------------
(* The handlers *)

Idle(p) ==
    /\ pc' = [pc EXCEPT ![p] = "idle"]
    /\ req' = [req EXCEPT ![p] = NoRequest]
    /\ rid' = [rid EXCEPT ![p] = 0]

\* A document that fails a check is answered 400 and changes nothing.
Refuse(t, doc) ==
    /\ uploads < MaxUploads
    /\ ~Passes(t, doc)
    /\ uploads' = uploads + 1
    /\ UNCHANGED <<env, clock, rows, lastId, handlerVars, accepted, served>>

\* upload_manifest, register_license up to session.commit().
Accept(p, t, doc) ==
    /\ pc[p] = "idle" /\ uploads < MaxUploads
    /\ Passes(t, doc)
    /\ uploads' = uploads + 1
    /\ pc' = [pc EXCEPT ![p] = "insert"]
    /\ req' = [req EXCEPT ![p] = [table |-> t, doc |-> doc, under |-> env[t],
                                  when |-> clock, since |-> accepted]]
    /\ UNCHANGED <<env, clock, rows, lastId, rid, accepted, served>>

\* The flush: SQLite lets one transaction write at a time.
Insert(p) ==
    /\ pc[p] = "insert"
    /\ Backend = "sqlite" => \A q \in Procs : pc[q] # "commit"
    /\ lastId' = [lastId EXCEPT ![req[p].table] = @ + 1]
    /\ rid' = [rid EXCEPT ![p] = lastId'[req[p].table]]
    /\ pc' = [pc EXCEPT ![p] = "commit"]
    /\ UNCHANGED <<env, clock, rows, req, uploads, accepted, served>>

Commit(p) ==
    /\ pc[p] = "commit"
    /\ rows' = [rows EXCEPT ![req[p].table] =
                    [i \in DOMAIN @ \cup {rid[p]} |-> IF i = rid[p] THEN Row(req[p]) ELSE @[i]]]
    /\ pc' = [pc EXCEPT ![p] = "refresh"]
    /\ UNCHANGED <<env, clock, lastId, req, rid, uploads, accepted, served>>

\* The upload of handler p, and the ids of its slot accepted before it was sent.
Receipt(p) ==
    LET t == req[p].table
        s == SlotOf(t, req[p].doc.payload)
    IN  [table |-> t, slot |-> s, id |-> rid[p],
         after |-> {a.id : a \in {b \in req[p].since : b.table = t /\ b.slot = s}}]

\* session.refresh and the answer, accepted = true.
Answer(p) ==
    /\ pc[p] = "refresh"
    /\ accepted' = accepted \cup {Receipt(p)}
    /\ Idle(p)
    /\ UNCHANGED <<env, clock, rows, lastId, uploads, served>>

\* Mutation of Fail: a COMMIT that fails is reported as accepted.
Fail_Accepts(p) ==
    /\ pc[p] # "idle"
    /\ accepted' = IF pc[p] = "commit" THEN accepted \cup {Receipt(p)} ELSE accepted
    /\ Idle(p)
    /\ UNCHANGED <<env, clock, rows, lastId, uploads, served>>

\* A round trip raises (500): what was not committed is rolled back.  Postgres
\* never gives its id again; SQLite may, but nobody has seen it.
Fail(p) ==
    /\ pc[p] # "idle"
    /\ Idle(p)
    /\ UNCHANGED <<env, clock, rows, lastId, uploads, accepted, served>>

\* GET: the id of the row returned, nothing when there is none.
Get(t, s) ==
    /\ \E i \in DOMAIN rows[t] :
         /\ IsLatest(t, s, i)
         /\ served' = [served EXCEPT ![t][s] = i]
    /\ UNCHANGED <<env, clock, rows, lastId, handlerVars, uploads, accepted>>

\* Mutation of Redeploy: settings are reloaded while handlers run.
Redeploy_Live(deployment) ==
    /\ env' = deployment
    /\ UNCHANGED <<clock, rows, lastId, handlerVars, uploads, accepted, served>>

\* The process ends, whatever was in flight with it, and the next one reads its
\* settings, which may have rotated or revoked keys.
Redeploy(deployment) ==
    /\ env' = deployment
    /\ pc' = [p \in Procs |-> "idle"]
    /\ req' = [p \in Procs |-> NoRequest]
    /\ rid' = [p \in Procs |-> 0]
    /\ UNCHANGED <<clock, rows, lastId, uploads, accepted, served>>

Tick ==
    /\ clock < MaxClock
    /\ clock' = clock + 1
    /\ UNCHANGED <<env, rows, lastId, handlerVars, uploads, accepted, served>>

Next ==
    \/ \E t \in Table, doc \in Submitted : Refuse(t, doc)
    \/ \E p \in Procs, t \in Table, doc \in Submitted : Accept(p, t, doc)
    \/ \E p \in Procs : Insert(p) \/ Commit(p) \/ Answer(p) \/ Fail(p)
    \/ \E t \in Table, s \in Slot : Get(t, s)
    \/ \E d \in Deployments : Redeploy(d)
    \/ Tick

Spec == Init /\ [][Next]_vars

-----------------------------------------------------------------------------
(* Properties *)

\* The settings name k as a trusted key.
Vouches(settings, k) ==
    \/ settings.json = "list" /\ \E i \in DOMAIN settings.keys :
          settings.keys[i].key = k /\ settings.keys[i].status \in Trusted
    \/ settings.json = "unset" /\ \E i \in DOMAIN settings.single : settings.single[i] = k

\* Types; a handler past its INSERT holds an id of its own, not yet committed
\* before its COMMIT and stored after it.
TypeOK ==
    /\ env \in Deployments
    /\ clock \in Nat /\ uploads \in Nat
    /\ DOMAIN rows = Table /\ lastId \in [Table -> Nat]
    /\ \A t \in Table : \A i \in DOMAIN rows[t] : i \in 1 .. lastId[t]
    /\ pc \in [Procs -> {"idle", "insert", "commit", "refresh"}]
    /\ rid \in [Procs -> Nat]
    /\ \A p \in Procs :
         /\ pc[p] = "idle" => req[p] = NoRequest
         /\ pc[p] # "idle" => req[p].table \in Table /\ req[p].doc \in Submitted
         /\ pc[p] = "commit" => /\ rid[p] \in 1 .. lastId[req[p].table]
                                /\ rid[p] \notin DOMAIN rows[req[p].table]
         /\ pc[p] = "refresh" => rid[p] \in DOMAIN rows[req[p].table]

\* releases.py l.79-87, licensing.py l.146-151: every stored row holds a document
\* signed, over exactly this payload, by the key its key_id names, a key that the
\* settings in force at the check name as trusted, a token being unexpired then.
RowsAreGenuine ==
    \A t \in Table : \A i \in DOMAIN rows[t] :
        LET r == rows[t][i] IN
        /\ r.doc.signature # NoSignature
        /\ r.doc.signature.by = r.key_id
        /\ r.doc.signature.over = r.doc.payload
        /\ Vouches(r.under, r.key_id)
        /\ t = "release" => r.slot \in Channel
        /\ t = "license" => \/ r.doc.payload.expires = Never
                            \/ r.doc.payload.kind = "release"
                            \/ r.doc.payload.expires >= r.when

\* config.py l.21-25 "a key can be rotated or revoked by redeploying this one
\* value": once a store without the key, or with it revoked, is deployed, no row
\* signed by it is ever added, whatever was in flight before.
RevokedKeysStayOut ==
    [][\A t \in Table : \A i \in DOMAIN rows'[t] \ DOMAIN rows[t] :
           Trusts(Trust(t), rows'[t][i].key_id)]_vars

\* An accepted upload is stored for good, in its slot: neither a failing round
\* trip nor a redeployment takes it back, and rows are never rewritten
\* (models.py l.229 "Append-only").
AcceptedIsStored ==
    \A a \in accepted : a.id \in Ids(a.table, a.slot)

\* releases.py l.80 "store it as the latest manifest for its channel", l.64 "Serve
\* the latest", licensing.py l.203 "most recently registered": an upload sent
\* after another one of the slot was accepted is never hidden by it, whatever
\* version it carries and however its INSERT and COMMIT interleave with others.
LaterUploadWins ==
    \A a \in accepted : \A i \in a.after : ~IsLatest(a.table, a.slot, i)

\* A client that polls a channel (or an operator a customer) never sees it go
\* back to an earlier row, although COMMITs may land out of id order.
ReadsNeverGoBack ==
    [][\A t \in Table : \A s \in Slot : served'[t][s] >= served[t][s]]_vars

-----------------------------------------------------------------------------
(* The abstract register it implements *)

Cell == {<<"release", s>> : s \in Channel} \cup
        {<<"license", s>> : s \in Customer \cup {NoCustomer}}
CellOf(p) == <<req[p].table, SlotOf(req[p].table, req[p].doc.payload)>>

\* What GET would return of cell c now.
InEffect(c) ==
    LET ids == Ids(c[1], c[2])
        latest == {rows[c[1]][i].doc : i \in {j \in ids : \A k \in ids : k <= j}}
    IN  IF latest = {} THEN NoRequest ELSE CHOOSE d \in latest : TRUE

\* A write takes effect at its COMMIT or, when a row with a greater id was
\* committed first, together with that one, which hides it for good.
TookEffect(p) ==
    \/ pc[p] = "refresh"
    \/ pc[p] = "commit" /\ \E j \in Ids(CellOf(p)[1], CellOf(p)[2]) : j > rid[p]

CallOf(p) ==
    IF pc[p] = "idle" THEN [stage |-> "none"]
    ELSE [stage |-> IF TookEffect(p) THEN "done" ELSE "called",
          cell |-> CellOf(p), value |-> req[p].doc]

LastSeen(c) ==
    IF served[c[1]][c[2]] = 0 THEN NoRequest ELSE rows[c[1]][served[c[1]][c[2]]].doc

Acknowledged(c) == {a \in accepted : <<a.table, a.slot>> = c}

Atomic == INSTANCE Register WITH
    Client <- Procs, Value <- Submitted, None <- NoRequest,
    value <- [c \in Cell |-> InEffect(c)],
    call <- [p \in Procs |-> CallOf(p)],
    seen <- [c \in Cell |-> LastSeen(c)],
    told <- [c \in Cell |-> Cardinality(Acknowledged(c))]

\* releases.py l.80 "store it as the latest manifest for its channel", models.py
\* l.229-231 'GET serving "the latest" is a query, not a destructive write': a
\* channel, or a customer, is an atomic register.  Every upload that is answered
\* accepted = true (releases.py l.107) took effect, at one instant between its
\* request and that answer; one that fails may have taken effect, and is never
\* acknowledged; and every GET returns the upload that took effect last.
ImplementsRegister == Atomic!Spec
=============================================================================
