------------------------------- MODULE Intake -------------------------------
(***************************************************************************)
(* The intake routes (app/routers/diagnostics.py) and /license/verify up   *)
(* to the first await of each: the bearer check, the budgets of the        *)
(* limiter, the tier a licence token proves, and the report handed to      *)
(* create_or_dedupe (TicketStore takes it from there).  Nothing awaits in  *)
(* between, so each request is one step.  The body was validated before.   *)
(***************************************************************************)
EXTENDS RateLimiter, Signing, FiniteSets

CONSTANTS
    Ip, Install,   \* callers' addresses and install ids
    NoInstall,     \* install_id absent or empty
    Bearer,        \* tokens a caller may present
    License,       \* licence tokens a report may carry
    NoLicense,     \* license_token absent or empty
    Tier,          \* the tiers a token may name
    Deployments,   \* what the environment may configure
    MaxReports     \* bound: reports one process is given

Never == 0         \* expires_at absent or null

\* The buckets in use: "web:{ip}", "email:{ip}", "license-verify:{ip}", "fwd:ip:{ip}"
\* and "fwd:install:{install_id or ip}".
ASSUME IntakeAssumption ==
    /\ IpKey \subseteq {"web", "email", "verify", "forward"} \X Ip
    /\ InstallKey = {"install"} \X (Install \cup Ip)
    /\ NoInstall \notin Install
    /\ NoLicense \notin License
    /\ License \subseteq Document
    /\ "associate" \in Tier /\ "" \notin Tier
    /\ Payload \subseteq [tier : Tier \cup {""}, expires : Nat]
    /\ \A d \in Deployments :
          /\ d.forward \subseteq Bearer /\ d.email \subseteq Bearer
          /\ IsSettings(d.license)
    /\ MaxReports \in Nat

VARIABLES
    env,     \* the settings of the running process: a deployment
    handed   \* history: the reports this process gave to create_or_dedupe

limiterVars == vars
intakeVars == <<limiterVars, env, handed>>

IntakeInit ==
    /\ Init
    /\ env \in Deployments
    /\ handed = {}

-----------------------------------------------------------------------------
(* The verified tier *)

\* _verify_token; the tier of an expired token is still reported.
VerifyToken(license) ==
    IF ~Verifies(license, FromSettings(env.license)) THEN [valid |-> FALSE, tier |-> ""]
    ELSE [valid |-> license.payload.expires = Never \/ license.payload.expires >= clock,
          tier |-> license.payload.tier]

Valid(license) == license # NoLicense /\ VerifyToken(license).valid

\* Mutations of TierOf: an expired token counts; a token without a tier gives none.
TierOf_Expired(license) ==
    IF license # NoLicense /\ VerifyToken(license).tier # "" THEN VerifyToken(license).tier
    ELSE "associate"
TierOf_Empty(license) == IF Valid(license) THEN VerifyToken(license).tier ELSE "associate"

\* verified_tier: what a valid token names, else the floor.
TierOf(license) ==
    IF Valid(license) /\ VerifyToken(license).tier # "" THEN VerifyToken(license).tier
    ELSE "associate"

\* license_id_hash, a SHA-256 taken to be injective: it stands for the token.
ProofOf(license) == IF Valid(license) THEN license ELSE NoLicense

-----------------------------------------------------------------------------
(* The routes *)

\* The report that took the last slots of buckets ip and k (k = ip on routes with one
\* bucket).  Its source is the route: ip[1].
Report(ip, k, license) ==
    [ip |-> ip, ipSlot |-> Len(log'[ip]), key |-> k, slot |-> Len(log'[k]), at |-> clock,
     license |-> license, tier |-> TierOf(license), proof |-> ProofOf(license)]

\* Mutation of HandOver: the 429 is not raised.
HandOver_Always(ok, report) ==
    /\ Cardinality(handed) < MaxReports
    /\ handed' = handed \cup {report}

\* The route goes on to the store, or has answered 429.
HandOver(ok, report) ==
    /\ Cardinality(handed) < MaxReports
    /\ handed' = IF ok THEN handed \cup {report} ELSE handed

\* The bucket of an install; without an id, the address stands for it.
InstallBucket(ip, install) == <<"install", IF install = NoInstall THEN ip ELSE install>>

\* Mutation of ReceiveForwarded: the budget is spent before the bearer is checked.
ReceiveForwarded_BudgetFirst(ip, install, bearer, license) ==
    LET k == <<"forward", ip>>
        i == InstallBucket(ip, install)
    IN  /\ k \in IpKey
        /\ \E ok \in BOOLEAN :
              /\ Forward(k, i, ok)
              /\ HandOver(ok /\ bearer \in env.forward, Report(k, i, license))
        /\ UNCHANGED env

\* POST /forward.  With no token configured (503) or another one (401) nothing happens.
ReceiveForwarded(ip, install, bearer, license) ==
    LET k == <<"forward", ip>>
        i == InstallBucket(ip, install)
    IN  /\ k \in IpKey
        /\ bearer \in env.forward
        /\ \E ok \in BOOLEAN : Forward(k, i, ok) /\ HandOver(ok, Report(k, i, license))
        /\ UNCHANGED env

\* POST /web: anonymous.
ReceiveWeb(ip) ==
    LET k == <<"web", ip>>
    IN  /\ k \in IpKey
        /\ \E ok \in BOOLEAN : Check(k, ok) /\ HandOver(ok, Report(k, k, NoLicense))
        /\ UNCHANGED env

\* POST /email: the mail-forwarding worker, by its secret.
ReceiveEmail(ip, bearer) ==
    LET k == <<"email", ip>>
    IN  /\ k \in IpKey
        /\ bearer \in env.email
        /\ \E ok \in BOOLEAN : Check(k, ok) /\ HandOver(ok, Report(k, k, NoLicense))
        /\ UNCHANGED env

\* POST /license/verify: a budget, and an answer that leaves nothing behind.
VerifyLicense(ip) ==
    /\ <<"verify", ip>> \in IpKey
    /\ \E ok \in BOOLEAN : Check(<<"verify", ip>>, ok)
    /\ UNCHANGED <<env, handed>>

Pass == Tick /\ UNCHANGED <<env, handed>>

\* Another process, with settings read anew.
Redeploy(deployment) ==
    /\ Restart
    /\ env' = deployment
    /\ handed' = {}

IntakeNext ==
    \/ \E ip \in Ip, x \in Install \cup {NoInstall}, b \in Bearer, l \in License \cup {NoLicense} :
          ReceiveForwarded(ip, x, b, l)
    \/ \E ip \in Ip : ReceiveWeb(ip) \/ VerifyLicense(ip)
    \/ \E ip \in Ip, b \in Bearer : ReceiveEmail(ip, b)
    \/ \E d \in Deployments : Redeploy(d)
    \/ Pass

IntakeSpec == IntakeInit /\ [][IntakeNext]_intakeVars

-----------------------------------------------------------------------------
(* Properties *)

\* The buckets whose every slot is a report; an IP slot of /forward may be lost to a
\* full install bucket, and /license/verify makes no report.
ReportKey == InstallKey \cup {k \in IpKey : k[1] \in {"web", "email"}}

\* Types of the settings and of the reports.
ReportsTyped ==
    /\ env \in Deployments
    /\ handed \subseteq [ip : IpKey, ipSlot : Nat, key : Key, slot : Nat, at : Nat,
                         license : License \cup {NoLicense}, tier : Tier,
                         proof : License \cup {NoLicense}]

\* Types; no bucket is over its limit, and every report has a tier (diagnostics.py
\* l.146 `or "associate"`).
IntakeTypeOK == TypeOK /\ ReportsTyped

\* Slots and reports correspond: a report has taken one slot of its IP and one of its
\* install (or the one slot of a route with one bucket), at its own time, no slot serves
\* two reports, and no slot of a report's bucket is spent by a request that came to
\* nothing: not by a caller without the bearer token (diagnostics.py l.102), not for a
\* full IP (l.116-119).
SlotsAreReports ==
    /\ \A r \in handed :
          /\ r.ipSlot \in 1 .. Len(log[r.ip]) /\ log[r.ip][r.ipSlot] = r.at
          /\ r.slot \in 1 .. Len(log[r.key]) /\ log[r.key][r.slot] = r.at
          /\ r.key \in InstallKey \/ (r.key = r.ip /\ r.slot = r.ipSlot)
    /\ \A r, q \in handed :
          (r.ip = q.ip /\ r.ipSlot = q.ipSlot) \/ (r.key = q.key /\ r.slot = q.slot) => r = q
    /\ \A k \in ReportKey : \A i \in 1 .. Len(log[k]) :
          \E r \in handed : r.key = k /\ r.slot = i

\* The promise of the intake (diagnostics.py l.100, l.226): in any closed window of
\* Window seconds, wherever it starts, at most Limit reports of one bucket reach the
\* store, counted by IP and by install.
WithinBudget ==
    \A k \in Key : \A t \in 0 .. clock :
        Cardinality({r \in handed : k \in {r.ip, r.key} /\ r.at \in t .. t + Window}) <= Limit[k]

\* The token proves its tier at that instant: the key it names is trusted by the
\* settings, made the signature, over these claims, and they are not expired.
Proves(l, at) ==
    /\ l # NoLicense
    /\ l.signature # NoSignature
    /\ l.signature.alg = "ed25519"
    /\ l.signature.by = l.signature.key_id
    /\ l.signature.over = l.payload
    /\ \E e \in FromSettings(env.license) : e.key = l.signature.key_id /\ e.status \in Trusted
    /\ l.payload.expires # Never => l.payload.expires >= at

\* diagnostics.py l.135-137: a report weighs more than the floor if and only if it came
\* by /forward with a token that proves just that tier under the settings of the
\* process that serves it, and a report refers to a licence only when it was proven.
TierIsProven ==
    \A r \in handed :
        /\ Proves(r.license, r.at) =>
              /\ r.proof = r.license
              /\ r.tier = IF r.license.payload.tier = "" THEN "associate"
                         ELSE r.license.payload.tier
        /\ ~Proves(r.license, r.at) => r.proof = NoLicense /\ r.tier = "associate"
        /\ r.tier # "associate" => r.ip[1] = "forward"
=============================================================================
