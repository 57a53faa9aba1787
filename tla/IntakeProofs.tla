---------------------------- MODULE IntakeProofs ----------------------------
(***************************************************************************)
(* The intake keeps to the limiter, hands over only paid reports, and      *)
(* gives them proven tiers, for any callers, settings, limits and window.  *)
(***************************************************************************)
EXTENDS Intake, RateLimiterProofs, FiniteSetTheorems, WellFoundedInduction

\* The routes are users of the limiter: what is proved of RateLimiter holds of them.
THEOREM UsesLimiter == IntakeSpec => Spec
<1>1. IntakeInit => Init
  BY DEF IntakeInit
<1>2. ASSUME [IntakeNext]_intakeVars
      PROVE  [Next]_vars
  <2>1. CASE UNCHANGED intakeVars
    BY <2>1 DEF intakeVars, limiterVars
  <2>2. ASSUME NEW ip \in Ip, NEW x \in Install \cup {NoInstall}, NEW b \in Bearer,
               NEW l \in License \cup {NoLicense}, ReceiveForwarded(ip, x, b, l)
        PROVE  Next
    <3>1. InstallBucket(ip, x) \in InstallKey
      BY IntakeAssumption DEF InstallBucket
    <3> QED
      BY <2>2, <3>1 DEF ReceiveForwarded, Next
  <2>3. ASSUME NEW ip \in Ip, ReceiveWeb(ip) \/ VerifyLicense(ip)
        PROVE  Next
    BY <2>3 DEF ReceiveWeb, VerifyLicense, Next
  <2>4. ASSUME NEW ip \in Ip, NEW b \in Bearer, ReceiveEmail(ip, b)
        PROVE  Next
    BY <2>4 DEF ReceiveEmail, Next
  <2>5. ASSUME NEW d \in Deployments, Redeploy(d)
        PROVE  Next
    BY <2>5 DEF Redeploy, Next
  <2>6. CASE Pass
    BY <2>6 DEF Pass, Next
  <2> QED
    BY <1>2, <2>1, <2>2, <2>3, <2>4, <2>5, <2>6 DEF IntakeNext
<1> QED
  BY <1>1, <1>2, PTL DEF IntakeSpec, Spec

\* Whatever the routes do between their checks, each bucket they charge is the exact
\* sliding window: no route spends a slot, or frees one, behind the limiter's back.
THEOREM IntakeIsExact == IntakeSpec => []WindowBound /\ ImplementsSlidingWindow
  BY UsesLimiter, BudgetHolds, LimiterIsExact, PTL

-----------------------------------------------------------------------------
(* What a request does to the log *)

\* The log of bucket k has one more slot, taken now.
Takes(k) == log'[k] = Append(log[k], clock)
Leaves(K) == \A k \in K : log'[k] = log[k]

LEMMA CheckLog ==
    ASSUME TypeOK, NEW k \in Key, NEW ok \in BOOLEAN, Check(k, ok)
    PROVE  /\ UNCHANGED clock
           /\ ok => Takes(k) /\ Leaves(Key \ {k})
           /\ ~ok => Leaves(Key)
  BY DEF TypeOK, Check, RateOk, Logged, Takes, Leaves

LEMMA ForwardLog ==
    ASSUME TypeOK, NEW ip \in IpKey, NEW inst \in InstallKey, NEW ok \in BOOLEAN,
           Forward(ip, inst, ok)
    PROVE  /\ UNCHANGED clock
           /\ ok => Takes(ip) /\ Takes(inst) /\ Leaves(Key \ {ip, inst})
           /\ ~ok => (Takes(ip) \/ Leaves({ip})) /\ Leaves(Key \ {ip})
<1>1. ip \in Key /\ inst \in Key /\ ip # inst
  BY LimiterAssumption DEF Key
<1>2. DOMAIN log = Key
  BY DEF TypeOK
<1>3. CASE ~ok /\ RateOk(ip, FALSE)
  <2>1. log' = [log EXCEPT ![ip] = Logged(ip, FALSE)] /\ UNCHANGED clock
    BY <1>3 DEF RateOk, Forward
  <2> QED
    BY <1>1, <1>2, <1>3, <2>1 DEF Logged, Leaves
<1>4. CASE BothAnswer(ip, inst, ok)
  <2>1. /\ log' = [log EXCEPT ![ip] = Logged(ip, TRUE), ![inst] = Logged(inst, ok)]
        /\ UNCHANGED clock
    BY <1>4 DEF BothAnswer, Forward
  <2>2. log'[ip] = Logged(ip, TRUE) /\ log'[inst] = Logged(inst, ok) /\ Leaves(Key \ {ip, inst})
    BY <1>1, <1>2, <2>1 DEF Leaves
  <2> QED
    BY <1>1, <2>1, <2>2 DEF Logged, Takes, Leaves
<1> QED
  BY <1>3, <1>4 DEF Forward

-----------------------------------------------------------------------------
(* Slots and reports *)

\* No slot of a report's bucket is taken: nothing changes for the reports.
LEMMA SlotsKept ==
    ASSUME TypeOK, ReportsTyped, SlotsAreReports, handed' = handed,
           NEW k \in Key, k \notin ReportKey, Takes(k) \/ Leaves({k}), Leaves(Key \ {k})
    PROVE  SlotsAreReports'
<1>1. \A j \in Key : /\ Len(log[j]) \in Nat /\ Len(log'[j]) \in Nat
                     /\ Len(log'[j]) >= Len(log[j])
                     /\ \A i \in 1 .. Len(log[j]) : log'[j][i] = log[j][i]
                     /\ j \in ReportKey => log'[j] = log[j]
  <2> TAKE j \in Key
  <2>1. log[j] \in Seq(Nat) /\ clock \in Nat
    BY DEF TypeOK, Times
  <2>2. CASE log'[j] = log[j]
    BY <2>1, <2>2
  <2>3. CASE j = k /\ Takes(k)
    BY <2>1, <2>3 DEF Takes
  <2> QED
    BY <2>2, <2>3 DEF Leaves
<1>2. ReportKey \subseteq Key /\ ReportKey' = ReportKey
  BY DEF ReportKey, Key
<1>3. \A r \in handed : r.ip \in Key /\ r.key \in Key
  BY DEF ReportsTyped, Key
<1>4. ASSUME NEW r \in handed
      PROVE  /\ r.ipSlot \in 1 .. Len(log'[r.ip]) /\ log'[r.ip][r.ipSlot] = r.at
             /\ r.slot \in 1 .. Len(log'[r.key]) /\ log'[r.key][r.slot] = r.at
             /\ r.key \in InstallKey \/ (r.key = r.ip /\ r.slot = r.ipSlot)
  <2>1. /\ r.ipSlot \in 1 .. Len(log[r.ip]) /\ log[r.ip][r.ipSlot] = r.at
        /\ r.slot \in 1 .. Len(log[r.key]) /\ log[r.key][r.slot] = r.at
    BY <1>4 DEF SlotsAreReports
  <2>2. r.ip \in Key /\ r.key \in Key
    BY <1>3, <1>4
  <2>3. r.key \in InstallKey \/ (r.key = r.ip /\ r.slot = r.ipSlot)
    BY <1>4 DEF SlotsAreReports
  <2>4. \A j \in Key : \A i \in 1 .. Len(log[j]) :
           i \in 1 .. Len(log'[j]) /\ log'[j][i] = log[j][i]
    BY <1>1
  <2> QED
    BY <2>1, <2>2, <2>3, <2>4
<1>5. \A j \in ReportKey : log'[j] = log[j]
  BY <1>1, <1>2
<1> QED
  BY <1>2, <1>4, <1>5 DEF SlotsAreReports

\* A report takes the next slots of its buckets.
LEMMA SlotsTaken ==
    ASSUME TypeOK, ReportsTyped, SlotsAreReports,
           NEW ip \in IpKey, NEW k \in Key, ip \in ReportKey => k = ip,
           k \in InstallKey \/ k = ip,
           Takes(ip), Takes(k), Leaves(Key \ {ip, k}), NEW license,
           handed' = handed \cup {Report(ip, k, license)}
    PROVE  SlotsAreReports'
<1> DEFINE new == Report(ip, k, license)
<1>1. /\ ip \in Key /\ clock \in Nat
      /\ \A j \in Key : log[j] \in Seq(Nat) /\ Len(log[j]) \in Nat
  BY DEF TypeOK, Times, Key
<1>2. /\ new.ip = ip /\ new.key = k /\ new.at = clock
      /\ new.ipSlot = Len(log[ip]) + 1 /\ new.slot = Len(log[k]) + 1
  BY <1>1 DEF Report, Takes
<1>3. \A j \in {ip, k} :
         /\ Len(log'[j]) = Len(log[j]) + 1 /\ log'[j][Len(log[j]) + 1] = clock
         /\ \A i \in 1 .. Len(log[j]) : log'[j][i] = log[j][i]
  <2> TAKE j \in {ip, k}
  <2>1. log'[j] = Append(log[j], clock) /\ log[j] \in Seq(Nat)
    BY <1>1 DEF Takes
  <2> QED
    BY <1>1, <2>1
<1>4. \A j \in Key : /\ Len(log'[j]) >= Len(log[j]) /\ Len(log'[j]) \in Nat
                     /\ \A i \in 1 .. Len(log[j]) : log'[j][i] = log[j][i]
  <2> TAKE j \in Key
  <2>1. CASE j \in {ip, k}
    <3>1. Len(log[j]) \in Nat
      BY <1>1
    <3> QED
      BY <1>3, <2>1, <3>1
  <2>2. CASE j \notin {ip, k}
    BY <1>1, <2>2 DEF Leaves
  <2> QED
    BY <2>1, <2>2
<1>5. \A r \in handed : r.ip \in Key /\ r.key \in Key
  BY DEF ReportsTyped, Key
<1>6. \A r \in handed : /\ r.ipSlot \in 1 .. Len(log[r.ip]) /\ log[r.ip][r.ipSlot] = r.at
                        /\ r.slot \in 1 .. Len(log[r.key]) /\ log[r.key][r.slot] = r.at
  BY DEF SlotsAreReports
<1>7. ASSUME NEW r \in handed'
      PROVE  /\ r.ipSlot \in 1 .. Len(log'[r.ip]) /\ log'[r.ip][r.ipSlot] = r.at
             /\ r.slot \in 1 .. Len(log'[r.key]) /\ log'[r.key][r.slot] = r.at
             /\ r.key \in InstallKey \/ (r.key = r.ip /\ r.slot = r.ipSlot)
  <2>1. CASE r \in handed
    <3>1. /\ r.ipSlot \in 1 .. Len(log[r.ip]) /\ log[r.ip][r.ipSlot] = r.at
          /\ r.slot \in 1 .. Len(log[r.key]) /\ log[r.key][r.slot] = r.at
      BY <1>6, <2>1
    <3>2. r.ip \in Key /\ r.key \in Key
      BY <1>5, <2>1
    <3>3. \A j \in Key : \A i \in 1 .. Len(log[j]) :
             i \in 1 .. Len(log'[j]) /\ log'[j][i] = log[j][i]
      BY <1>1, <1>4
    <3>4. r.key \in InstallKey \/ (r.key = r.ip /\ r.slot = r.ipSlot)
      BY <2>1 DEF SlotsAreReports
    <3> QED
      BY <3>1, <3>2, <3>3, <3>4
  <2>2. CASE r = new
    <3>1. /\ r.ipSlot \in 1 .. Len(log'[r.ip]) /\ log'[r.ip][r.ipSlot] = r.at
          /\ r.slot \in 1 .. Len(log'[r.key]) /\ log'[r.key][r.slot] = r.at
      <4> HIDE DEF new
      <4>1. \A j \in {ip, k} : /\ Len(log[j]) + 1 \in 1 .. Len(log'[j])
                               /\ log'[j][Len(log[j]) + 1] = clock
        BY <1>1, <1>3
      <4> QED
        BY <1>2, <2>2, <4>1
    <3>2. r.key \in InstallKey \/ (r.key = r.ip /\ r.slot = r.ipSlot)
      BY <1>2, <2>2
    <3> QED
      BY <3>1, <3>2
  <2> QED
    BY <1>7, <2>1, <2>2
<1>8. \A r \in handed : ~(r.ip = ip /\ r.ipSlot = new.ipSlot) /\ ~(r.key = k /\ r.slot = new.slot)
  BY <1>1, <1>2, <1>6
<1>9. \A r, q \in handed' :
         (r.ip = q.ip /\ r.ipSlot = q.ipSlot) \/ (r.key = q.key /\ r.slot = q.slot) => r = q
  <2>1. \A r, q \in handed :
           (r.ip = q.ip /\ r.ipSlot = q.ipSlot) \/ (r.key = q.key /\ r.slot = q.slot) => r = q
    BY DEF SlotsAreReports
  <2>2. handed' = handed \cup {new}
    OBVIOUS
  <2>3. new.ip = ip /\ new.key = k
    BY <1>2
  <2> HIDE DEF new
  <2> SUFFICES ASSUME NEW r \in handed', NEW q \in handed',
                      (r.ip = q.ip /\ r.ipSlot = q.ipSlot) \/ (r.key = q.key /\ r.slot = q.slot)
               PROVE  r = q
    OBVIOUS
  <2>4. CASE r \in handed /\ q \in handed
    BY <2>1, <2>4
  <2>5. CASE r = new /\ q \in handed
    BY <1>8, <2>3, <2>5
  <2>6. CASE r \in handed /\ q = new
    BY <1>8, <2>3, <2>6
  <2> QED
    BY <2>2, <2>4, <2>5, <2>6
<1>10. ASSUME NEW j \in ReportKey, NEW i \in 1 .. Len(log'[j])
       PROVE  \E r \in handed' : r.key = j /\ r.slot = i
  <2>1. j \in Key /\ (j = ip => j = k)
    BY DEF ReportKey, Key
  <2>2. CASE i \in 1 .. Len(log[j])
    BY <2>2 DEF SlotsAreReports
  <2>3. CASE i \notin 1 .. Len(log[j])
    <3>1. j = k
      BY <1>1, <2>1, <2>3 DEF Leaves
    <3>2. i = Len(log[k]) + 1
      BY <1>1, <1>3, <2>3, <3>1
    <3> QED
      BY <1>2, <3>1, <3>2
  <2> QED
    BY <2>2, <2>3
<1>11. ReportKey' = ReportKey
  BY DEF ReportKey
<1> QED
  BY <1>7, <1>9, <1>10, <1>11 DEF SlotsAreReports

-----------------------------------------------------------------------------
(* Types and tiers of what a route hands over *)

\* A token is valid for the route exactly when it proves its claims now.
LEMMA ValidProves ==
    ASSUME TypeOK, NEW l \in License \cup {NoLicense}
    PROVE  /\ Valid(l) <=> Proves(l, clock)
           /\ Valid(l) => VerifyToken(l).tier = l.payload.tier
<1>1. CASE l = NoLicense
  BY <1>1 DEF Valid, Proves
<1>2. CASE l # NoLicense
  <2>1. l.payload.expires \in Nat /\ clock \in Nat
    BY <1>2, IntakeAssumption DEF Document, TypeOK
  <2>2. CASE Verifies(l, FromSettings(env.license))
    <3> DEFINE unexpired == l.payload.expires = Never \/ l.payload.expires >= clock
    <3>1. Proves(l, clock) <=> unexpired
      BY <1>2, <2>1, <2>2 DEF Proves, Verifies, Trusts, unexpired
    <3>2. CASE unexpired
      <4>1. VerifyToken(l) = [valid |-> TRUE, tier |-> l.payload.tier]
        BY <2>2, <3>2 DEF VerifyToken
      <4> QED
        BY <1>2, <3>1, <3>2, <4>1 DEF Valid
    <3>3. CASE ~unexpired
      <4>1. VerifyToken(l) = [valid |-> FALSE, tier |-> l.payload.tier]
        BY <2>2, <3>3 DEF VerifyToken
      <4> QED
        BY <3>1, <3>3, <4>1 DEF Valid
    <3> QED
      BY <3>2, <3>3
  <2>3. CASE ~Verifies(l, FromSettings(env.license))
    BY <1>2, <2>3 DEF Valid, Proves, Verifies, Trusts, VerifyToken
  <2> QED
    BY <2>2, <2>3
<1> QED
  BY <1>1, <1>2

LEMMA NewReport ==
    ASSUME TypeOK, TypeOK', ReportsTyped, TierIsProven, UNCHANGED <<clock, env>>,
           NEW ip \in IpKey, NEW k \in Key, NEW l \in License \cup {NoLicense},
           l # NoLicense => ip[1] = "forward",
           handed' = handed \cup {Report(ip, k, l)}
    PROVE  ReportsTyped' /\ TierIsProven'
<1> DEFINE new == Report(ip, k, l)
<1>1. /\ new.ip = ip /\ new.license = l /\ new.at = clock
      /\ new.tier = TierOf(l) /\ new.proof = ProofOf(l)
  BY DEF Report
<1>2. TierOf(l) = IF Valid(l) /\ l.payload.tier # "" THEN l.payload.tier ELSE "associate"
  BY ValidProves DEF TierOf
<1>3. Valid(l) => l \in License /\ l.payload.tier \in Tier \cup {""}
  BY IntakeAssumption DEF Valid, Document
<1>4. TierOf(l) \in Tier
  BY <1>2, <1>3, IntakeAssumption
<1>5. Len(log'[ip]) \in Nat /\ Len(log'[k]) \in Nat /\ clock \in Nat /\ ip \in Key
  BY DEF TypeOK, Times, Key
<1>6. ProofOf(l) \in License \cup {NoLicense}
  BY DEF ProofOf
<1>7. ReportsTyped'
  BY <1>4, <1>5, <1>6 DEF ReportsTyped, Report
<1>8. /\ Proves(l, clock) => /\ ProofOf(l) = l
                             /\ TierOf(l) = IF l.payload.tier = "" THEN "associate"
                                            ELSE l.payload.tier
      /\ ~Proves(l, clock) => ProofOf(l) = NoLicense /\ TierOf(l) = "associate"
      /\ TierOf(l) # "associate" => ip[1] = "forward"
  BY <1>2, ValidProves DEF ProofOf, Valid
<1>9. \A m, at : Proves(m, at)' <=> Proves(m, at)
  BY DEF Proves
<1>10. handed' = handed \cup {new}
  OBVIOUS
<1> HIDE DEF new
<1>11. ASSUME NEW r \in handed'
       PROVE  /\ Proves(r.license, r.at) =>
                    /\ r.proof = r.license
                    /\ r.tier = IF r.license.payload.tier = "" THEN "associate"
                               ELSE r.license.payload.tier
              /\ ~Proves(r.license, r.at) => r.proof = NoLicense /\ r.tier = "associate"
              /\ r.tier # "associate" => r.ip[1] = "forward"
  <2>1. CASE r \in handed
    BY <2>1 DEF TierIsProven
  <2>2. CASE r = new
    BY <1>1, <1>8, <2>2
  <2> QED
    BY <1>10, <1>11, <2>1, <2>2
<1> QED
  BY <1>7, <1>9, <1>11 DEF TierIsProven

-----------------------------------------------------------------------------
(* The invariant *)

ReportInv == ReportsTyped /\ SlotsAreReports /\ TierIsProven

\* A request that is not handed over takes at most a slot no report is counted by.
LEMMA NoReport ==
    ASSUME TypeOK, ReportInv, UNCHANGED <<clock, env, handed>>,
           NEW k \in Key, k \notin ReportKey, Takes(k) \/ Leaves({k}), Leaves(Key \ {k})
    PROVE  ReportInv'
<1>1. SlotsAreReports'
  BY SlotsKept DEF ReportInv
<1>2. ReportsTyped' /\ TierIsProven'
  BY Zenon DEF ReportInv, ReportsTyped, TierIsProven, Proves
<1> QED
  BY <1>1, <1>2 DEF ReportInv

LEMMA Unchanged ==
    ASSUME ReportInv, UNCHANGED <<env, handed, log>>
    PROVE  ReportInv'
<1>1. SlotsAreReports'
  BY Zenon DEF ReportInv, SlotsAreReports, ReportKey
<1>2. ReportsTyped' /\ TierIsProven'
  BY Zenon DEF ReportInv, ReportsTyped, TierIsProven, Proves
<1> QED
  BY <1>1, <1>2 DEF ReportInv

LEMMA OneReport ==
    ASSUME TypeOK, TypeOK', ReportInv, UNCHANGED <<clock, env>>,
           NEW ip \in IpKey, NEW k \in Key, ip \in ReportKey => k = ip,
           k \in InstallKey \/ k = ip,
           Takes(ip), Takes(k), Leaves(Key \ {ip, k}),
           NEW l \in License \cup {NoLicense}, l # NoLicense => ip[1] = "forward",
           handed' = handed \cup {Report(ip, k, l)}
    PROVE  ReportInv'
  BY SlotsTaken, NewReport DEF ReportInv

\* /web and /email: one bucket, whose slot is the report.
LEMMA SingleBucket ==
    ASSUME TypeOK, TypeOK', ReportInv, UNCHANGED env, NEW k \in IpKey, k[1] \in {"web", "email"},
           NEW ok \in BOOLEAN, Check(k, ok), HandOver(ok, Report(k, k, NoLicense))
    PROVE  ReportInv'
<1>1. k \in Key /\ k \in ReportKey
  BY DEF Key, ReportKey
<1>2. /\ UNCHANGED clock
      /\ ok => Takes(k) /\ Leaves(Key \ {k})
      /\ ~ok => Leaves(Key)
  BY <1>1, CheckLog
<1>3. CASE ok
  <2>1. handed' = handed \cup {Report(k, k, NoLicense)} /\ Leaves(Key \ {k, k})
    BY <1>2, <1>3 DEF HandOver, Leaves
  <2> QED
    BY <1>1, <1>2, <1>3, <2>1, OneReport
<1>4. CASE ~ok
  <2>1. UNCHANGED <<env, handed, log>>
    BY <1>2, <1>4 DEF HandOver, Leaves, TypeOK
  <2> QED
    BY <2>1, Unchanged
<1> QED
  BY <1>3, <1>4

LEMMA ReportInvNext == TypeOK /\ TypeOK' /\ ReportInv /\ [IntakeNext]_intakeVars => ReportInv'
<1> SUFFICES ASSUME TypeOK, TypeOK', ReportInv, [IntakeNext]_intakeVars
             PROVE  ReportInv'
  OBVIOUS
<1>1. CASE UNCHANGED intakeVars
  BY <1>1, Unchanged DEF intakeVars, limiterVars, vars
<1>2. ASSUME NEW ip \in Ip, NEW x \in Install \cup {NoInstall}, NEW b \in Bearer,
             NEW l \in License \cup {NoLicense}, ReceiveForwarded(ip, x, b, l)
      PROVE  ReportInv'
  <2> DEFINE k == <<"forward", ip>>
             i == InstallBucket(ip, x)
  <2>1. k \in IpKey /\ i \in InstallKey /\ k[1] = "forward"
    BY <1>2, IntakeAssumption DEF ReceiveForwarded, InstallBucket
  <2>2. k \in Key /\ i \in Key /\ k \notin ReportKey
    BY <2>1, LimiterAssumption DEF Key, ReportKey
  <2>3. PICK ok \in BOOLEAN : Forward(k, i, ok) /\ HandOver(ok, Report(k, i, l)) /\ UNCHANGED env
    BY <1>2 DEF ReceiveForwarded
  <2> HIDE DEF k, i
  <2>4. /\ UNCHANGED clock
        /\ ok => Takes(k) /\ Takes(i) /\ Leaves(Key \ {k, i})
        /\ ~ok => (Takes(k) \/ Leaves({k})) /\ Leaves(Key \ {k})
    BY <2>1, <2>3, ForwardLog
  <2>5. CASE ok
    BY <2>1, <2>2, <2>3, <2>4, <2>5, OneReport DEF HandOver
  <2>6. CASE ~ok
    BY <2>2, <2>3, <2>4, <2>6, NoReport DEF HandOver
  <2> QED
    BY <2>5, <2>6
<1>3. ASSUME NEW ip \in Ip, ReceiveWeb(ip)
      PROVE  ReportInv'
  BY <1>3, SingleBucket DEF ReceiveWeb
<1>4. ASSUME NEW ip \in Ip, NEW b \in Bearer, ReceiveEmail(ip, b)
      PROVE  ReportInv'
  BY <1>4, SingleBucket DEF ReceiveEmail
<1>5. ASSUME NEW ip \in Ip, VerifyLicense(ip)
      PROVE  ReportInv'
  <2> DEFINE k == <<"verify", ip>>
  <2>1. k \in IpKey /\ k[1] = "verify"
    BY <1>5 DEF VerifyLicense
  <2>2. k \in Key /\ k \notin ReportKey
    BY <2>1, LimiterAssumption DEF Key, ReportKey
  <2>3. PICK ok \in BOOLEAN : Check(k, ok) /\ UNCHANGED <<env, handed>>
    BY <1>5 DEF VerifyLicense
  <2> HIDE DEF k
  <2>4. UNCHANGED clock /\ (Takes(k) \/ Leaves({k})) /\ Leaves(Key \ {k})
    BY <2>2, <2>3, CheckLog DEF Leaves
  <2> QED
    BY <2>2, <2>3, <2>4, NoReport
<1>6. ASSUME NEW d \in Deployments, Redeploy(d)
      PROVE  ReportInv'
  <2>1. handed' = {} /\ env' \in Deployments
    BY <1>6 DEF Redeploy
  <2>2. \A k \in Key : Len(log'[k]) = 0
    BY <1>6 DEF Redeploy, Restart
  <2>3. ReportKey' \subseteq Key
    BY DEF ReportKey, Key
  <2>4. SlotsAreReports'
    BY <2>1, <2>2, <2>3 DEF SlotsAreReports
  <2>5. ReportsTyped'
    BY <2>1 DEF ReportsTyped
  <2>6. TierIsProven'
    BY <2>1 DEF TierIsProven
  <2> QED
    BY <2>4, <2>5, <2>6 DEF ReportInv
<1>7. CASE Pass
  BY <1>7, Unchanged DEF Pass, Tick
<1> QED
  BY <1>1, <1>2, <1>3, <1>4, <1>5, <1>6, <1>7 DEF IntakeNext

LEMMA ReportInvHolds == IntakeSpec => [](TypeOK /\ ReportInv)
<1>1. IntakeInit => ReportInv
  <2> SUFFICES ASSUME IntakeInit
               PROVE  ReportInv
    OBVIOUS
  <2>1. handed = {} /\ env \in Deployments /\ ReportKey \subseteq Key
    BY DEF IntakeInit, ReportKey, Key
  <2>2. \A k \in Key : Len(log[k]) = 0
    BY DEF IntakeInit, Init
  <2> QED
    BY <2>1, <2>2 DEF ReportInv, ReportsTyped, SlotsAreReports, TierIsProven
<1> QED
  BY <1>1, ReportInvNext, UsesLimiter, LimiterTypeCorrect, PTL DEF IntakeSpec

\* Types; every report that reaches the store has a tier.
THEOREM IntakeTypeCorrect == IntakeSpec => []IntakeTypeOK
<1>1. TypeOK /\ ReportInv => IntakeTypeOK
  BY DEF ReportInv, IntakeTypeOK
<1> QED
  BY <1>1, ReportInvHolds, PTL

\* Every report was paid for, and no caller without a bearer token, nor one whose
\* address is over its budget, spends a slot of an install.
THEOREM SlotsAlwaysReports == IntakeSpec => []SlotsAreReports
<1>1. ReportInv => SlotsAreReports
  BY DEF ReportInv
<1> QED
  BY <1>1, ReportInvHolds, PTL

\* The tier of a report is what a genuine, unexpired token says, or the floor.
THEOREM TierAlwaysProven == IntakeSpec => []TierIsProven
<1>1. ReportInv => TierIsProven
  BY DEF ReportInv
<1> QED
  BY <1>1, ReportInvHolds, PTL

-----------------------------------------------------------------------------
(* The budget of reports *)

\* A nonempty set of naturals has a least element: the strict subset order on the
\* initial segments below one of its elements is well founded.
LEMMA LeastOf ==
    ASSUME NEW A, A \subseteq Nat, A # {}
    PROVE  \E n \in A : \A m \in A : n <= m
<1>1. PICK top \in A : top \in Nat
  OBVIOUS
<1> DEFINE T == {1 .. m : m \in {a \in A : a <= top}}
<1>2. IsFiniteSet(1 .. top)
  BY <1>1, FS_Interval
<1>3. T \subseteq SUBSET (1 .. top) /\ T # {}
  BY <1>1
<1>4. IsWellFoundedOn(StrictSubsetOrdering(1 .. top), SUBSET (1 .. top))
  BY <1>2, FS_StrictSubsetOrderingWellFounded, FS_FiniteSubsetsOfFinite
<1>5. PICK least \in T : \A seg \in T : <<seg, least>> \notin StrictSubsetOrdering(1 .. top)
  <2> HIDE DEF T
  <2> QED
    BY <1>3, <1>4, WFMin
<1>6. PICK n \in A : n <= top /\ least = 1 .. n
  BY <1>5
<1>7. ASSUME NEW m \in A, m < n
      PROVE  FALSE
  <2>1. 1 .. m \in T
    BY <1>1, <1>6, <1>7
  <2>2. 1 .. m \subseteq 1 .. n /\ 1 .. m # 1 .. n
    BY <1>7
  <2> QED
    BY <1>3, <1>5, <1>6, <2>1, <2>2 DEF StrictSubsetOrdering
<1> QED
  BY <1>6, <1>7

\* As many reports as slots, when their slots are of a range shorter than limit.
LEMMA FewSlots ==
    ASSUME NEW S, NEW slot \in [S -> Nat], NEW limit \in Nat \ {0},
           \A r, q \in S : slot[r] = slot[q] => r = q,
           \A r, q \in S : slot[q] - slot[r] < limit
    PROVE  Cardinality(S) <= limit
<1>1. CASE S = {}
  BY <1>1, FS_EmptySet
<1>2. CASE S # {}
  <2> DEFINE slots == {slot[r] : r \in S}
  <2>1. slots \subseteq Nat /\ slots # {}
    BY <1>2
  <2> HIDE DEF slots
  <2>2. PICK n \in slots : \A m \in slots : n <= m
    BY <2>1, LeastOf
  <2> USE DEF slots
  <2>3. \A r \in S : slot[r] \in n .. n + limit - 1
    <3> TAKE r \in S
    <3>1. PICK q \in S : n = slot[q]
      BY <2>2
    <3>2. n <= slot[r] /\ slot[r] - n < limit /\ n \in Nat /\ slot[r] \in Nat
      BY <2>2, <3>1
    <3> QED
      BY <3>2
  <2>4. slot \in Injection(S, n .. n + limit - 1)
    <3>1. slot \in [S -> n .. n + limit - 1]
      BY <2>3
    <3> QED
      BY <3>1 DEF Injection, IsInjective
  <2>5. n \in Int /\ n + limit - 1 \in Int /\ ~(n > n + limit - 1) /\ (n + limit - 1) - n + 1 = limit
    BY <2>1, <2>2
  <2>6. /\ IsFiniteSet(n .. n + limit - 1)
        /\ Cardinality(n .. n + limit - 1) = limit
    BY <2>5, FS_Interval
  <2>7. IsFiniteSet(S) /\ Cardinality(S) <= Cardinality(n .. n + limit - 1)
    BY <2>4, <2>6, FS_Injection
  <2> QED
    BY <2>6, <2>7
<1> QED
  BY <1>1, <1>2

\* The slot of bucket k that paid report r.
SlotOf(k, r) == IF r.key = k THEN r.slot ELSE r.ipSlot

LEMMA PaidWithinBudget ==
    ASSUME TypeOK, ReportsTyped, SlotsAreReports, WindowBound
    PROVE  WithinBudget
<1> SUFFICES ASSUME NEW k \in Key, NEW t \in 0 .. clock
             PROVE  Cardinality({r \in handed : k \in {r.ip, r.key} /\ r.at \in t .. t + Window})
                        <= Limit[k]
  BY DEF WithinBudget
<1> DEFINE S == {r \in handed : k \in {r.ip, r.key} /\ r.at \in t .. t + Window}
           f == [r \in S |-> SlotOf(k, r)]
<1>1. /\ Limit[k] \in Nat \ {0} /\ Window \in Nat /\ t \in Nat
      /\ Len(log[k]) \in Nat /\ \A i \in 1 .. Len(log[k]) : log[k][i] \in Nat
  BY LimiterAssumption DEF TypeOK, Times
<1>2. \A r \in S : SlotOf(k, r) \in 1 .. Len(log[k]) /\ log[k][SlotOf(k, r)] = r.at
  BY DEF SlotsAreReports, SlotOf
<1>3. f \in [S -> Nat]
  <2>1. \A r \in S : SlotOf(k, r) \in Nat
    BY <1>1, <1>2
  <2> HIDE DEF S
  <2> QED
    BY <2>1
<1>4. ASSUME NEW r \in S, NEW q \in S, SlotOf(k, r) = SlotOf(k, q)
      PROVE  r = q
  <2>1. r \in handed /\ q \in handed /\ k \in {r.ip, r.key} /\ k \in {q.ip, q.key}
    OBVIOUS
  <2>2. (r.ip = q.ip /\ r.ipSlot = q.ipSlot) \/ (r.key = q.key /\ r.slot = q.slot) => r = q
    BY <2>1 DEF SlotsAreReports
  <2>3. /\ r.key \in InstallKey \/ (r.key = r.ip /\ r.slot = r.ipSlot)
        /\ q.key \in InstallKey \/ (q.key = q.ip /\ q.slot = q.ipSlot)
    BY <2>1 DEF SlotsAreReports
  <2>4. r.ip \in IpKey /\ q.ip \in IpKey
    BY <2>1 DEF ReportsTyped
  <2>5. IpKey \cap InstallKey = {}
    BY LimiterAssumption
  <2> QED
    BY <1>4, <2>1, <2>2, <2>3, <2>4, <2>5 DEF SlotOf
<1>5. ASSUME NEW r \in S, NEW q \in S
      PROVE  SlotOf(k, q) - SlotOf(k, r) < Limit[k]
  <2>1. /\ SlotOf(k, r) \in 1 .. Len(log[k]) /\ SlotOf(k, q) \in 1 .. Len(log[k])
        /\ log[k][SlotOf(k, r)] = r.at /\ log[k][SlotOf(k, q)] = q.at
    BY <1>2
  <2>2. r.at \in t .. t + Window /\ q.at \in t .. t + Window
    OBVIOUS
  <2>3. SlotOf(k, q) - SlotOf(k, r) >= Limit[k] => q.at - r.at > Window
    BY <2>1 DEF WindowBound
  <2>4. q.at - r.at <= Window
    BY <1>1, <2>2
  <2>5. /\ SlotOf(k, r) \in Nat /\ SlotOf(k, q) \in Nat
        /\ r.at \in Nat /\ q.at \in Nat
    BY <1>1, <2>1, <2>2
  <2> HIDE DEF S
  <2> QED
    BY <1>1, <2>3, <2>4, <2>5
<1>6. /\ \A r, q \in S : f[r] = f[q] => r = q
      /\ \A r, q \in S : f[q] - f[r] < Limit[k]
  BY <1>4, <1>5
<1> HIDE DEF S, f
<1>7. Cardinality(S) <= Limit[k]
  BY <1>1, <1>3, <1>6, FewSlots
<1> QED
  BY <1>7 DEF S

\* In no closed window do more reports of an address, or of an install, reach the
\* store than its limit.
THEOREM IntakeWithinBudget == IntakeSpec => []WithinBudget
<1>1. TypeOK /\ ReportInv /\ WindowBound => WithinBudget
  BY PaidWithinBudget DEF ReportInv
<1> QED
  BY <1>1, ReportInvHolds, UsesLimiter, BudgetHolds, PTL
=============================================================================
