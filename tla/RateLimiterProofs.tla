------------------------- MODULE RateLimiterProofs -------------------------
(***************************************************************************)
(* The limiter's budget and its fairness to rejected callers, for any      *)
(* buckets, limits, window and behaviour of the clock.                     *)
(***************************************************************************)
EXTENDS RateLimiter, SequenceTheorems, FiniteSetTheorems, TLAPS

\* A bucket is the tail of its log; what it has forgotten is out of the window;
\* the log is in order of time.
IsTail(k) ==
    /\ dropped[k] + Len(hits[k]) = Len(log[k])
    /\ \A i \in 1 .. Len(hits[k]) : hits[k][i] = log[k][dropped[k] + i]
Forgotten(k) == \A i \in 1 .. dropped[k] : clock - log[k][i] > Window
Ordered(k) ==
    /\ \A i \in 1 .. Len(log[k]) : log[k][i] <= clock
    /\ \A i, j \in 1 .. Len(log[k]) : i <= j => log[k][i] <= log[k][j]
Bounded(k) ==
    \A i, j \in 1 .. Len(log[k]) : j - i >= Limit[k] => log[k][j] - log[k][i] > Window

BucketInv(k) == IsTail(k) /\ Forgotten(k) /\ Ordered(k) /\ Bounded(k)
Inv == TypeOK /\ \A k \in Key : BucketInv(k)

LEMMA MembersOfTimes ==
    ASSUME NEW s \in Seq(Nat)
    PROVE  \A i \in 1 .. Len(s) : s[i] \in Nat
  OBVIOUS

LEMMA InvInit == Init => Inv
<1> SUFFICES ASSUME Init
             PROVE  Inv
  OBVIOUS
<1>1. /\ clock = 0
      /\ \A k \in Key : Len(hits[k]) = 0 /\ Len(log[k]) = 0 /\ dropped[k] = 0
  BY DEF Init
<1>2. TypeOK
  BY LimiterAssumption DEF Init, TypeOK, Times
<1>3. \A k \in Key : BucketInv(k)
  BY <1>1 DEF BucketInv, IsTail, Forgotten, Ordered, Bounded
<1> QED
  BY <1>2, <1>3 DEF Inv

\* What one call of rate_ok does to its own bucket.
LEMMA RateOkBucket ==
    ASSUME Inv, NEW k \in Key, NEW n \in 0 .. Len(hits[k]), NEW ok \in BOOLEAN,
           Answers(k, n, ok),
           hits'[k] = After(k, n, ok), log'[k] = Logged(k, ok), dropped'[k] = dropped[k] + n,
           UNCHANGED clock
    PROVE  /\ BucketInv(k)'
           /\ hits'[k] \in Times /\ log'[k] \in Times /\ dropped'[k] \in Nat
           /\ Len(hits'[k]) <= Limit[k]
           /\ ~ok => /\ log'[k] = log[k]
                     /\ Len(log[k]) >= Limit[k]
                     /\ \A i \in Len(log[k]) - Limit[k] + 1 .. Len(log[k]) :
                            clock - log[k][i] <= Window
<1>1. PICK h, l, d, limit :
         /\ h = hits[k] /\ l = log[k] /\ d = dropped[k] /\ limit = Limit[k]
         /\ h \in Seq(Nat) /\ l \in Seq(Nat) /\ d \in Nat /\ limit \in Nat
         /\ limit >= 1 /\ Len(h) <= limit
  BY LimiterAssumption DEF Inv, TypeOK, Times
<1>2. PICK q :
         /\ n \in 0 .. Len(h)
         /\ q = SubSeq(h, n + 1, Len(h))
         /\ Evicts(h, n)
         /\ ok = (Len(q) < limit)
         /\ hits'[k] = IF ok THEN Append(q, clock) ELSE q
         /\ log'[k] = IF ok THEN Append(l, clock) ELSE l
         /\ dropped'[k] = d + n
  BY <1>1 DEF Answers, After, Logged, Kept
\* Lengths.
<1>3. Len(h) \in Nat /\ Len(l) \in Nat /\ n \in Nat /\ n <= Len(h)
  BY <1>1
<1>4. /\ q \in Seq(Nat) /\ Len(q) = Len(h) - n
      /\ \A i \in 1 .. Len(q) : q[i] = h[n + i]
  <2>1. q = SubSeq(h, n + 1, Len(h))
    BY <1>2
  <2>2. h \in Seq(Nat) /\ n + 1 \in Int /\ Len(h) \in Int
    BY <1>1, <1>3
  <2>3. \A i \in n + 1 .. Len(h) : h[i] \in Nat
    <3> SUFFICES ASSUME NEW i \in n + 1 .. Len(h)
                 PROVE  h[i] \in Nat
      OBVIOUS
    <3>1. i \in 1 .. Len(h)
      BY <1>3
    <3> QED
      BY <2>2, <3>1
  <2>4. /\ q \in Seq(Nat)
        /\ Len(q) = IF n + 1 <= Len(h) THEN Len(h) - (n + 1) + 1 ELSE 0
        /\ \A i \in 1 .. Len(h) - (n + 1) + 1 : q[i] = h[n + 1 + i - 1]
    BY <2>1, <2>2, <2>3, SubSeqProperties
  <2>5. Len(q) = Len(h) - n /\ Len(h) - (n + 1) + 1 = Len(h) - n
    BY <1>3, <2>4
  <2>6. \A i \in 1 .. Len(h) - n : n + 1 + i - 1 = n + i
    BY <1>3
  <2> QED
    BY <2>4, <2>5, <2>6
<1>5. Len(q) \in Nat /\ Len(q) = Len(h) - n
  BY <1>3, <1>4
<1>6. d + Len(h) = Len(l)
  BY <1>1 DEF Inv, BucketInv, IsTail
<1>7. d \in Nat /\ limit \in Nat /\ limit >= 1 /\ Len(h) <= limit
  BY <1>1
<1>8. d + n + Len(q) = Len(l) /\ d + n \in Nat /\ d + n <= Len(l)
  BY <1>3, <1>5, <1>6, <1>7
<1>9. clock \in Nat /\ Window \in Nat
  BY LimiterAssumption DEF Inv, TypeOK
\* Contents.
<1>10. \A i \in 1 .. Len(l) : l[i] \in Nat
  <2>1. l \in Seq(Nat)
    BY <1>1
  <2> QED
    BY <2>1, MembersOfTimes
<1>11. \A i \in 1 .. Len(h) : h[i] = l[d + i]
  <2>1. IsTail(k)
    BY DEF Inv, BucketInv
  <2> QED
    BY <1>1, <2>1 DEF IsTail
<1>12. \A i \in 1 .. d : clock - l[i] > Window
  BY <1>1 DEF Inv, BucketInv, Forgotten
<1>13. /\ \A i \in 1 .. Len(l) : l[i] <= clock
       /\ \A i, j \in 1 .. Len(l) : i <= j => l[i] <= l[j]
  BY <1>1 DEF Inv, BucketInv, Ordered
<1>14. \A i, j \in 1 .. Len(l) : j - i >= limit => l[j] - l[i] > Window
  BY <1>1 DEF Inv, BucketInv, Bounded
<1>15. /\ \A i \in 1 .. n : clock - h[i] > Window
       /\ n < Len(h) => clock - h[n + 1] <= Window
  BY <1>2 DEF Evicts
\* After the popleft loop the bucket is the tail of the log from d + n.
<1>16. \A i \in 1 .. Len(q) : q[i] = l[d + n + i]
  <2> SUFFICES ASSUME NEW i \in 1 .. Len(q)
               PROVE  q[i] = l[d + n + i]
    OBVIOUS
  <2>1. n + i \in 1 .. Len(h) /\ d + (n + i) = d + n + i
    BY <1>3, <1>5, <1>7
  <2> QED
    BY <1>4, <1>11, <2>1
<1>17. \A i \in 1 .. d + n : clock - l[i] > Window
  <2> SUFFICES ASSUME NEW i \in 1 .. d + n
               PROVE  clock - l[i] > Window
    OBVIOUS
  <2>1. CASE i <= d
    <3>1. i \in 1 .. d
      BY <1>7, <2>1
    <3> QED
      BY <1>12, <3>1
  <2>2. CASE i > d
    <3>1. i - d \in 1 .. n /\ i - d \in 1 .. Len(h) /\ d + (i - d) = i
      BY <1>3, <1>7, <2>2
    <3>2. h[i - d] = l[i]
      BY <1>11, <3>1
    <3> QED
      BY <1>15, <3>1, <3>2
  <2> QED
    BY <1>3, <1>7, <2>1, <2>2
<1>18. CASE ok
  <2>1. Len(q) < limit
    BY <1>2, <1>18
  <2>2. hits'[k] = Append(q, clock) /\ log'[k] = Append(l, clock)
    BY <1>2, <1>18
  <2>3. /\ hits'[k] \in Times /\ Len(hits'[k]) = Len(q) + 1
        /\ hits'[k][Len(q) + 1] = clock
        /\ \A i \in 1 .. Len(q) : hits'[k][i] = q[i]
    <3>1. q \in Seq(Nat) /\ clock \in Nat
      BY <1>4, <1>9
    <3> QED
      BY <2>2, <3>1 DEF Times
  <2>4. /\ log'[k] \in Times /\ Len(log'[k]) = Len(l) + 1
        /\ log'[k][Len(l) + 1] = clock
        /\ \A i \in 1 .. Len(l) : log'[k][i] = l[i]
    BY <1>1, <1>9, <2>2 DEF Times
  <2>5. Len(hits'[k]) = Len(q) + 1 /\ Len(log'[k]) = Len(l) + 1 /\ dropped'[k] = d + n
    BY <1>2, <2>3, <2>4
  <2>6. \A i \in 1 .. Len(hits'[k]) : hits'[k][i] = log'[k][dropped'[k] + i]
    <3> SUFFICES ASSUME NEW i \in 1 .. Len(q) + 1
                 PROVE  hits'[k][i] = log'[k][d + n + i]
      BY <2>5
    <3>1. CASE i <= Len(q)
      <4>1. i \in 1 .. Len(q) /\ d + n + i \in 1 .. Len(l)
        BY <1>5, <1>8, <3>1
      <4> QED
        BY <1>16, <2>3, <2>4, <4>1
    <3>2. CASE i = Len(q) + 1
      <4>1. d + n + i = Len(l) + 1
        BY <1>3, <1>5, <1>8, <3>2
      <4> QED
        BY <2>3, <2>4, <3>2, <4>1
    <3> QED
      BY <1>5, <3>1, <3>2
  <2>7. IsTail(k)'
    <3>1. dropped'[k] + Len(hits'[k]) = Len(log'[k])
      BY <1>3, <1>5, <1>8, <2>5
    <3> QED
      BY <2>6, <3>1 DEF IsTail
  <2>8. Forgotten(k)'
    <3> SUFFICES ASSUME NEW i \in 1 .. d + n
                 PROVE  clock - log'[k][i] > Window
      BY <2>5 DEF Forgotten
    <3>1. i \in 1 .. Len(l)
      BY <1>3, <1>8
    <3> QED
      BY <1>17, <2>4, <3>1
  <2>9. ASSUME NEW i \in 1 .. Len(l) + 1, i \notin 1 .. Len(l)
        PROVE  i = Len(l) + 1
    BY <1>3, <2>9
  <2>10. Ordered(k)'
    <3>1. ASSUME NEW i \in 1 .. Len(l) + 1
          PROVE  log'[k][i] <= clock
      <4>1. CASE i \in 1 .. Len(l)
        BY <1>13, <2>4, <4>1
      <4>2. CASE i = Len(l) + 1
        BY <1>9, <2>4, <4>2
      <4> QED
        BY <2>9, <4>1, <4>2
    <3>2. ASSUME NEW i \in 1 .. Len(l) + 1, NEW j \in 1 .. Len(l) + 1, i <= j
          PROVE  log'[k][i] <= log'[k][j]
      <4>1. CASE j \in 1 .. Len(l)
        <5>1. i \in 1 .. Len(l)
          BY <1>3, <3>2, <4>1
        <5> QED
          BY <1>13, <2>4, <3>2, <4>1, <5>1
      <4>2. CASE j = Len(l) + 1
        BY <2>4, <3>1, <4>2
      <4> QED
        BY <2>9, <4>1, <4>2
    <3> QED
      BY <2>5, <3>1, <3>2 DEF Ordered
  <2>11. Bounded(k)'
    <3> SUFFICES ASSUME NEW i \in 1 .. Len(l) + 1, NEW j \in 1 .. Len(l) + 1, j - i >= limit
                 PROVE  log'[k][j] - log'[k][i] > Window
      BY <1>1, <2>5 DEF Bounded
    <3>1. CASE j \in 1 .. Len(l)
      <4>1. i \in 1 .. Len(l)
        BY <1>3, <1>7, <3>1
      <4>2. log'[k][i] = l[i] /\ log'[k][j] = l[j]
        BY <2>4, <3>1, <4>1
      <4> QED
        BY <1>14, <3>1, <4>1, <4>2
    <3>2. CASE j = Len(l) + 1
      <4>1. i \in 1 .. d + n /\ i \in 1 .. Len(l)
        BY <1>3, <1>5, <1>7, <1>8, <2>1, <3>2
      <4>2. log'[k][i] = l[i] /\ log'[k][j] = clock
        BY <2>4, <3>2, <4>1
      <4> QED
        BY <1>17, <4>1, <4>2
    <3> QED
      BY <2>9, <3>1, <3>2
  <2>12. dropped'[k] \in Nat /\ Len(hits'[k]) <= limit
    BY <1>5, <1>7, <1>8, <2>1, <2>5
  <2> QED
    BY <1>1, <1>18, <2>3, <2>4, <2>7, <2>8, <2>10, <2>11, <2>12 DEF BucketInv
<1>19. CASE ~ok
  <2>1. Len(q) >= limit
    <3>1. ~(Len(q) < limit)
      BY <1>2, <1>19
    <3> QED
      BY <1>5, <1>7, <3>1
  <2>2. hits'[k] = q /\ log'[k] = l /\ dropped'[k] = d + n
    BY <1>2, <1>19
  <2>3. Len(l) >= limit
    BY <1>3, <1>5, <1>7, <1>8, <2>1
  <2>4. ASSUME NEW i \in Len(l) - limit + 1 .. Len(l)
        PROVE  clock - l[i] <= Window
    <3> DEFINE first == d + n + 1
    <3>1. /\ first <= i /\ first \in 1 .. Len(l) /\ i \in 1 .. Len(l)
          /\ 1 \in 1 .. Len(q) /\ n < Len(h) /\ n + 1 \in 1 .. Len(h) /\ first = d + (n + 1)
      BY <1>3, <1>5, <1>7, <1>8, <2>1
    <3>2. l[first] = h[n + 1]
      BY <1>11, <3>1
    <3>3. clock - l[first] <= Window
      BY <1>15, <3>1, <3>2
    <3> HIDE DEF first
    <3>4. l[first] <= l[i] /\ l[first] \in Nat /\ l[i] \in Nat
      BY <1>10, <1>13, <3>1
    <3> QED
      BY <1>9, <3>3, <3>4
  <2>5. IsTail(k)'
    BY <1>8, <1>16, <2>2 DEF IsTail
  <2>6. Forgotten(k)'
    BY <1>17, <2>2 DEF Forgotten
  <2>7. Ordered(k)' /\ Bounded(k)'
    BY <1>1, <1>13, <1>14, <2>2 DEF Ordered, Bounded
  <2>8. Len(hits'[k]) <= limit /\ dropped'[k] \in Nat
    BY <1>3, <1>5, <1>7, <1>8, <2>2
  <2>9. hits'[k] \in Times /\ log'[k] \in Times
    BY <1>1, <1>4, <2>2 DEF Times
  <2> QED
    BY <1>1, <1>19, <2>2, <2>3, <2>4, <2>5, <2>6, <2>7, <2>8, <2>9 DEF BucketInv
<1> QED
  BY <1>18, <1>19

\* Bucket j answered one call in this step.
Answered(j) ==
    \E n \in 0 .. Len(hits[j]), ok \in BOOLEAN :
        /\ Answers(j, n, ok)
        /\ hits'[j] = After(j, n, ok)
        /\ log'[j] = Logged(j, ok)
        /\ dropped'[j] = dropped[j] + n

\* This step answers the calls of the buckets K and leaves the others alone.
AnswersOnly(K) ==
    /\ UNCHANGED clock
    /\ DOMAIN hits' = Key /\ DOMAIN log' = Key /\ DOMAIN dropped' = Key
    /\ hits' = [j \in Key |-> hits'[j]]
    /\ log' = [j \in Key |-> log'[j]]
    /\ dropped' = [j \in Key |-> dropped'[j]]
    /\ \A j \in Key \ K :
           hits'[j] = hits[j] /\ log'[j] = log[j] /\ dropped'[j] = dropped[j]
    /\ \A j \in K : Answered(j)

\* Whatever set of buckets a route asks, its step keeps the invariant.
LEMMA AnswersKeepInv ==
    ASSUME Inv, NEW K \in SUBSET Key, AnswersOnly(K)
    PROVE  Inv'
<1>0. TypeOK /\ \A k \in Key : BucketInv(k)
  BY DEF Inv
<1>1. ASSUME NEW j \in Key
      PROVE  /\ BucketInv(j)' /\ Len(hits'[j]) <= Limit[j]
             /\ hits'[j] \in Times /\ log'[j] \in Times /\ dropped'[j] \in Nat
  <2>1. CASE j \in K
    <3>1. UNCHANGED clock /\ Answered(j)
      BY <2>1 DEF AnswersOnly
    <3>2. PICK n \in 0 .. Len(hits[j]), ok \in BOOLEAN :
            /\ Answers(j, n, ok)
            /\ hits'[j] = After(j, n, ok)
            /\ log'[j] = Logged(j, ok)
            /\ dropped'[j] = dropped[j] + n
      BY <3>1 DEF Answered
    <3> QED
      BY <3>1, <3>2, RateOkBucket
  <2>2. CASE j \notin K
    <3>1. /\ UNCHANGED clock
          /\ hits'[j] = hits[j] /\ log'[j] = log[j] /\ dropped'[j] = dropped[j]
      BY <2>2 DEF AnswersOnly
    <3> QED
      BY <1>0, <3>1 DEF TypeOK, BucketInv, IsTail, Forgotten, Ordered, Bounded
  <2> QED
    BY <2>1, <2>2
<1>2. /\ UNCHANGED clock
      /\ hits' = [j \in Key |-> hits'[j]]
      /\ log' = [j \in Key |-> log'[j]]
      /\ dropped' = [j \in Key |-> dropped'[j]]
  BY DEF AnswersOnly
<1>3. TypeOK'
  BY <1>0, <1>1, <1>2 DEF TypeOK
<1> QED
  BY <1>1, <1>3 DEF Inv

LEMMA InvNext == Inv /\ [Next]_vars => Inv'
<1> SUFFICES ASSUME Inv, [Next]_vars
             PROVE  Inv'
  OBVIOUS
<1>0. TypeOK /\ \A k \in Key : BucketInv(k)
  BY DEF Inv
<1>2. ASSUME NEW k \in Key, NEW ok \in BOOLEAN, RateOk(k, ok), UNCHANGED clock
      PROVE  Inv'
  <2>1. PICK n \in 0 .. Len(hits[k]) :
          /\ Answers(k, n, ok)
          /\ hits' = [hits EXCEPT ![k] = After(k, n, ok)]
          /\ log' = [log EXCEPT ![k] = Logged(k, ok)]
          /\ dropped' = [dropped EXCEPT ![k] = dropped[k] + n]
    BY <1>2 DEF RateOk
  <2>2. DOMAIN hits = Key /\ DOMAIN log = Key /\ DOMAIN dropped = Key
    BY <1>0 DEF TypeOK
  <2>3. /\ hits'[k] = After(k, n, ok) /\ log'[k] = Logged(k, ok)
        /\ dropped'[k] = dropped[k] + n
        /\ \A j \in Key \ {k} : hits'[j] = hits[j] /\ log'[j] = log[j] /\ dropped'[j] = dropped[j]
    BY <2>1, <2>2
  <2>4. /\ DOMAIN hits' = Key /\ DOMAIN log' = Key /\ DOMAIN dropped' = Key
        /\ hits' = [j \in Key |-> hits'[j]] /\ log' = [j \in Key |-> log'[j]]
        /\ dropped' = [j \in Key |-> dropped'[j]]
    BY <2>1, <2>2
  <2>5. Answered(k)
    BY <2>1, <2>3 DEF Answered
  <2>6. {k} \in SUBSET Key /\ AnswersOnly({k})
    BY <1>2, <2>3, <2>4, <2>5 DEF AnswersOnly
  <2> QED
    BY <2>6, AnswersKeepInv
<1>3. ASSUME NEW ip \in IpKey, NEW inst \in InstallKey, NEW ok \in BOOLEAN,
             BothAnswer(ip, inst, ok), UNCHANGED clock
      PROVE  Inv'
  <2>1. PICK n \in 0 .. Len(hits[ip]), m \in 0 .. Len(hits[inst]) :
          /\ Answers(ip, n, TRUE)
          /\ Answers(inst, m, ok)
          /\ hits' = [hits EXCEPT ![ip] = After(ip, n, TRUE), ![inst] = After(inst, m, ok)]
          /\ log' = [log EXCEPT ![ip] = Logged(ip, TRUE), ![inst] = Logged(inst, ok)]
          /\ dropped' = [dropped EXCEPT ![ip] = dropped[ip] + n, ![inst] = dropped[inst] + m]
    BY <1>3 DEF BothAnswer
  <2>2. DOMAIN hits = Key /\ DOMAIN log = Key /\ DOMAIN dropped = Key
    BY <1>0 DEF TypeOK
  <2>3. ip # inst /\ ip \in Key /\ inst \in Key
    BY LimiterAssumption DEF Key
  <2>4. /\ hits'[ip] = After(ip, n, TRUE) /\ log'[ip] = Logged(ip, TRUE)
        /\ dropped'[ip] = dropped[ip] + n
        /\ hits'[inst] = After(inst, m, ok) /\ log'[inst] = Logged(inst, ok)
        /\ dropped'[inst] = dropped[inst] + m
    BY <2>1, <2>2, <2>3
  <2>5. \A j \in Key \ {ip, inst} :
            hits'[j] = hits[j] /\ log'[j] = log[j] /\ dropped'[j] = dropped[j]
    BY <2>1, <2>2
  <2>6. /\ DOMAIN hits' = Key /\ DOMAIN log' = Key /\ DOMAIN dropped' = Key
        /\ hits' = [j \in Key |-> hits'[j]] /\ log' = [j \in Key |-> log'[j]]
        /\ dropped' = [j \in Key |-> dropped'[j]]
    BY <2>1, <2>2
  <2>7. Answered(ip) /\ Answered(inst)
    BY <2>1, <2>4 DEF Answered
  <2>8. {ip, inst} \in SUBSET Key /\ AnswersOnly({ip, inst})
    BY <1>3, <2>3, <2>5, <2>6, <2>7 DEF AnswersOnly
  <2> QED
    BY <2>8, AnswersKeepInv
<1>4. CASE Tick
  <2>1. /\ clock' = clock + 1 /\ clock \in Nat /\ Window \in Nat
        /\ UNCHANGED <<hits, log, dropped>>
    BY <1>0, <1>4, LimiterAssumption DEF Tick, TypeOK
  <2>2. TypeOK'
    BY <1>0, <2>1 DEF TypeOK
  <2>3. ASSUME NEW k \in Key
        PROVE  BucketInv(k)'
    <3>1. \A i \in 1 .. Len(log[k]) : log[k][i] \in Nat
      BY <1>0 DEF TypeOK, Times
    <3>2. IsTail(k)' /\ Bounded(k)'
      BY <1>0, <2>1 DEF BucketInv, IsTail, Bounded
    <3>3. Ordered(k)'
      BY <1>0, <2>1, <3>1 DEF BucketInv, Ordered
    <3>4. /\ dropped[k] \in Nat /\ Len(log[k]) \in Nat /\ Len(hits[k]) \in Nat
          /\ dropped[k] + Len(hits[k]) = Len(log[k])
          /\ \A i \in 1 .. dropped[k] : clock - log[k][i] > Window
      BY <1>0 DEF TypeOK, Times, BucketInv, IsTail, Forgotten
    <3>5. \A i \in 1 .. dropped[k] : i \in 1 .. Len(log[k])
      BY <3>4
    <3>6. Forgotten(k)'
      BY <2>1, <3>1, <3>4, <3>5 DEF Forgotten
    <3> QED
      BY <3>2, <3>3, <3>6 DEF BucketInv
  <2> QED
    BY <2>2, <2>3 DEF Inv
<1>5. CASE Restart
  <2>1. \A k \in Key : Len(hits'[k]) = 0 /\ Len(log'[k]) = 0 /\ dropped'[k] = 0
    BY <1>5 DEF Restart
  <2>2. TypeOK'
    BY <1>0, <1>5, LimiterAssumption DEF Restart, TypeOK, Times
  <2>3. \A k \in Key : BucketInv(k)'
    BY <2>1 DEF BucketInv, IsTail, Forgotten, Ordered, Bounded
  <2> QED
    BY <2>2, <2>3 DEF Inv
<1>6. CASE UNCHANGED vars
  BY <1>0, <1>6 DEF vars, Inv, TypeOK, BucketInv, IsTail, Forgotten, Ordered, Bounded
<1> QED
  BY <1>2, <1>3, <1>4, <1>5, <1>6 DEF Next, Check, Forward, Key

LEMMA InvHolds == Spec => []Inv
  BY InvInit, InvNext, PTL DEF Spec

\* Types, and the bound on the memory of one bucket.
THEOREM LimiterTypeCorrect == Spec => []TypeOK
<1>1. Inv => TypeOK
  BY DEF Inv
<1> QED
  BY <1>1, InvHolds, PTL

\* No closed window of the configured length holds more accepted calls of a
\* bucket than its limit.
THEOREM BudgetHolds == Spec => []WindowBound
<1>1. Inv => WindowBound
  BY DEF Inv, BucketInv, Bounded, WindowBound
<1> QED
  BY <1>1, InvHolds, PTL

\* A rejection always has the limit's worth of accepted calls in its window.
THEOREM RejectionsJustified == Spec => []RejectsOnlyWhenFull
<1> DEFINE J == verdict.ok \in BOOLEAN /\ (~verdict.ok => verdict.key \in Key)
<1>1. Init => RejectsOnlyWhenFull /\ J
  BY DEF Init, RejectsOnlyWhenFull, NoVerdict
<1>2. ASSUME Inv, J, RejectsOnlyWhenFull, [Next]_vars
      PROVE  RejectsOnlyWhenFull' /\ J'
  <2>1. ASSUME NEW k \in Key, NEW n \in 0 .. Len(hits[k]), NEW ok \in BOOLEAN,
               Answers(k, n, ok), hits'[k] = After(k, n, ok), log'[k] = Logged(k, ok),
               dropped'[k] = dropped[k] + n, UNCHANGED clock,
               verdict' = [key |-> k, ok |-> ok, at |-> clock]
        PROVE  RejectsOnlyWhenFull' /\ J'
    <3>1. ~ok => /\ log'[k] = log[k]
                 /\ Len(log[k]) >= Limit[k]
                 /\ \A i \in Len(log[k]) - Limit[k] + 1 .. Len(log[k]) :
                        clock - log[k][i] <= Window
      BY <1>2, <2>1, RateOkBucket
    <3> QED
      BY <2>1, <3>1 DEF RejectsOnlyWhenFull
  <2>4. DOMAIN hits = Key /\ DOMAIN log = Key /\ DOMAIN dropped = Key
    BY <1>2 DEF Inv, TypeOK
  <2>5. ASSUME NEW k \in Key, NEW ok \in BOOLEAN, RateOk(k, ok), UNCHANGED clock
        PROVE  RejectsOnlyWhenFull' /\ J'
    <3>1. PICK n \in 0 .. Len(hits[k]) :
            /\ Answers(k, n, ok)
            /\ hits'[k] = After(k, n, ok) /\ log'[k] = Logged(k, ok)
            /\ dropped'[k] = dropped[k] + n
            /\ verdict' = [key |-> k, ok |-> ok, at |-> clock]
      BY <2>4, <2>5 DEF RateOk
    <3> QED
      BY <2>1, <2>5, <3>1
  <2>6. ASSUME NEW ip \in IpKey, NEW inst \in InstallKey, NEW ok \in BOOLEAN,
               BothAnswer(ip, inst, ok), UNCHANGED clock
        PROVE  RejectsOnlyWhenFull' /\ J'
    <3>1. ip # inst /\ inst \in Key
      BY LimiterAssumption DEF Key
    <3>2. PICK m \in 0 .. Len(hits[inst]) :
            /\ Answers(inst, m, ok)
            /\ hits'[inst] = After(inst, m, ok) /\ log'[inst] = Logged(inst, ok)
            /\ dropped'[inst] = dropped[inst] + m
            /\ verdict' = [key |-> inst, ok |-> ok, at |-> clock]
      BY <2>4, <2>6, <3>1 DEF BothAnswer
    <3> QED
      BY <2>1, <2>6, <3>1, <3>2
  <2>2. CASE Tick \/ UNCHANGED vars
    BY <1>2, <2>2 DEF Tick, vars, RejectsOnlyWhenFull
  <2>3. CASE Restart
    BY <2>3 DEF Restart, NoVerdict, RejectsOnlyWhenFull
  <2> QED
    BY <1>2, <2>2, <2>3, <2>5, <2>6 DEF Next, Check, Forward, Key
<1> QED
  BY <1>1, <1>2, InvHolds, PTL DEF Spec

-----------------------------------------------------------------------------
(* The exact sliding window *)

\* What the popleft loop leaves are the accepted calls of the trailing window.
LEMMA KeptAreRecent ==
    ASSUME Inv, NEW k \in Key, NEW n \in 0 .. Len(hits[k]), Evicts(hits[k], n)
    PROVE  Exact!Cardinality(Exact!Recent(k)) = Len(Kept(k, n))
<1>1. PICK h, l, d :
         /\ h = hits[k] /\ l = log[k] /\ d = dropped[k]
         /\ h \in Seq(Nat) /\ l \in Seq(Nat) /\ d \in Nat
  BY DEF Inv, TypeOK, Times
<1>2. Len(h) \in Nat /\ Len(l) \in Nat /\ n \in Nat /\ n <= Len(h) /\ d \in Nat
  BY <1>1
<1>3. clock \in Nat /\ Window \in Nat
  BY LimiterAssumption DEF Inv, TypeOK
<1>4. \A i \in 1 .. Len(l) : l[i] \in Nat
  <2>1. l \in Seq(Nat)
    BY <1>1
  <2> QED
    BY <2>1, MembersOfTimes
<1>5. IsTail(k) /\ Forgotten(k) /\ Ordered(k)
  BY DEF Inv, BucketInv
<1>6. /\ d + Len(h) = Len(l)
      /\ \A i \in 1 .. Len(h) : h[i] = l[d + i]
  BY <1>1, <1>5 DEF IsTail
<1>7. \A i \in 1 .. d : clock - l[i] > Window
  BY <1>1, <1>5 DEF Forgotten
<1>8. \A i, j \in 1 .. Len(l) : i <= j => l[i] <= l[j]
  BY <1>1, <1>5 DEF Ordered
<1>9. /\ \A i \in 1 .. n : clock - h[i] > Window
      /\ n < Len(h) => clock - h[n + 1] <= Window
  BY <1>1 DEF Evicts
<1>10. ASSUME NEW i \in 1 .. Len(l)
      PROVE  clock - l[i] <= Window <=> i >= d + n + 1
  <2>0. i \in Nat /\ l[i] \in Nat /\ clock - l[i] \in Int /\ d + n \in Nat /\ d <= d + n
    BY <1>2, <1>3, <1>4
  <2>1. CASE i <= d
    <3>1. i \in 1 .. d
      BY <1>1, <2>1
    <3>2. clock - l[i] > Window
      BY <1>7, <3>1
    <3>3. i < d + n + 1
      BY <1>2, <2>0, <2>1
    <3> QED
      BY <1>3, <2>0, <3>2, <3>3
  <2>2. CASE i > d /\ i <= d + n
    <3>1. PICK j : j = i - d
      OBVIOUS
    <3>2. j \in 1 .. n /\ j \in 1 .. Len(h) /\ d + j = i
      BY <1>2, <2>0, <2>2, <3>1
    <3>3. h[j] = l[i]
      BY <1>6, <3>2
    <3>4. clock - h[j] > Window
      BY <1>9, <3>2
    <3>5. clock - l[i] > Window /\ i < d + n + 1
      BY <1>2, <2>0, <2>2, <3>3, <3>4
    <3> QED
      BY <1>3, <2>0, <3>5
  <2>3. CASE i >= d + n + 1
    <3>1. n < Len(h) /\ n + 1 \in 1 .. Len(h) /\ d + (n + 1) \in 1 .. Len(l) /\ d + (n + 1) <= i
      BY <1>2, <1>6, <2>3
    <3>2. h[n + 1] = l[d + (n + 1)]
      BY <1>6, <3>1
    <3>3. l[d + (n + 1)] <= l[i] /\ l[d + (n + 1)] \in Nat /\ l[i] \in Nat
      BY <1>8, <1>4, <3>1
    <3> QED
      BY <1>2, <1>9, <1>3, <2>3, <3>1, <3>2, <3>3
  <2> QED
    BY <1>1, <1>2, <2>1, <2>2, <2>3
<1>11. Exact!Recent(k) = d + n + 1 .. Len(l)
  <2>1. Exact!Recent(k) = {i \in 1 .. Len(l) : clock - l[i] <= Window}
    BY <1>1 DEF Exact!Recent
  <2>2. d + n + 1 .. Len(l) = {i \in 1 .. Len(l) : i >= d + n + 1}
    BY <1>1, <1>2
  <2> QED
    BY <1>10, <2>1, <2>2
<1>12. Exact!Cardinality(d + n + 1 .. Len(l)) = Cardinality(d + n + 1 .. Len(l))
  BY DEF Exact!Cardinality, Cardinality
<1>13. Cardinality(d + n + 1 .. Len(l)) = Len(h) - n
  <2>1. d + n + 1 \in Int /\ Len(l) \in Int
    BY <1>1, <1>2
  <2>2. Cardinality(d + n + 1 .. Len(l)) =
            IF d + n + 1 > Len(l) THEN 0 ELSE Len(l) - (d + n + 1) + 1
    BY <2>1, FS_Interval
  <2> QED
    BY <1>2, <1>6, <2>2
<1>14. Len(Kept(k, n)) = Len(h) - n
  BY <1>1, <1>2 DEF Kept
<1> QED
  BY <1>11, <1>12, <1>13, <1>14

\* So the answer, and what becomes of the log, are those of the exact window.
LEMMA AnswersExactly ==
    ASSUME Inv, NEW k \in Key, NEW n \in 0 .. Len(hits[k]), NEW ok \in BOOLEAN,
           Answers(k, n, ok)
    PROVE  ok = Exact!HasRoom(k) /\ Logged(k, ok) = Exact!Recorded(k)
<1>1. Exact!Cardinality(Exact!Recent(k)) = Len(Kept(k, n))
  BY KeptAreRecent DEF Answers
<1>2. ok = Exact!HasRoom(k)
  BY <1>1 DEF Answers, Exact!HasRoom
<1> QED
  BY <1>2 DEF Logged, Exact!Recorded

\* ratelimit.py l.19-20, for any buckets, limits, window and behaviour of the clock:
\* evicting lazily, and only the oldest hits, rate_ok answers exactly as if it counted
\* all accepted calls of the trailing window; and an install is only ever asked after
\* an address that had room (diagnostics.py l.116-119), never alone and never first.
THEOREM LimiterIsExact == Spec => ImplementsSlidingWindow
<1>1. Init => Exact!Init
  BY DEF Init, NoVerdict, Key, Exact!Key, Exact!Init, Exact!NoVerdict
<1>2. ASSUME Inv, [Next]_vars
      PROVE  [Exact!Next]_(Exact!vars)
  <2>1. ASSUME NEW k \in Key, NEW ok \in BOOLEAN, RateOk(k, ok), UNCHANGED clock
        PROVE  Exact!Ask(k)
    <3>1. PICK n \in 0 .. Len(hits[k]) :
            /\ Answers(k, n, ok)
            /\ log' = [log EXCEPT ![k] = Logged(k, ok)]
            /\ verdict' = [key |-> k, ok |-> ok, at |-> clock]
      BY <2>1 DEF RateOk
    <3>2. ok = Exact!HasRoom(k) /\ Logged(k, ok) = Exact!Recorded(k)
      BY <1>2, <3>1, AnswersExactly
    <3> QED
      BY <2>1, <3>1, <3>2 DEF Exact!Ask
  <2>2. ASSUME NEW ip \in IpKey, NEW inst \in InstallKey, NEW ok \in BOOLEAN,
               BothAnswer(ip, inst, ok), UNCHANGED clock
        PROVE  Exact!Next
    <3>1. ip # inst /\ ip \in Key /\ inst \in Key
      BY LimiterAssumption DEF Key
    <3>2. PICK n \in 0 .. Len(hits[ip]), m \in 0 .. Len(hits[inst]) :
            /\ Answers(ip, n, TRUE)
            /\ Answers(inst, m, ok)
            /\ log' = [log EXCEPT ![ip] = Logged(ip, TRUE), ![inst] = Logged(inst, ok)]
            /\ verdict' = [key |-> inst, ok |-> ok, at |-> clock]
      BY <2>2 DEF BothAnswer
    <3>3. /\ TRUE = Exact!HasRoom(ip) /\ Logged(ip, TRUE) = Exact!Recorded(ip)
          /\ ok = Exact!HasRoom(inst) /\ Logged(inst, ok) = Exact!Recorded(inst)
      BY <1>2, <3>1, <3>2, AnswersExactly
    <3>4. Exact!AskBoth(ip, inst)
      BY <2>2, <3>2, <3>3 DEF Exact!AskBoth
    <3> QED
      BY <3>1, <3>4 DEF Exact!Next
  <2>3. CASE Tick
    BY <1>2, <2>3 DEF Tick, Inv, TypeOK, Exact!Next, Exact!Pass
  <2>4. CASE Restart
    BY <2>4 DEF Restart, NoVerdict, Key, Exact!Key, Exact!Next, Exact!Forget, Exact!NoVerdict
  <2>5. CASE UNCHANGED vars
    BY <2>5 DEF vars, Exact!vars
  <2>6. ASSUME NEW k \in IpKey, NEW ok \in BOOLEAN, RateOk(k, ok), UNCHANGED clock
        PROVE  Exact!Next
    BY <2>1, <2>6 DEF Exact!Next, Key
  <2> QED
    BY <1>2, <2>2, <2>3, <2>4, <2>5, <2>6 DEF Next, Check, Forward, Key
<1> QED
  BY <1>1, <1>2, InvHolds, PTL DEF Spec, ImplementsSlidingWindow, Exact!Spec
=============================================================================
