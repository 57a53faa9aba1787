------------------------------ MODULE EdgeProofs ------------------------------
(***************************************************************************)
(* Proofs about Edge and the two modules it composes: for any machines,    *)
(* any set of configured proxies, headers and paths of any length, any     *)
(* routes, caps, bodies and chunk sizes.                                   *)
(***************************************************************************)
EXTENDS Edge, TLAPS

-----------------------------------------------------------------------------
(* The address: ClientIp *)


\* The rightmost entry of header outside the proxies is a.
EndsWith(header, a) ==
    \E i \in DOMAIN header :
        /\ header[i] = a
        /\ \A j \in i + 1 .. Len(header) : header[j] \in Proxies

\* While a proxy holds the request, the header it holds ends with the outsider it
\* was last received from, followed by proxies only.
PathInv ==
    /\ PathTypeOK
    /\ outsider \notin Proxies
    /\ at \notin Proxies => outsider = at
    /\ at \in Proxies /\ outsider # Nobody => EndsWith(hops, outsider)
    /\ ForgeryNeverWins

LEMMA PathInvInit == PathInit => PathInv
<1> SUFFICES ASSUME PathInit PROVE PathInv
  OBVIOUS
<1>1. at \in Addr /\ resolved = Nobody /\ passed = 1
  BY DEF PathInit
<1>2. hops \in Seq(Addr)
  BY DEF PathInit, Headers
<1>3. Nobody \notin Proxies
  BY ClientIpAssumption
<1>4. outsider = IF at \in Proxies THEN Nobody ELSE at
  BY DEF PathInit
<1> QED
  BY <1>1, <1>2, <1>3, <1>4 DEF PathInv, PathTypeOK, ForgeryNeverWins

\* What an untrusted machine sends on need not mean anything; what a proxy sends
\* on ends with the machine it received the request from.
LEMMA PassOnKeepsPathInv ==
    ASSUME PathInv, NEW header \in Seq(Addr), NEW next \in Addr, PassOn(header, next),
           next \in Proxies /\ outsider # Nobody => EndsWith(header, outsider)
    PROVE  PathInv'
<1>1. /\ at' = next /\ hops' = header /\ passed' = passed + 1
      /\ outsider' = IF next \in Proxies THEN outsider ELSE next
      /\ resolved = Nobody /\ resolved' = Nobody
  BY DEF PassOn
<1>2. PathTypeOK'
  BY <1>1 DEF PathInv, PathTypeOK
<1>3. outsider' \notin Proxies /\ (at' \notin Proxies => outsider' = at')
  BY <1>1 DEF PathInv
<1>4. at' \in Proxies /\ outsider' # Nobody => EndsWith(hops', outsider')
  BY <1>1
<1> QED
  BY <1>1, <1>2, <1>3, <1>4 DEF PathInv, ForgeryNeverWins, EndsWith

LEMMA AppendEnds ==
    ASSUME PathInv, outsider # Nobody
    PROVE  EndsWith(Append(hops, at), outsider)
<1> DEFINE longer == Append(hops, at)
<1>1. hops \in Seq(Addr) /\ at \in Addr
  BY DEF PathInv, PathTypeOK
<1>2. /\ Len(hops) \in Nat /\ Len(longer) = Len(hops) + 1
      /\ longer[Len(hops) + 1] = at
      /\ \A j \in 1 .. Len(hops) : longer[j] = hops[j]
      /\ DOMAIN longer = 1 .. Len(hops) + 1 /\ DOMAIN hops = 1 .. Len(hops)
  BY <1>1
<1> HIDE DEF longer
<1>3. CASE at \notin Proxies
  <2>1. outsider = at
    BY <1>3 DEF PathInv
  <2>2. Len(hops) + 1 \in DOMAIN longer
    BY <1>2
  <2>3. \A j \in Len(hops) + 1 + 1 .. Len(longer) : longer[j] \in Proxies
    BY <1>2
  <2>4. EndsWith(longer, outsider)
    BY <1>2, <2>1, <2>2, <2>3 DEF EndsWith
  <2> QED
    BY <2>4 DEF longer
<1>4. CASE at \in Proxies
  <2>1. EndsWith(hops, outsider)
    BY <1>4 DEF PathInv
  <2>2. PICK i \in DOMAIN hops :
          /\ hops[i] = outsider
          /\ \A j \in i + 1 .. Len(hops) : hops[j] \in Proxies
    BY <2>1 DEF EndsWith
  <2>3. i \in 1 .. Len(hops) /\ i \in DOMAIN longer /\ longer[i] = outsider
    BY <1>2, <2>2
  <2>4. ASSUME NEW j \in i + 1 .. Len(longer)
        PROVE  longer[j] \in Proxies
    <3>1. CASE j = Len(hops) + 1
      BY <1>2, <1>4, <3>1
    <3>2. CASE j # Len(hops) + 1
      <4>1. j \in i + 1 .. Len(hops) /\ j \in 1 .. Len(hops)
        BY <1>2, <2>3, <3>2
      <4> QED
        BY <1>2, <2>2, <4>1
    <3> QED
      BY <3>1, <3>2
  <2>5. EndsWith(longer, outsider)
    BY <2>3, <2>4 DEF EndsWith
  <2> QED
    BY <2>5 DEF longer
<1> QED
  BY <1>3, <1>4

\* client_ip finds the outsider when the header ends with it.
LEMMA ArriveKeepsPathInv == Star = FALSE /\ PathInv /\ Arrive => PathInv'
<1> SUFFICES ASSUME Star = FALSE, PathInv, Arrive
             PROVE  PathInv'
  OBVIOUS
<1>1. PICK a \in Addr : Resolves(at, hops, a) /\ resolved' = a
  BY DEF Arrive
<1>2. UNCHANGED <<at, hops, passed, outsider>>
  BY DEF Arrive
<1>3. ASSUME outsider # Nobody PROVE a = outsider
  <2>1. CASE at \notin Proxies
    BY <1>1, <2>1 DEF Resolves, Trusted, PathInv
  <2>2. CASE at \in Proxies
    <3>1. EndsWith(hops, outsider)
      BY <1>3, <2>2 DEF PathInv
    <3>2. PICK i \in DOMAIN hops :
            /\ hops[i] = outsider
            /\ \A j \in i + 1 .. Len(hops) : hops[j] \in Proxies
      BY <3>1 DEF EndsWith
    <3>3. hops[i] \notin Proxies
      BY <3>2 DEF PathInv
    <3>4. PICK k \in DOMAIN hops : Hop(hops, k) /\ a = hops[k]
      BY <1>1, <2>2, <3>2, <3>3 DEF Resolves, Trusted
    <3>5. /\ hops[k] \notin Proxies
          /\ \A j \in k + 1 .. Len(hops) : hops[j] \in Proxies
      BY <3>4 DEF Hop, Trusted
    <3>6. i \in 1 .. Len(hops) /\ k \in 1 .. Len(hops) /\ Len(hops) \in Nat
      BY <3>2, <3>4 DEF PathInv, PathTypeOK
    <3>7. ~(i < k) /\ ~(k < i)
      BY <3>2, <3>3, <3>5, <3>6
    <3> QED
      BY <3>2, <3>4, <3>6, <3>7
  <2> QED
    BY <2>1, <2>2
<1>4. PathTypeOK'
  BY <1>1, <1>2 DEF PathInv, PathTypeOK
<1> QED
  BY <1>1, <1>2, <1>3, <1>4 DEF PathInv, ForgeryNeverWins, EndsWith

\* Types do not depend on how "*" is configured.
LEMMA PathTypeNext == PathTypeOK /\ [PathNext]_pathVars => PathTypeOK'
<1> SUFFICES ASSUME PathTypeOK, [PathNext]_pathVars
             PROVE  PathTypeOK'
  OBVIOUS
<1>1. ASSUME NEW next \in Addr, NEW header \in Seq(Addr), PassOn(header, next)
      PROVE  PathTypeOK'
  BY <1>1 DEF PassOn, PathTypeOK
<1>2. ASSUME NEW next \in Addr, Observe(next) PROVE PathTypeOK'
  <2>1. Append(hops, at) \in Seq(Addr)
    BY DEF PathTypeOK
  <2> QED
    BY <1>1, <1>2, <2>1 DEF Observe
<1>3. ASSUME NEW next \in Addr, NEW header \in Headers, Rewrite(header, next)
      PROVE  PathTypeOK'
  <2>1. header \in Seq(Addr)
    BY DEF Headers
  <2> QED
    BY <1>1, <1>3, <2>1 DEF Rewrite
<1>4. CASE Arrive
  BY <1>4 DEF Arrive, PathTypeOK
<1>5. CASE UNCHANGED pathVars
  BY <1>5 DEF pathVars, PathTypeOK
<1> QED
  BY <1>2, <1>3, <1>4, <1>5 DEF PathNext

LEMMA PathInvNext == Star = FALSE /\ PathInv /\ [PathNext]_pathVars => PathInv'
<1> SUFFICES ASSUME Star = FALSE, PathInv, [PathNext]_pathVars
             PROVE  PathInv'
  OBVIOUS
<1>1. ASSUME NEW next \in Addr, Observe(next) PROVE PathInv'
  <2>1. Append(hops, at) \in Seq(Addr)
    BY DEF PathInv, PathTypeOK
  <2>2. outsider # Nobody => EndsWith(Append(hops, at), outsider)
    BY AppendEnds
  <2>3. PassOn(Append(hops, at), next)
    BY <1>1 DEF Observe
  <2> QED
    BY <2>1, <2>2, <2>3, PassOnKeepsPathInv
<1>2. ASSUME NEW next \in Addr, NEW header \in Headers, Rewrite(header, next) PROVE PathInv'
  <2>1. header \in Seq(Addr)
    BY DEF Headers
  <2>2. next \notin Proxies /\ PassOn(header, next)
    BY <1>2 DEF Rewrite
  <2> QED
    BY <2>1, <2>2, PassOnKeepsPathInv
<1>3. CASE Arrive
  BY <1>3, ArriveKeepsPathInv
<1>4. CASE UNCHANGED pathVars
  BY <1>4 DEF pathVars, PathInv, PathTypeOK, ForgeryNeverWins, EndsWith
<1> QED
  BY <1>1, <1>2, <1>3, <1>4 DEF PathNext

-----------------------------------------------------------------------------
(* The body: BodyLimit *)


\* What the count means while the body is read, and after each outcome.
CountInv ==
    /\ status \in {"new", "reading", "gone"} => delivered = total /\ total <= Cap(route)
    /\ status = "new" => total = 0

BodyInv == BodyTypeOK /\ CountInv /\ HeldWithinCap /\ OnlyOversizedRefused

LEMMA CapNat == ASSUME NEW r PROVE Cap(r) \in Nat
  BY BodyLimitAssumption DEF Cap

LEMMA BodyInvInit == BodyInit => BodyInv
<1> SUFFICES ASSUME BodyInit PROVE BodyInv
  OBVIOUS
<1>1. Cap(route) \in Nat /\ MaxChunk \in Nat /\ MaxBody \in Nat
  BY CapNat, BodyLimitAssumption
<1>2. BodyTypeOK
  BY <1>1 DEF BodyInit, BodyTypeOK
<1>3. CountInv /\ HeldWithinCap /\ OnlyOversizedRefused
  BY <1>1 DEF BodyInit, CountInv, HeldWithinCap, OnlyOversizedRefused
<1> QED
  BY <1>2, <1>3 DEF BodyInv

LEMMA BodyInvNext == BodyInv /\ [BodyNext]_bodyVars => BodyInv'
<1> SUFFICES ASSUME BodyInv, [BodyNext]_bodyVars
             PROVE  BodyInv'
  OBVIOUS
<1>1. /\ Cap(route) \in Nat /\ MaxChunk \in Nat /\ MaxBody \in Nat
      /\ body \in Nat /\ total \in Nat /\ delivered \in Nat
      /\ total <= body /\ delivered <= total
  BY CapNat, BodyLimitAssumption DEF BodyInv, BodyTypeOK
<1>2. CASE Screen
  <2>1. /\ UNCHANGED <<request, total, delivered>> /\ status = "new"
        /\ status' \in {"400", "413", "reading"}
        /\ status' = "413" => declared # Invalid /\ TooLong(declared)
        /\ status' = "reading" => declared # Invalid
    BY <1>2 DEF Screen, TooLong
  <2>2. declared # Invalid /\ TooLong(declared) => TooLong(body)
    BY <1>1 DEF BodyInv, BodyTypeOK, TooLong, Undeclared
  <2>3. BodyTypeOK'
    BY <2>1 DEF BodyInv, BodyTypeOK, request
  <2>4. CountInv' /\ HeldWithinCap'
    BY <2>1 DEF BodyInv, BodyTypeOK, CountInv, HeldWithinCap, request, Cap
  <2>5. OnlyOversizedRefused'
    BY <2>1, <2>2 DEF OnlyOversizedRefused, request, TooLong, Cap
  <2> QED
    BY <2>3, <2>4, <2>5 DEF BodyInv
<1>3. ASSUME NEW n \in 1 .. MaxChunk, Chunk(n) PROVE BodyInv'
  <2>1. /\ UNCHANGED request /\ status = "reading"
        /\ n \in Nat /\ n <= MaxChunk /\ total' = total + n /\ total + n <= body
        /\ delivered = total /\ total <= Cap(route)
    BY <1>1, <1>3 DEF Chunk, BodyInv, CountInv
  <2>2. UNCHANGED <<route, declared, body>> /\ Cap(route)' = Cap(route)
    BY <2>1 DEF request, Cap
  <2>3. CASE TooLong(total')
    <3>1. status' = "413" /\ delivered' = delivered /\ total + n > Cap(route)
      BY <1>3, <2>1, <2>3 DEF Chunk, TooLong
    <3>2. BodyTypeOK'
      BY <1>1, <2>1, <2>2, <3>1 DEF BodyInv, BodyTypeOK
    <3>3. CountInv' /\ HeldWithinCap'
      BY <1>1, <2>1, <2>2, <3>1 DEF BodyInv, CountInv, HeldWithinCap
    <3>4. OnlyOversizedRefused'
      BY <1>1, <2>1, <2>2, <3>1 DEF OnlyOversizedRefused, TooLong
    <3> QED
      BY <3>2, <3>3, <3>4 DEF BodyInv
  <2>4. CASE ~TooLong(total')
    <3>1. status' = "reading" /\ delivered' = total' /\ total + n <= Cap(route)
      BY <1>1, <1>3, <2>1, <2>4 DEF Chunk, TooLong
    <3>2. BodyTypeOK'
      BY <1>1, <2>1, <2>2, <3>1 DEF BodyInv, BodyTypeOK
    <3>3. CountInv' /\ HeldWithinCap'
      BY <1>1, <2>1, <2>2, <3>1 DEF BodyInv, CountInv, HeldWithinCap
    <3>4. OnlyOversizedRefused'
      BY <3>1 DEF OnlyOversizedRefused
    <3> QED
      BY <3>2, <3>3, <3>4 DEF BodyInv
  <2> QED
    BY <2>3, <2>4
<1>4. ASSUME Handle \/ Disconnect PROVE BodyInv'
  <2>1. /\ UNCHANGED <<route, declared, body, total, delivered>>
        /\ status = "reading" /\ delivered = total /\ total <= Cap(route)
        /\ \/ status' = "handled" /\ total = body
           \/ status' = "gone"
    BY <1>4 DEF Handle, Disconnect, request, BodyInv, CountInv
  <2>2. BodyTypeOK'
    BY <2>1 DEF BodyInv, BodyTypeOK
  <2>3. CountInv' /\ HeldWithinCap' /\ OnlyOversizedRefused'
    BY <1>1, <2>1 DEF BodyInv, CountInv, HeldWithinCap, OnlyOversizedRefused, Cap
  <2> QED
    BY <2>2, <2>3 DEF BodyInv
<1>5. CASE UNCHANGED bodyVars
  BY <1>5 DEF bodyVars, BodyInv, BodyTypeOK, CountInv, HeldWithinCap, OnlyOversizedRefused, TooLong, Cap
<1> QED
  BY <1>2, <1>3, <1>4, <1>5 DEF BodyNext

LEMMA BodyInvHolds == BodySpec => []BodyInv
  BY BodyInvInit, BodyInvNext, PTL DEF BodySpec

-----------------------------------------------------------------------------
(* Both together *)

\* A step of Edge is a step of the path, of the body, or of both at once: what is
\* proved of each part holds of the composition (Handle with Arrive in Serve).
THEOREM UsesBothParts == Spec => PathSpec /\ BodySpec
<1>1. Init => PathInit /\ BodyInit
  BY DEF Init
<1>2. [Next]_vars => [PathNext]_pathVars /\ [BodyNext]_bodyVars
  <2> SUFFICES ASSUME [Next]_vars
               PROVE  [PathNext]_pathVars /\ [BodyNext]_bodyVars
    OBVIOUS
  <2>1. CASE Travel
    BY <2>1 DEF Travel, PathNext
  <2>2. CASE Receive
    BY <2>2 DEF Receive, BodyNext
  <2>3. CASE Serve
    BY <2>3 DEF Serve, PathNext, BodyNext
  <2>4. CASE UNCHANGED vars
    BY <2>4 DEF vars
  <2> QED
    BY <2>1, <2>2, <2>3, <2>4 DEF Next
<1> QED
  BY <1>1, <1>2, PTL DEF Spec, PathSpec, BodySpec

\* Types of the address part; however a header was put together, it is a list of
\* addresses (auth.py:client_ip).
LEMMA PathTypeCorrect == Spec => []PathTypeOK
<1>1. PathInit => PathTypeOK
  BY PathInvInit DEF PathInv
<1> QED
  BY <1>1, PathTypeNext, UsesBothParts, PTL DEF PathSpec

\* Types of both parts; the application is never ahead of the wire
\* (_BodySizeLimitASGI).
THEOREM EdgeTypeCorrect == Spec => []EdgeTypeOK
<1>1. BodyInv => BodyTypeOK
  BY DEF BodyInv
<1>2. PathTypeOK /\ BodyTypeOK => EdgeTypeOK
  BY DEF EdgeTypeOK
<1> QED
  BY <1>1, <1>2, PathTypeCorrect, BodyInvHolds, UsesBothParts, PTL

\* Unless "*" is configured, no header sent from outside decides which address
\* the rate limits see (auth.py:client_ip).
THEOREM ForgeryNeverDecides == Star = FALSE => (Spec => []ForgeryNeverWins)
<1> SUFFICES ASSUME Star = FALSE PROVE Spec => []ForgeryNeverWins
  OBVIOUS
<1>1. PathInit => PathInv
  BY PathInvInit
<1>2. PathInv /\ [PathNext]_pathVars => PathInv'
  BY PathInvNext
<1>3. PathInv => ForgeryNeverWins
  BY DEF PathInv
<1> QED
  BY <1>1, <1>2, <1>3, UsesBothParts, PTL DEF PathSpec

\* _BodySizeLimitASGI: however a body is cut into chunks, the application never
\* holds more of it than the route's cap.
THEOREM CapHolds == Spec => []HeldWithinCap
<1>1. BodyInv => HeldWithinCap
  BY DEF BodyInv
<1> QED
  BY <1>1, BodyInvHolds, UsesBothParts, PTL

\* _BodySizeLimitASGI: nothing within the cap is refused for its size, nothing
\* over it is handled.
THEOREM RefusalsJustified == Spec => []OnlyOversizedRefused
<1>1. BodyInv => OnlyOversizedRefused
  BY DEF BodyInv
<1> QED
  BY <1>1, BodyInvHolds, UsesBothParts, PTL
================================================================================
