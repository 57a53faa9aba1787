------------------------------ MODULE ClientIp ------------------------------
(***************************************************************************)
(* app/auth.py:client_ip, and the way a request reaches it: a machine that *)
(* is no configured proxy may send any X-Forwarded-For it likes, each      *)
(* configured proxy appends the address it received the request from.  The *)
(* address the server resolves keys every per-IP rate limit.               *)
(***************************************************************************)
EXTENDS Naturals, Sequences

CONSTANTS
    Addr,      \* addresses of machines
    Proxies,   \* machines inside the networks TRUSTED_PROXIES lists
    Star,      \* TRUSTED_PROXIES contains "*"
    MaxForged, \* bound: entries a machine invents
    MaxPath    \* bound: machines a request passes

Nobody == "unknown"

ASSUME ClientIpAssumption ==
    /\ Proxies \subseteq Addr
    /\ Star \in BOOLEAN
    /\ Nobody \notin Addr
    /\ MaxForged \in Nat /\ MaxPath \in Nat

VARIABLES
    at,        \* the machine that holds the request
    hops,      \* the X-Forwarded-For it holds
    passed,    \* machines the request has been at
    outsider,  \* history: the last of them that is no configured proxy
    resolved   \* what client_ip returned, Nobody before

pathVars == <<at, hops, passed, outsider, resolved>>

-----------------------------------------------------------------------------

\* _peer_is_trusted: "*" trusts every peer.
Trusted(a) == Star \/ a \in Proxies

\* Mutation of Hop: the leftmost untrusted entry.
Hop_Leftmost(header, i) ==
    /\ i \in DOMAIN header
    /\ ~Trusted(header[i])
    /\ \A j \in 1 .. i - 1 : Trusted(header[j])

\* header[i] is the rightmost entry that is not itself a trusted proxy.
Hop(header, i) ==
    /\ i \in DOMAIN header
    /\ ~Trusted(header[i])
    /\ \A j \in i + 1 .. Len(header) : Trusted(header[j])

\* client_ip returns a for a request from socket peer `peer`.
Resolves(peer, header, a) ==
    \/ ~Trusted(peer) /\ a = peer
    \/ Trusted(peer) /\ \E i \in DOMAIN header : Hop(header, i) /\ a = header[i]
    \/ /\ Trusted(peer) /\ a = peer
       /\ \A i \in DOMAIN header : Trusted(header[i])

-----------------------------------------------------------------------------

Headers == UNION {[1 .. n -> Addr] : n \in 0 .. MaxForged}

\* Some machine makes the request, with a header of its choice.
PathInit ==
    /\ at \in Addr
    /\ hops \in Headers
    /\ passed = 1
    /\ outsider = IF at \in Proxies THEN Nobody ELSE at
    /\ resolved = Nobody

\* A configured proxy passes the request on: it appends what it sees; any other
\* machine sends what it likes.  The next machine holds it then.
PassOn(header, next) ==
    /\ resolved = Nobody /\ passed < MaxPath
    /\ at' = next
    /\ hops' = header
    /\ passed' = passed + 1
    /\ outsider' = IF next \in Proxies THEN outsider ELSE next
    /\ UNCHANGED resolved

\* The request reaches a proxy, which appends the address it received it from.
Observe(next) == next \in Proxies /\ PassOn(Append(hops, at), next)

\* It reaches another machine, which will send on a header of its own.
Rewrite(header, next) == next \notin Proxies /\ PassOn(header, next)

\* The server receives the request from the machine that holds it.
Arrive ==
    /\ resolved = Nobody
    /\ \E a \in Addr : Resolves(at, hops, a) /\ resolved' = a
    /\ UNCHANGED <<at, hops, passed, outsider>>

PathNext ==
    \/ \E next \in Addr : Observe(next)
    \/ \E next \in Addr, header \in Headers : Rewrite(header, next)
    \/ Arrive

PathSpec == PathInit /\ [][PathNext]_pathVars

-----------------------------------------------------------------------------
(* Properties *)

\* Types; a header is a list of addresses, however it was put together.
PathTypeOK ==
    /\ at \in Addr
    /\ hops \in Seq(Addr)
    /\ passed \in Nat
    /\ outsider \in Addr \cup {Nobody}
    /\ resolved \in Addr \cup {Nobody}

\* auth.py l.82-88: whatever headers are forged on the way, the address resolved
\* is that of the last machine outside the configured proxies that held the
\* request, the one the first of our own proxies really observed.
ForgeryNeverWins ==
    resolved # Nobody /\ outsider # Nobody => resolved = outsider
=============================================================================
