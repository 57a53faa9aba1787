---------------------------- MODULE RateLimiter ----------------------------
(***************************************************************************)
(* The in-memory sliding-window limiter (app/ratelimit.py) and the way the *)
(* intake routes use it: /web, /email and /license/verify spend one slot   *)
(* of their caller's IP; /forward spends a slot of the IP and then one of  *)
(* the install.  rate_ok never awaits, so a whole call is one step.        *)
(***************************************************************************)
EXTENDS Integers, Sequences

CONSTANTS IpKey,       \* buckets keyed by client IP
          InstallKey,  \* buckets keyed by install_id (or by IP when it is absent)
          Limit,       \* Limit[k]: the limit rate_ok is called with for bucket k
          Window,      \* _RATE_WINDOW
          MaxClock     \* bound: last instant of the monotonic clock

Key == IpKey \cup InstallKey

ASSUME LimiterAssumption ==
    /\ IpKey \cap InstallKey = {}
    /\ Limit \in [Key -> Nat \ {0}]    \* the routes pass max(int(...), 1)
    /\ Window \in Nat
    /\ MaxClock \in Nat

VARIABLES
    clock,    \* time.monotonic()
    hits,     \* _hits: for each bucket, the times of the calls it remembers
    log,      \* history: the times of all calls accepted since the process started
    dropped,  \* history: how many of them the bucket has forgotten
    verdict   \* history: the last answer of rate_ok, [key, ok, at]

vars == <<clock, hits, log, dropped, verdict>>

NoVerdict == [key |-> "none", ok |-> TRUE, at |-> 0]

Init ==
    /\ clock = 0
    /\ hits = [k \in Key |-> <<>>]
    /\ log = [k \in Key |-> <<>>]
    /\ dropped = [k \in Key |-> 0]
    /\ verdict = NoVerdict

-----------------------------------------------------------------------------
(* rate_ok *)

\* Mutations of Evicts: a hit exactly Window old is dropped; nothing ever is.
Evicts_AtWindow(q, n) ==
    /\ \A i \in 1 .. n : clock - q[i] >= Window
    /\ n < Len(q) => clock - q[n + 1] < Window
Evicts_Nothing(q, n) == n = 0

\* The popleft loop removes exactly the first n hits of q.
Evicts(q, n) ==
    /\ \A i \in 1 .. n : clock - q[i] > Window
    /\ n < Len(q) => clock - q[n + 1] <= Window

\* What the loop leaves of bucket k, and the answer to a call that finds it.
Kept(k, n) == SubSeq(hits[k], n + 1, Len(hits[k]))
Answers(k, n, ok) ==
    /\ n \in 0 .. Len(hits[k])
    /\ Evicts(hits[k], n)
    /\ ok = (Len(Kept(k, n)) < Limit[k])

\* The bucket after the call: an accepted call is remembered.
After(k, n, ok) == IF ok THEN Append(Kept(k, n), clock) ELSE Kept(k, n)
Logged(k, ok) == IF ok THEN Append(log[k], clock) ELSE log[k]

\* rate_ok(k, Limit[k]) returns ok.
RateOk(k, ok) ==
    \E n \in 0 .. Len(hits[k]) :
        /\ Answers(k, n, ok)
        /\ hits' = [hits EXCEPT ![k] = After(k, n, ok)]
        /\ log' = [log EXCEPT ![k] = Logged(k, ok)]
        /\ dropped' = [dropped EXCEPT ![k] = dropped[k] + n]
        /\ verdict' = [key |-> k, ok |-> ok, at |-> clock]

-----------------------------------------------------------------------------
(* The routes *)

\* /web, /email and /license/verify: one bucket.
Check(k, ok) == RateOk(k, ok) /\ UNCHANGED clock

\* The IP has room: its slot is spent, then the install decides.
BothAnswer(ip, inst, ok) ==
    \E n \in 0 .. Len(hits[ip]), m \in 0 .. Len(hits[inst]) :
        /\ Answers(ip, n, TRUE)
        /\ Answers(inst, m, ok)
        /\ hits' = [hits EXCEPT ![ip] = After(ip, n, TRUE), ![inst] = After(inst, m, ok)]
        /\ log' = [log EXCEPT ![ip] = Logged(ip, TRUE), ![inst] = Logged(inst, ok)]
        /\ dropped' = [dropped EXCEPT ![ip] = dropped[ip] + n, ![inst] = dropped[inst] + m]
        /\ verdict' = [key |-> inst, ok |-> ok, at |-> clock]

\* Mutation of Forward: the install is asked first.
Forward_InstallFirst(ip, inst, ok) ==
    /\ \/ ~ok /\ RateOk(inst, FALSE)
       \/ BothAnswer(inst, ip, ok)
    /\ UNCHANGED clock

\* /forward: the IP first; only if it has room, the install.
Forward(ip, inst, ok) ==
    /\ \/ ~ok /\ RateOk(ip, FALSE)
       \/ BothAnswer(ip, inst, ok)
    /\ UNCHANGED clock

Tick ==
    /\ clock < MaxClock
    /\ clock' = clock + 1
    /\ UNCHANGED <<hits, log, dropped, verdict>>

\* Everything is in the process's memory.
Restart ==
    /\ hits' = [k \in Key |-> <<>>]
    /\ log' = [k \in Key |-> <<>>]
    /\ dropped' = [k \in Key |-> 0]
    /\ verdict' = NoVerdict
    /\ UNCHANGED clock

Next ==
    \/ \E k \in IpKey, ok \in BOOLEAN : Check(k, ok)
    \/ \E ip \in IpKey, inst \in InstallKey, ok \in BOOLEAN : Forward(ip, inst, ok)
    \/ Tick
    \/ Restart

Spec == Init /\ [][Next]_vars

-----------------------------------------------------------------------------
(* Properties *)

Times == Seq(Nat)

\* Types; a bucket never remembers more hits than its limit.
TypeOK ==
    /\ clock \in Nat
    /\ hits \in [Key -> Times]
    /\ log \in [Key -> Times]
    /\ dropped \in [Key -> Nat]
    /\ \A k \in Key : Len(hits[k]) <= Limit[k]

\* The budget: of Limit + 1 consecutive accepted calls of a bucket, the last is
\* more than Window after the first, so no closed window of that length, wherever
\* it starts, holds more than Limit of them (while the process lives).
WindowBound ==
    \A k \in Key : \A i, j \in 1 .. Len(log[k]) :
        j - i >= Limit[k] => log[k][j] - log[k][i] > Window

\* A call is rejected only when the last Limit accepted calls of its bucket are
\* all within Window of it: forgetting old hits never keeps a caller locked out.
RejectsOnlyWhenFull ==
    ~verdict.ok =>
        LET accepted == log[verdict.key]
            limit == Limit[verdict.key] IN
        /\ Len(accepted) >= limit
        /\ \A i \in Len(accepted) - limit + 1 .. Len(accepted) :
               verdict.at - accepted[i] <= Window

Exact == INSTANCE SlidingWindow WITH accepted <- log

\* ratelimit.py l.19-20: the deques, pruned only when their key calls again, decide as
\* if every accepted call were remembered and the window counted anew each time.
\* diagnostics.py l.116-119: an install is asked, and its slot spent, only in a step in
\* which an address that has room was asked first; it is never asked alone.
ImplementsSlidingWindow == Exact!Spec
=============================================================================
