--------------------------- MODULE SlidingWindow ---------------------------
(***************************************************************************)
(* What rate_ok promises (ratelimit.py l.19-20): a call is accepted, and   *)
(* recorded, exactly when fewer than Limit calls of its key were accepted  *)
(* in the trailing window.  No buckets and no eviction: every accepted     *)
(* call is remembered, and the window is counted anew at each call.        *)
(***************************************************************************)
EXTENDS Integers, Sequences, FiniteSets

CONSTANTS IpKey,       \* keys a caller may be asked for alone, or first
          InstallKey,  \* keys that are asked only after one of those had room
          Limit, Window

Key == IpKey \cup InstallKey

VARIABLES clock,
          accepted,   \* accepted[k]: the times of the accepted calls of k
          verdict     \* the last answer

vars == <<clock, accepted, verdict>>

NoVerdict == [key |-> "none", ok |-> TRUE, at |-> 0]

Init ==
    /\ clock = 0
    /\ accepted = [k \in Key |-> <<>>]
    /\ verdict = NoVerdict

\* The accepted calls of k in the trailing window, its first instant included.
Recent(k) == {i \in 1 .. Len(accepted[k]) : clock - accepted[k][i] <= Window}
HasRoom(k) == Cardinality(Recent(k)) < Limit[k]

Recorded(k) == IF HasRoom(k) THEN Append(accepted[k], clock) ELSE accepted[k]

Ask(k) ==
    /\ accepted' = [accepted EXCEPT ![k] = Recorded(k)]
    /\ verdict' = [key |-> k, ok |-> HasRoom(k), at |-> clock]
    /\ UNCHANGED clock

\* /forward: ip has room, so inst is asked too; its answer counts.
AskBoth(ip, inst) ==
    /\ HasRoom(ip)
    /\ accepted' = [accepted EXCEPT ![ip] = Recorded(ip), ![inst] = Recorded(inst)]
    /\ verdict' = [key |-> inst, ok |-> HasRoom(inst), at |-> clock]
    /\ UNCHANGED clock

Pass ==
    /\ clock' \in Nat /\ clock' > clock
    /\ UNCHANGED <<accepted, verdict>>

\* The process restarts.
Forget ==
    /\ accepted' = [k \in Key |-> <<>>]
    /\ verdict' = NoVerdict
    /\ UNCHANGED clock

Next ==
    \/ \E ip \in IpKey : Ask(ip)
    \/ \E ip \in IpKey, inst \in InstallKey : AskBoth(ip, inst)
    \/ Pass
    \/ Forget

Spec == Init /\ [][Next]_vars
=============================================================================
