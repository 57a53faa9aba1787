---------------------------- MODULE DedupeLedger ----------------------------
(***************************************************************************)
(* What create_or_dedupe promises a caller that is never overlapped: one   *)
(* ledger of tickets, each with an exact count of its reports.  A report   *)
(* is first assigned (to the open ticket of its key, or to a ticket to be  *)
(* opened), then recorded by an atomic increment, or abandoned when the    *)
(* call fails.  No snapshots, no timestamps, no process to crash.          *)
(***************************************************************************)
EXTENDS Integers

CONSTANTS TicketId, NoTicket,
          Keys,         \* what decides that two reports belong together
          UniqueKeys    \* the keys whose reports never merge

VARIABLES count,   \* count[t]: the reports recorded in ticket t
          key,     \* key[t]: what t's reports have in common
          open,    \* the tickets that still take reports
          plan     \* the report assigned but not yet recorded, if any

vars == <<count, key, open, plan>>

Init ==
    /\ count = [t \in {} |-> 0]
    /\ key = [t \in {} |-> 0]
    /\ open = {}
    /\ plan = {}

OpenFor(k) == {t \in open : key[t] = k /\ k \notin UniqueKeys}

Assign(k) ==
    /\ plan = {}
    /\ \/ \E t \in OpenFor(k) : plan' = {[key |-> k, ticket |-> t]}
       \/ OpenFor(k) = {} /\ plan' = {[key |-> k, ticket |-> NoTicket]}
    /\ UNCHANGED <<count, key, open>>

Extend(f, x, y) == [z \in DOMAIN f \cup {x} |-> IF z = x THEN y ELSE f[z]]

Count(a) ==
    /\ a.ticket # NoTicket
    /\ count' = [count EXCEPT ![a.ticket] = @ + 1]
    /\ plan' = {}
    /\ UNCHANGED <<key, open>>

Open(a, t) ==
    /\ a.ticket = NoTicket
    /\ count' = Extend(count, t, 1)
    /\ key' = Extend(key, t, a.key)
    /\ open' = open \cup {t}
    /\ plan' = {}

Abandon ==
    /\ plan # {}
    /\ plan' = {}
    /\ UNCHANGED <<count, key, open>>

Close(t) ==
    /\ open' = open \ {t}
    /\ UNCHANGED <<count, key, plan>>

Next ==
    \/ \E k \in Keys : Assign(k)
    \/ \E a \in plan : Count(a)
    \/ \E a \in plan, t \in TicketId \ DOMAIN count : Open(a, t)
    \/ Abandon
    \/ \E t \in open : Close(t)

Spec == Init /\ [][Next]_vars
=============================================================================
