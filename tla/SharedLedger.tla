---------------------------- MODULE SharedLedger ----------------------------
(***************************************************************************)
(* What create_or_dedupe promises callers that overlap.  Every report is   *)
(* filed at most once, at one instant: in a ticket of its own key or in a  *)
(* new one.  At most Overlap tickets of a key are opened side by side.     *)
(* The count of a ticket may lose reports, to fewer than it had shown      *)
(* before, but never counts one that was not filed.  A receipt names the   *)
(* ticket for good.  DedupeLedger is what remains when nothing overlaps.   *)
(***************************************************************************)
EXTENDS Integers, Sequences, FiniteSets

CONSTANTS TicketId,
          Keys,         \* what decides that two reports belong together
          UniqueKeys,   \* the keys whose reports never merge
          Overlap       \* how many calls may overlap

VARIABLES asked,     \* the key of each report, in order of arrival
          filed,     \* filed[r]: the ticket of report r
          count,     \* count[t]: the reports t says it has
          key,       \* key[t]: what t's reports have in common
          open,      \* the tickets not closed by an operator
          receipt    \* receipt[r]: the ticket the caller of r was told

vars == <<asked, filed, count, key, open, receipt>>

Nothing == [x \in {} |-> 0]

Init ==
    /\ asked = <<>> /\ filed = Nothing /\ receipt = Nothing
    /\ count = Nothing /\ key = Nothing /\ open = {}

Extend(f, x, y) == [z \in DOMAIN f \cup {x} |-> IF z = x THEN y ELSE f[z]]

Pending == DOMAIN asked \ DOMAIN filed
FiledIn(t) == {r \in DOMAIN filed : filed[r] = t}
OpenFor(k) == {t \in open : key[t] = k}

Ask(k) ==
    /\ asked' = Append(asked, k)
    /\ UNCHANGED <<filed, count, key, open, receipt>>

Open(r, t) ==
    /\ asked[r] \notin UniqueKeys => Cardinality(OpenFor(asked[r])) < Overlap
    /\ filed' = Extend(filed, r, t)
    /\ count' = Extend(count, t, 1)
    /\ key' = Extend(key, t, asked[r])
    /\ open' = open \cup {t}
    /\ UNCHANGED <<asked, receipt>>

\* t took reports when r was assigned to it; it may have been closed since.
Merge(r, t) ==
    /\ key[t] = asked[r] /\ key[t] \notin UniqueKeys
    /\ filed' = Extend(filed, r, t)
    /\ \E n \in 2 .. Cardinality(FiledIn(t)) + 1 : count' = [count EXCEPT ![t] = n]
    /\ UNCHANGED <<asked, key, open, receipt>>

Acknowledge(r) ==
    /\ receipt' = Extend(receipt, r, filed[r])
    /\ UNCHANGED <<asked, filed, count, key, open>>

Close(t) ==
    /\ open' = open \ {t}
    /\ UNCHANGED <<asked, filed, count, key, receipt>>

Next ==
    \/ \E k \in Keys : Ask(k)
    \/ \E r \in Pending : \/ \E t \in TicketId \ DOMAIN count : Open(r, t)
                          \/ \E t \in DOMAIN count : Merge(r, t)
    \/ \E r \in DOMAIN filed \ DOMAIN receipt : Acknowledge(r)
    \/ \E t \in open : Close(t)

Spec == Init /\ [][Next]_vars
=============================================================================
