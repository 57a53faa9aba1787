------------------------------ MODULE Register ------------------------------
(***************************************************************************)
(* What an authority promises its clients: an atomic register per channel  *)
(* and per customer.  A write takes effect at one instant between its call *)
(* and its end; of two writes of a cell that overlap, the one overwritten  *)
(* may take effect just before the other, seen by nobody.  Only a write    *)
(* that took effect is acknowledged; one that is not may have taken effect *)
(* or not.  A read returns the value in effect.                            *)
(***************************************************************************)
EXTENDS Naturals

CONSTANTS Client, Cell, Value,
          None    \* the value of a cell never written

VARIABLES value,   \* value[c]: the value in effect
          call,    \* call[p]: the write client p has under way, if any
          seen,    \* seen[c]: what the last read of c returned
          told     \* told[c]: how many writes of c were acknowledged

vars == <<value, call, seen, told>>

NoCall == [stage |-> "none"]

Init ==
    /\ value = [c \in Cell |-> None]
    /\ call = [p \in Client |-> NoCall]
    /\ seen = [c \in Cell |-> None]
    /\ told = [c \in Cell |-> 0]

Begin(p) ==
    /\ call[p] = NoCall
    /\ call'[p] \in [stage : {"called"}, cell : Cell, value : Value]
    /\ call' = [call EXCEPT ![p] = call'[p]]
    /\ UNCHANGED <<value, seen, told>>

\* p's write takes effect, and just before it those of the clients in overwritten.
Write(p, overwritten) ==
    /\ call[p].stage = "called"
    /\ \A q \in overwritten : call[q].stage = "called" /\ call[q].cell = call[p].cell
    /\ value' = [value EXCEPT ![call[p].cell] = call[p].value]
    /\ call' = [q \in Client |-> IF q \in overwritten \cup {p}
                                 THEN [call[q] EXCEPT !.stage = "done"] ELSE call[q]]
    /\ UNCHANGED <<seen, told>>

\* A write is acknowledged, which took effect.
Return(p) ==
    /\ call[p].stage = "done"
    /\ call' = [call EXCEPT ![p] = NoCall]
    /\ told' = [told EXCEPT ![call[p].cell] = @ + 1]
    /\ UNCHANGED <<value, seen>>

\* The writes of some clients fail, or nobody is told how they ended: none is
\* acknowledged.
Abort ==
    /\ call' = [p \in Client |-> IF call'[p] = NoCall THEN NoCall ELSE call[p]]
    /\ UNCHANGED <<value, seen, told>>

Read(c) ==
    /\ seen' = [seen EXCEPT ![c] = value[c]]
    /\ UNCHANGED <<value, call, told>>

Next ==
    \/ Abort
    \/ \E p \in Client : Begin(p) \/ Return(p)
    \/ \E c \in Cell : Read(c)
    \/ \E p \in Client, overwritten \in SUBSET Client : Write(p, overwritten)

Spec == Init /\ [][Next]_vars
=============================================================================
