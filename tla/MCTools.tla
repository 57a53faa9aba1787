------------------------------- MODULE MCTools -------------------------------
(* The two tools that keep ledgers, one per behaviour: they share no state, so  *)
(* that their product would show nothing more.  The report starts on an empty   *)
(* ledger or on that of a licence where 2 or 8 machines checked in on day 0.    *)
EXTENDS MCStamps, SeatReport
CONSTANTS lic, pro, team,
          Starts,       \* machines seen on day 0
          MaxCheckIns   \* bound: lines added to an empty ledger, one less to another

Sold == {[tier |-> pro, seats |-> 1], [tier |-> team, seats |-> 0]}
Default == [t \in Tier \cup {None} |-> CASE t = pro -> 2 [] t = team -> 0 [] t = None -> 1]

VARIABLES tool, start
vars == <<tool, start, stampVars, seatVars>>

\* Machines 1 to n have checked in, by complete lines.
SeatStart(n) ==
    /\ today = 0
    /\ terms \in [Licence -> Terms]
    /\ lines = [i \in 1 .. n |-> [lic |-> lic, fp |-> i, tier |-> terms[lic].tier,
                                  seats |-> terms[lic].seats, ts |-> today]]
    /\ visits = [i \in 1 .. n |-> [lic |-> lic, fp |-> i, ts |-> today, under |-> terms[lic]]]

Init ==
    /\ StampInit
    /\ \/ tool = "stamps" /\ start = 0 /\ SeatInit /\ terms[lic].tier = pro
       \/ tool = "report" /\ start \in Starts /\ SeatStart(start)

Seen == {lines[i].fp : i \in DOMAIN lines} \ {None}

\* Machines are numbered in the order they are first seen, and of those seen on day 0
\* only the first comes back.
Numbered ==
    lines' # lines =>
        LET fp == lines'[Len(lines')].fp
        IN  fp = None \/ (fp <= Cardinality(Seen) + 1 /\ fp \notin 2 .. start)

Next ==
    /\ UNCHANGED <<tool, start>>
    /\ \/ tool = "stamps" /\ StampNext /\ UNCHANGED seatVars
       \/ /\ tool = "report" /\ SeatNext /\ UNCHANGED stampVars
          /\ Numbered /\ Len(lines') <= start + MaxCheckIns - (IF start = 0 THEN 0 ELSE 1)

Spec == Init /\ [][Next]_vars
=============================================================================
