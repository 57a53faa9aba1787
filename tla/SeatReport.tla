------------------------------ MODULE SeatReport ------------------------------
(***************************************************************************)
(* tools/concurrency_report.py: boxes check in, the ledger grows by a line *)
(* each time, and the report counts the distinct machines of a licence in  *)
(* a window and holds them against its seats on a ladder of severities.    *)
(* The report keeps no state: it is a function of the ledger and the time. *)
(***************************************************************************)
EXTENDS Integers, Sequences, FiniteSets, FiniteSetsExt

CONSTANTS
    Licence,       \* values of license_id
    Machine,       \* fingerprints
    Terms,         \* what a licence may be sold as: tier and seats, 0: unlimited
    Tier,          \* the tiers
    DefaultSeats,  \* _DEFAULT_SEATS, 1 for a tier it does not list
    None,          \* an absent or empty field of a line; --now omitted
    Bad,           \* a `seats` that is no integer, or a negative one
    Fields,        \* what boxes send: "all", no date, seats as "text", neither seats nor tier
    Window,        \* --window-days
    MaxLedger,     \* bound: lines of the ledger
    MaxDay         \* bound: last day

ASSUME SeatAssumption ==
    /\ None \notin Licence \cup Machine \cup Tier \cup Int
    /\ Bad \notin Int \cup {None}
    /\ Fields \subseteq {"all", "undated", "text", "none"}
    /\ DefaultSeats \in [Tier \cup {None} -> Nat]
    /\ Terms \subseteq [tier : Tier, seats : Nat]
    /\ Window \in Nat /\ MaxLedger \in Nat /\ MaxDay \in Nat

VARIABLES
    lines,    \* the check-in ledger
    today,    \* the day
    terms,    \* what each licence is sold with at present
    visits    \* history: for each line, who checked in when under what terms

seatVars == <<lines, today, terms, visits>>

-----------------------------------------------------------------------------
(* analyze *)

\* Mutation of Counts: a line of the first day of the window is left out.
Counts_Exclusive(line, lic, now) ==
    /\ line.lic = lic
    /\ now # None /\ line.ts # None => line.ts > now - Window

\* The line is one of lic, and not known to be older than the window.
Counts(line, lic, now) ==
    /\ line.lic = lic
    /\ now # None /\ line.ts # None => line.ts >= now - Window

Counted(lic, now) == {i \in DOMAIN lines : Counts(lines[i], lic, now)}

\* Fingerprints seen; one machine counts once.
Machines(lic, now) == {lines[i].fp : i \in Counted(lic, now)} \ {None}

Given(lic, now, field) == {i \in Counted(lic, now) : lines[i][field] # None}

\* The last tier in the order of the lines.
TierOf(lic, now) ==
    LET given == Given(lic, now, "tier")
    IN  IF given = {} THEN None ELSE lines[Max(given)].tier

\* Mutation of SeatsOf: a later line without seats takes them away.
SeatsOf_Latest(lic, now) ==
    IF Counted(lic, now) = {} THEN None ELSE lines[Max(Counted(lic, now))].seats

\* The first `seats`.
SeatsOf(lic, now) ==
    LET given == Given(lic, now, "seats")
    IN  IF given = {} THEN None ELSE lines[Min(given)].seats

\* _seat_allowance
Allowance(tier, seats) == IF seats \in Nat THEN seats ELSE DefaultSeats[tier]

AllowanceOf(lic, now) == Allowance(TierOf(lic, now), SeatsOf(lic, now))

\* The most machines that are still only "review".
ReviewLimit(seats) == IF seats * 5 > 9 THEN seats * 5 ELSE 9

\* Mutation of Rung: the wider rung is asked first, so nobody is ever notified.
Rung_Swapped(distinct, seats) ==
    CASE seats = 0 \/ distinct <= seats -> 0
      [] seats # 0 /\ distinct > seats /\ distinct <= ReviewLimit(seats) -> 2
      [] seats # 0 /\ distinct > seats /\ distinct > ReviewLimit(seats) -> 3

\* _severity: 0 ok, 1 notify, 2 review, 3 escalate.
Rung(distinct, seats) ==
    CASE seats = 0 \/ distinct <= seats -> 0
      [] seats # 0 /\ distinct > seats /\ distinct <= seats + 2 -> 1
      [] seats # 0 /\ distinct > seats + 2 /\ distinct <= ReviewLimit(seats) -> 2
      [] seats # 0 /\ distinct > seats + 2 /\ distinct > ReviewLimit(seats) -> 3

\* The rung of lic in the report of the window that ends today (now = today), or
\* of all lines.
Standing(lic, now) == Rung(Cardinality(Machines(lic, now)), AllowanceOf(lic, now))

-----------------------------------------------------------------------------
(* The ledger *)

SeatInit ==
    /\ lines = <<>>
    /\ today = 0
    /\ terms \in [Licence -> Terms]
    /\ visits = <<>>

\* A box checks in.  Its line may lack any field but the licence: an old box sends
\* no seats or no tier either, some feed writes no date or the seats as text.
CheckIn(lic, fp, fields) ==
    LET ts == IF fields = "undated" THEN None ELSE today
        tier == IF fields = "none" THEN None ELSE terms[lic].tier
        seats == CASE fields \in {"all", "undated"} -> terms[lic].seats
                   [] fields = "text" -> Bad
                   [] fields = "none" -> None
    IN  /\ Len(lines) < MaxLedger
        /\ lines' = Append(lines, [lic |-> lic, fp |-> fp, tier |-> tier,
                                     seats |-> seats, ts |-> ts])
        /\ visits' = Append(visits, [lic |-> lic, fp |-> fp, ts |-> ts, under |-> terms[lic]])
        /\ UNCHANGED <<today, terms>>

\* A renewal, an upgrade or a downgrade.
Renew(lic, t) ==
    /\ Len(lines) < MaxLedger
    /\ terms' = [terms EXCEPT ![lic] = t]
    /\ UNCHANGED <<lines, today, visits>>

NextDay ==
    /\ today < MaxDay
    /\ today' = today + 1
    /\ UNCHANGED <<lines, terms, visits>>

SeatNext ==
    \/ \E lic \in Licence, fp \in Machine \cup {None}, fields \in Fields :
          CheckIn(lic, fp, fields)
    \/ \E lic \in Licence, t \in Terms : Renew(lic, t)
    \/ NextDay

SeatSpec == SeatInit /\ [][SeatNext]_seatVars

-----------------------------------------------------------------------------
(* Properties *)

Line == [lic : Licence, fp : Machine \cup {None}, tier : Tier \cup {None},
         seats : Nat \cup {None, Bad}, ts : 0 .. MaxDay \cup {None}]

Visit == [lic : Licence, fp : Machine \cup {None}, ts : 0 .. MaxDay \cup {None}, under : Terms]

\* Types; no line is from the future, and every line has its history.
SeatTypeOK ==
    /\ lines \in Seq(Line) /\ visits \in Seq(Visit)
    /\ Len(visits) = Len(lines)
    /\ today \in 0 .. MaxDay
    /\ terms \in [Licence -> Terms]
    /\ \A i \in DOMAIN lines : lines[i].ts # None => lines[i].ts <= today

\* The visits of lic that a report asked at `now` is about.
Recent(lic, now) ==
    {i \in DOMAIN visits : /\ visits[i].lic = lic
                           /\ now # None /\ visits[i].ts # None => now - visits[i].ts <= Window}

\* concurrency_report.py l.4-6 ("licences whose distinct-machine count exceeds their
\* purchased seat allowance"): a customer whose terms did not change is reported if
\* and only if more machines than it bought checked in, however often each did, in
\* whatever order, with whatever fields left out, as long as one line has the seats.
ReportedIffOver ==
    \A lic \in Licence, now \in {today, None} :
        LET recent == Recent(lic, now)
            distinct == Cardinality({visits[i].fp : i \in recent} \ {None})
            seats == terms[lic].seats
        IN  /\ \A i \in recent : visits[i].under = terms[lic] /\ lines[i].seats # Bad
            /\ \E i \in recent : lines[i].seats # None
            => (Standing(lic, now) = 0 <=> seats = 0 \/ distinct <= seats)

\* l.36-39, l.79-80: over renewals, upgrades and downgrades the allowance is never
\* made up: it is one the licence had when one of the counted lines was sent.
AllowanceWasBought ==
    \A lic \in Licence, now \in {today, None} :
        LET counted == Counted(lic, now)
        IN  /\ \A i \in counted : lines[i].seats # Bad
            /\ \E i \in counted : lines[i].seats # None
            => \E i \in Recent(lic, now) : AllowanceOf(lic, now) = visits[i].under.seats

\* l.8-9 ("notify-first, throttle-candidate-second, human-review-only for the
\* extreme case"): unless the allowance changes, one check-in moves a licence up
\* one rung at most, and none moves it down.
NotifyFirst ==
    [][\A lic \in Licence, now \in {today, None} :
           lines' # lines /\ AllowanceOf(lic, now)' = AllowanceOf(lic, now)
           => /\ Standing(lic, now) <= Standing(lic, now)'
              /\ Standing(lic, now)' <= Standing(lic, now) + 1]_seatVars
=============================================================================
