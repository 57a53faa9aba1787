--------------------------- MODULE MCTicketStore ---------------------------
(* Instances of TicketStore for TLC. *)
EXTENDS TicketStore, TLC

CONSTANTS fp1, o1, o2

Sub1(fp, src, sev, tier, origin, bundle) ==
    [fingerprint |-> fp, source |-> src, severity |-> sev, tier |-> tier,
     origin |-> origin, bundle |-> bundle]

\* One crash seen by two tiers on /forward, the same fingerprint on /web, and a
\* report without a fingerprint.
MixedSubmissions ==
    {Sub1(fp1, "forward", "s1_crash", "team", NoOrigin, FALSE),
     Sub1(fp1, "forward", "unlisted", "associate", NoOrigin, FALSE),
     Sub1(fp1, "web", "s3_degraded", "associate", NoOrigin, FALSE),
     Sub1(NoFp, "forward", "s2_broken", "team", NoOrigin, FALSE)}

\* One repeated crash: the shortest road to a race on one ticket.
OneCrash == {Sub1(fp1, "forward", "s1_crash", "team", NoOrigin, FALSE)}

\* The same crash reported under two box-local ids, the second with a bundle.
TwoBoxes ==
    {Sub1(fp1, "forward", "s1_crash", "team", o1, FALSE),
     Sub1(fp1, "forward", "s1_crash", "team", o2, TRUE)}

Symmetric == Permutations(Procs) \cup Permutations(TicketId)
=============================================================================
