---------------------------- MODULE MCBodyLimit ----------------------------
(* Instance of BodyLimit: one unit is 32 KiB.                                *)
EXTENDS BodyLimit

\* /forward: a diagnostic_bundle of 200,000 characters and about 16 KB of other
\* fields; /attachment: scaled down with its cap; the others fit well.
Fields == [r \in Route |-> CASE r = "forward" -> 6 [] r = "attachment" -> 7 [] r = "web" -> 1]
=============================================================================
