------------------------------- MODULE MCStamps -------------------------------
(* Instance of Stamps: one tree used again, two sites, two customers and ids.   *)
EXTENDS Stamps, TLC
CONSTANTS ann, bob, d1, d2, stampKey, licenceKey, stranger

PayloadsInUse == Claims

\* Embedded and private with a ledger, and private without.
Options == {[embed |-> TRUE, keep |-> TRUE], [embed |-> FALSE, keep |-> TRUE],
            [embed |-> FALSE, keep |-> FALSE]}
StampSymmetry == Permutations({ann, bob}) \cup Permutations({d1, d2})
=============================================================================
