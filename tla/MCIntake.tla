------------------------------ MODULE MCIntake ------------------------------
(* Instance of Intake: one address, which sends reports of one install and of none. *)
EXTENDS Intake

CONSTANTS a, x, k1, k2, token, wrong

IpKeys == {"forward", "web", "email", "verify"} \X {a}
InstallKeys == {"install"} \X {x, a}
Limits == [k \in IpKeys \cup InstallKeys |-> IF k[1] = "forward" THEN 2 ELSE 1]

Term == [tier |-> "master", expires |-> 1]
NoTier == [tier |-> "", expires |-> Never]
Payloads == {Term, NoTier}

\* A token that expires, one without a tier, and one that names the trusted key but was
\* signed by the other one.
Licenses == {Signed(Term, k1, k1), Signed(NoTier, k1, k1), Signed(Term, k2, k1)}

Single(k) == [json |-> "unset", keys |-> <<>>, single |-> <<k>>]
Nothing == [json |-> "unset", keys |-> <<>>, single |-> <<>>]

\* Everything configured; another key, and the mail worker not configured; nothing.
Configured ==
    {[forward |-> {token}, email |-> {token}, license |-> Single(k1)],
     [forward |-> {token}, email |-> {}, license |-> Single(k2)],
     [forward |-> {}, email |-> {}, license |-> Nothing]}
=============================================================================
