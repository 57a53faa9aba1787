-------------------------- MODULE MCSignedUploads --------------------------
(* Instances of SignedUploads: two keys in rotation, one channel, one customer. *)
EXTENDS SignedUploads, TLC

CONSTANTS k1, k2, stable, c1

V1 == [kind |-> "release", slot |-> stable, version |-> 1, expires |-> Never]
V2 == [kind |-> "release", slot |-> stable, version |-> 2, expires |-> Never]
Term == [kind |-> "license", slot |-> c1, version |-> 1, expires |-> 1]
Payloads == {V1, V2, Term}

\* Genuine manifests of both keys (the second an older version), one of k2 that
\* names k1, one whose payload was changed after signing, an unsigned one, and a token
\* that expires (a manifest, too, may be registered as a token: it never does).
Manifests ==
    {Signed(V2, k1, k1), Signed(V1, k2, k2), Signed(V1, k2, k1),
     [Signed(V1, k1, k1) EXCEPT !.payload = V2],
     [payload |-> V1, signature |-> NoSignature]}
Token == Signed(Term, k1, k1)
Documents == Manifests \cup {Token}

Key(k, status) == [key |-> k, status |-> status]
Unset(single) == [json |-> "unset", keys |-> <<>>, single |-> single]
List(keys) == [json |-> "list", keys |-> keys, single |-> <<k1>>]
Malformed == [json |-> "malformed", keys |-> <<>>, single |-> <<k1>>]
Both(settings) == [t \in Table |-> settings]

\* A single key; its rotation, with licence settings that do not parse; its revocation.
Rotation ==
    {Both(Unset(<<k1>>)),
     [release |-> List(<<Key(k1, "active"), Key(k2, "next")>>), license |-> Malformed],
     Both(List(<<Key(k1, "revoked"), Key(k2, "active")>>))}

Symmetric == Permutations(Procs)
=============================================================================
