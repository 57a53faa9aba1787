------------------------------- MODULE Signing -------------------------------
(***************************************************************************)
(* app/crypto/signing.py: signed documents, the trust store built from the *)
(* environment, and verify_manifest.  A key pair stands for its key_id (16 *)
(* hex digits of a SHA-256, taken to be injective); a signature remembers  *)
(* the key that made it and the payload it was made over, which is what    *)
(* ed25519 lets a verifier decide.                                         *)
(***************************************************************************)
EXTENDS Naturals, Sequences

CONSTANTS
    KeyPair,      \* signing keys
    Payload,      \* documents without their `signature` field
    NoSignature,  \* a document whose `signature` is absent or not an object
    Garbage       \* stands for no key: undecodable bytes

ASSUME SigningAssumption == Garbage \notin KeyPair

Status == {"active", "next", "revoked", "unlisted"}
Trusted == {"active", "next"}

Signature == [alg : {"ed25519", "other"}, key_id : KeyPair \cup {Garbage},
              by : KeyPair \cup {Garbage}, over : Payload]
Document == [payload : Payload, signature : Signature \cup {NoSignature}]

\* sign_manifest: `key_id` may be given by the caller.
Signed(payload, key, key_id) ==
    [payload |-> payload,
     signature |-> [alg |-> "ed25519", key_id |-> key_id, by |-> key, over |-> payload]]

\* TrustStore.from_keys: entries indexed by key_id, so the last one of a key wins.
FromKeys(list) ==
    {list[i] : i \in {j \in DOMAIN list :
                         \A m \in DOMAIN list : m > j => list[m].key # list[j].key}}

\* status_of(key) is active or next.
Trusts(trust, key) == \E e \in trust : e.key = key /\ e.status \in Trusted

\* *_TRUST_STORE_JSON unset, unparseable or no list, or a list of keys; and
\* *_PUBLIC_KEY, a sequence of at most one key.
IsSettings(s) ==
    /\ s.json \in {"unset", "malformed", "list"}
    /\ s.keys \in Seq([key : KeyPair, status : Status])
    /\ s.single \in Seq(KeyPair) /\ Len(s.single) <= 1

\* trust_store_from_settings: a set JSON value decides alone, as the empty store
\* when it is no JSON list; otherwise the single key, if any, is active.
FromSettings(settings) ==
    FromKeys(CASE settings.json = "list" -> settings.keys
               [] settings.json = "malformed" -> <<>>
               [] settings.json = "unset" ->
                    [i \in 1 .. Len(settings.single) |-> [key |-> settings.single[i], status |-> "active"]])

\* Mutation of Verifies: any trusted key may have signed.
Verifies_AnyKey(doc, trust) ==
    LET s == doc.signature IN
    /\ s # NoSignature
    /\ s.alg = "ed25519"
    /\ Trusts(trust, s.key_id)
    /\ Trusts(trust, s.by)
    /\ s.over = doc.payload

\* verify_manifest returns True: the block names a trusted key, and that key made
\* the signature over this payload.
Verifies(doc, trust) ==
    LET s == doc.signature IN
    /\ s # NoSignature
    /\ s.alg = "ed25519"
    /\ Trusts(trust, s.key_id)
    /\ s.by = s.key_id
    /\ s.over = doc.payload
=============================================================================
