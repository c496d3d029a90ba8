----------------------- MODULE GovernedVerification -----------------------
(***************************************************************************)
(* The governed verification runtime: the Ed25519 key registry composed    *)
(* with one capability authorizer for every capability key and one public  *)
(* key for every attestation key.  A token is resolved in the registry at  *)
(* its issue time and then used up in the authorizer of its own key.  The  *)
(* trusted time of a use comes from the caller and need not be monotone.   *)
(* A digest is modelled by the token it digests.                           *)
(***************************************************************************)
EXTENDS GovernedKeyRegistry, FiniteSets

CONSTANTS Tokens,        \* signed capability tokens of the one issuer
          Plan,          \* step id -> [operator, tokens] of the compiled plan
          Permissions,   \* grants sealed in the compiled contract
          Executor       \* the executor and device that presents a token

VARIABLES authorizers,   \* key id -> CapabilityAuthorizer
          attestation_public_keys,
          receipts       \* AuthorizationReceipts returned so far

govVars == <<records, revision, base, authorizers, attestation_public_keys, receipts>>

TokenIds == {t.token_id : t \in Tokens}

UsageRecord == [token : Tokens, uses : Nat]

AuthorizationReceipt == [token : Tokens, at : Times, use_number : Nat]

GovTypeOK ==
    /\ TypeOK
    /\ DOMAIN authorizers \subseteq KeyIds
    /\ \A k \in DOMAIN authorizers :
          /\ authorizers[k].public_key \in PublicKeys
          /\ DOMAIN authorizers[k].usage \subseteq TokenIds
          /\ \A i \in DOMAIN authorizers[k].usage :
                authorizers[k].usage[i] \in UsageRecord
    /\ DOMAIN attestation_public_keys \subseteq KeyIds
    /\ receipts \subseteq AuthorizationReceipt

-----------------------------------------------------------------------------

With(f, x, v) == [y \in DOMAIN f \cup {x} |-> IF y = x THEN v ELSE f[y]]

capability_authorizer(p) == [public_key |-> p, usage |-> << >>]

validate_payload_shape(t) == t.max_uses > 0

validate_time(t, now) ==
    /\ t.issued_at <= t.not_before
    /\ t.not_before < t.expires_at
    /\ t.not_before <= now /\ now < t.expires_at

validate_bindings(t) ==
    /\ t.step \in DOMAIN Plan
    /\ Plan[t.step].operator = t.operator
    /\ t.token_id \in Plan[t.step].tokens

validate_subject(t) == t.executor = Executor

validate_grant(t) == t.grant \in Permissions

verify_capability_token_signature_Ungoverned(t) ==
    <<"CAPABILITY", t.key_id>> \in DOMAIN records

verify_capability_token_signature(t) ==
    /\ Resolve(records, <<"CAPABILITY", t.key_id>>, t.issued_at)
    /\ records[<<"CAPABILITY", t.key_id>>].verifying_key = t.signer

\* The entry of a token id that was never used starts at no uses.
UsageOf(a, t) ==
    IF t.token_id \in DOMAIN a.usage THEN a.usage[t.token_id]
    ELSE [token |-> t, uses |-> 0]

CanUse_OneTooMany(u, t) == u.token = t /\ u.uses <= t.max_uses

CanUse(u, t) == u.token = t /\ u.uses < t.max_uses

GovInit ==
    /\ Init
    /\ authorizers = << >>
    /\ attestation_public_keys = << >>
    /\ receipts = {}

insert_capability_key(id, p, from, until) ==
    /\ Insert("CAPABILITY", id, p, from, until)
    /\ authorizers' = With(authorizers, id, capability_authorizer(p))
    /\ UNCHANGED <<attestation_public_keys, receipts>>

insert_attestation_key(id, p, from, until) ==
    /\ Insert("ATTESTATION", id, p, from, until)
    /\ attestation_public_keys' = With(attestation_public_keys, id, p)
    /\ UNCHANGED <<authorizers, receipts>>

insert_auxiliary_key(role, id, p, from, until) ==
    /\ role \notin {"CAPABILITY", "ATTESTATION"}
    /\ Insert(role, id, p, from, until)
    /\ UNCHANGED <<authorizers, attestation_public_keys, receipts>>

rotate_capability_key_guarded(a, id, new, p, activation, retirement, until) ==
    /\ RotateGuarded(a, "CAPABILITY", id, new, p, activation, retirement, until)
    /\ authorizers' = With(authorizers, new, capability_authorizer(p))
    /\ UNCHANGED <<attestation_public_keys, receipts>>

rotate_attestation_key_guarded(a, id, new, p, activation, retirement, until) ==
    /\ RotateGuarded(a, "ATTESTATION", id, new, p, activation, retirement, until)
    /\ attestation_public_keys' = With(attestation_public_keys, new, p)
    /\ UNCHANGED <<authorizers, receipts>>

\* A revocation leaves the authorizer of the key where it is.
revoke_key_guarded(a, k) ==
    /\ RevokeGuarded(a, k)
    /\ UNCHANGED <<authorizers, attestation_public_keys, receipts>>

ReadRegistry(a) ==
    Read(a) /\ UNCHANGED <<authorizers, attestation_public_keys, receipts>>

\* A token that is refused anywhere on the way changes nothing: its usage
\* entry is only created when the first use is granted.
authorize_capability(t, now) ==
    /\ verify_capability_token_signature(t)
    /\ t.key_id \in DOMAIN authorizers
    /\ validate_payload_shape(t)
    /\ authorizers[t.key_id].public_key = t.signer
    /\ validate_time(t, now)
    /\ validate_bindings(t) /\ validate_subject(t) /\ validate_grant(t)
    /\ LET u == UsageOf(authorizers[t.key_id], t)
           used == [u EXCEPT !.uses = @ + 1]
       IN  /\ CanUse(u, t)
           /\ authorizers' = [authorizers EXCEPT
                                 ![t.key_id].usage = With(@, t.token_id, used)]
           /\ receipts' = receipts \cup
                  {[token |-> t, at |-> now, use_number |-> used.uses]}
    /\ UNCHANGED <<records, revision, base, attestation_public_keys>>

GovNext ==
    \/ \E a \in Administrators : ReadRegistry(a)
    \/ \E id \in KeyIds, p \in PublicKeys, from, until \in Times :
           \/ insert_capability_key(id, p, from, until)
           \/ insert_attestation_key(id, p, from, until)
           \/ \E role \in Roles : insert_auxiliary_key(role, id, p, from, until)
    \/ \E a \in Administrators, id, new \in KeyIds, p \in PublicKeys,
          activation, retirement, until \in Times :
           \/ rotate_capability_key_guarded(a, id, new, p, activation, retirement, until)
           \/ rotate_attestation_key_guarded(a, id, new, p, activation, retirement, until)
    \/ \E a \in Administrators, k \in DOMAIN records : revoke_key_guarded(a, k)
    \/ \E t \in Tokens, now \in Times : authorize_capability(t, now)

GovSpec == GovInit /\ [][GovNext]_govVars

-----------------------------------------------------------------------------

ReceiptsOf(k, i) == {r \in receipts : r.token.key_id = k /\ r.token.token_id = i}

\* The receipts issued for a token id under a key are numbered 1 to the
\* uses counted for it without a gap or a repetition, and never past the
\* token's max_uses, whatever times the caller presents it at and whatever
\* happens to the registry in between.  They are all for one signed token: a
\* second payload with the same id is refused as a collision.
ReceiptsNumberUses ==
    \A k \in DOMAIN authorizers, i \in TokenIds :
        LET rs == ReceiptsOf(k, i)
            uses == IF i \in DOMAIN authorizers[k].usage
                      THEN authorizers[k].usage[i].uses ELSE 0
        IN  /\ {r.use_number : r \in rs} = 1 .. uses
            /\ Cardinality(rs) = uses
            /\ \A r, s \in rs : r.token = s.token /\ uses <= r.token.max_uses

\* Revocation is final for authorization too: although the authorizer of a
\* revoked key stays in the map, no receipt is issued under that key again,
\* not even for a token signed before the revocation.
NoReceiptUnderRevoked ==
    \A k \in DOMAIN records :
        k[1] = "CAPABILITY" /\ records[k].status = "REVOKED" =>
            \A r \in receipts' \ receipts : r.token.key_id # k[2]
=============================================================================
