------------------------ MODULE GovernedKeyRegistry ------------------------
(***************************************************************************)
(* The Ed25519 registry of issuer keys (key-governance-runtime).  A key is *)
(* registered under a role and a key id; unlike the P-256 registry it has  *)
(* no generations, an insertion need not name the revision it was prepared *)
(* against, and a rotation only asks that the current key is not revoked.  *)
(* A digest is modelled by the records it digests.                         *)
(***************************************************************************)
EXTENDS Naturals

CONSTANTS Roles,            \* IssuerRole
          KeyIds,           \* key ids of the one issuer
          PublicKeys,       \* Ed25519 public keys that may be registered
          Administrators,   \* clients that prepare mutations
          MaxTime           \* bound on epoch seconds

VARIABLES records,    \* <<role, key id>> -> GovernedKeyRecord
          revision,   \* mutations applied
          base        \* what each administrator read last

vars == <<records, revision, base>>

Times == 0 .. MaxTime

GovernedKeyRecord ==
    [verifying_key : PublicKeys, status : {"ACTIVE", "RETIRED", "REVOKED"},
     not_before : Times, not_after : Times]

TypeOK ==
    /\ DOMAIN records \subseteq Roles \X KeyIds
    /\ \A k \in DOMAIN records : records[k] \in GovernedKeyRecord
    /\ revision \in Nat
    /\ DOMAIN base = Administrators

-----------------------------------------------------------------------------

InWindow(r, t) == r.not_before <= t /\ t < r.not_after

Resolve(rs, k, t) ==
    /\ k \in DOMAIN rs
    /\ rs[k].status # "REVOKED"
    /\ InWindow(rs[k], t)

RequireBase(a) == base[a] = [revision |-> revision, records |-> records]

RequireUnusedPublicKey(role, p) ==
    \A k \in DOMAIN records : records[k].verifying_key # p

Added(rs, k, p, from, until) ==
    [j \in DOMAIN rs \cup {k} |->
        IF j = k THEN [verifying_key |-> p, status |-> "ACTIVE",
                       not_before |-> from, not_after |-> until]
        ELSE rs[j]]

Init ==
    /\ records = << >>
    /\ revision = 0
    /\ base = [a \in Administrators |-> [revision |-> 0, records |-> << >>]]

Read(a) ==
    /\ ~ RequireBase(a)
    /\ base' = [base EXCEPT ![a] = [revision |-> revision, records |-> records]]
    /\ UNCHANGED <<records, revision>>

\* insert_ed25519; insert_ed25519_guarded is the same after RequireBase.
Insert(role, id, p, from, until) ==
    /\ from < until
    /\ RequireUnusedPublicKey(role, p)
    /\ <<role, id>> \notin DOMAIN records
    /\ records' = Added(records, <<role, id>>, p, from, until)
    /\ revision' = revision + 1
    /\ UNCHANGED base

InsertGuarded(a, role, id, p, from, until) ==
    RequireBase(a) /\ Insert(role, id, p, from, until)

CanRotate(role, id, new, p, activation, retirement, until) ==
    /\ id # new
    /\ activation <= retirement /\ activation < until
    /\ RequireUnusedPublicKey(role, p)
    /\ <<role, id>> \in DOMAIN records
    /\ records[<<role, id>>].status # "REVOKED"
    /\ retirement > records[<<role, id>>].not_before
    /\ <<role, new>> \notin DOMAIN records

RotateGuarded(a, role, id, new, p, activation, retirement, until) ==
    /\ RequireBase(a)
    /\ CanRotate(role, id, new, p, activation, retirement, until)
    /\ records' = [Added(records, <<role, new>>, p, activation, until) EXCEPT
                      ![<<role, id>>].status = "RETIRED",
                      ![<<role, id>>].not_after = retirement]
    /\ revision' = revision + 1
    /\ UNCHANGED base

RevokeGuarded(a, k) ==
    /\ RequireBase(a)
    /\ records[k].status # "REVOKED"
    /\ records' = [records EXCEPT ![k].status = "REVOKED"]
    /\ revision' = revision + 1
    /\ UNCHANGED base

Next ==
    \/ \E a \in Administrators : Read(a)
    \/ \E role \in Roles, id \in KeyIds, p \in PublicKeys, from, until \in Times :
           Insert(role, id, p, from, until)
    \/ \E a \in Administrators, role \in Roles, id \in KeyIds, p \in PublicKeys,
          from, until \in Times :
           InsertGuarded(a, role, id, p, from, until)
    \/ \E a \in Administrators, k \in DOMAIN records, new \in KeyIds,
          p \in PublicKeys, activation, retirement, until \in Times :
           RotateGuarded(a, k[1], k[2], new, p, activation, retirement, until)
    \/ \E a \in Administrators, k \in DOMAIN records : RevokeGuarded(a, k)

Spec == Init /\ [][Next]_vars

-----------------------------------------------------------------------------

\* The claim of the test rotation_preserves_only_the_declared_historical_
\* window: after a rotation the old key resolves inside the declared window
\* and at no later signing time.
RetiredWindowIsFinal ==
    [][\A k \in DOMAIN records :
          records[k].status = "RETIRED" =>
              \A t \in Times : Resolve(records', k, t) => Resolve(records, k, t)]_vars
=============================================================================
