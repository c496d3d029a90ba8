----------------------- MODULE ProductionKeyRegistry -----------------------
(***************************************************************************)
(* The governed registry of P-256 key generations                          *)
(* (windows-production-key-governance-runtime).  Administrators read the   *)
(* registry, prepare a mutation away from it and submit the mutation with  *)
(* the revision and the digest they read.  A digest is modelled by the     *)
(* records it digests; computing it validates every record, so a registry  *)
(* that holds a malformed record has no digest at all.                     *)
(***************************************************************************)
EXTENDS Naturals

CONSTANTS Identities,       \* logical issuer identities (role, issuer, key id)
          PublicKeys,       \* P-256 public keys that may be registered
          Administrators,   \* clients that prepare mutations
          MaxTime,          \* bound on epoch seconds
          None              \* an absent Option

ASSUME TimeAssumption == MaxTime \in Nat \ {0}
ASSUME NoneAssumption == None \notin Nat

VARIABLES records,    \* <<identity, generation>> -> ProductionKeyRecord
          revision,   \* mutations applied to the registry
          base,       \* what each administrator read last
          receipt     \* the last mutation receipt handed out

vars == <<records, revision, base, receipt>>

Times == 0 .. MaxTime

ProductionKeyStatus == {"ACTIVE", "RETIRED", "REVOKED"}

ProductionKeyRecord ==
    [public_key : PublicKeys, status : ProductionKeyStatus,
     not_before : Times, not_after : Times, successor : Nat \cup {None}]

Receipts == [action : {"ADD", "ROTATE", "REVOKE"}, revision : Nat]

TypeOK ==
    /\ DOMAIN records \subseteq Identities \X (Nat \ {0})
    /\ records \in [DOMAIN records -> ProductionKeyRecord]
    /\ revision \in Nat
    /\ base \in [Administrators -> [revision : Nat, records : {base[a].records : a \in Administrators}]]
    /\ receipt \in Receipts \cup {None}

-----------------------------------------------------------------------------
(* Validation and look-up *)

ValidRecord(r) ==
    /\ r.not_before < r.not_after
    /\ r.status = "ACTIVE" => r.successor = None
    /\ r.status = "RETIRED" => r.successor # None

PublicKeysOf(rs) == {rs[k].public_key : k \in DOMAIN rs}

ValidSnapshot(rs) ==
    /\ \A k \in DOMAIN rs : ValidRecord(rs[k])
    /\ \A j, k \in DOMAIN rs : rs[j].public_key = rs[k].public_key => j = k

InWindow(r, t) == r.not_before <= t /\ t < r.not_after

\* Keys of the records active_record finds for identity i at time t; it
\* fails unless there is exactly one.
ActiveRecords(rs, i, t) ==
    {k \in DOMAIN rs : k[1] = i /\ rs[k].status = "ACTIVE" /\ InWindow(rs[k], t)}

Resolve(rs, k, t) ==
    /\ k \in DOMAIN rs
    /\ ValidRecord(rs[k])
    /\ rs[k].status # "REVOKED"
    /\ InWindow(rs[k], t)

RequireBase(a) ==
    /\ base[a].revision = revision
    /\ base[a].records = records
    /\ ValidSnapshot(records)

-----------------------------------------------------------------------------
(* Mutations *)

Init ==
    /\ records = << >>
    /\ revision = 0
    /\ base = [a \in Administrators |-> [revision |-> 0, records |-> << >>]]
    /\ receipt = None

\* An administrator reads revision, digest and snapshot.
Read(a) ==
    /\ ValidSnapshot(records)
    /\ base[a] # [revision |-> revision, records |-> records]
    /\ base' = [base EXCEPT ![a] = [revision |-> revision, records |-> records]]
    /\ UNCHANGED <<records, revision, receipt>>

BuildRecord(p, from, until) ==
    [public_key |-> p, status |-> "ACTIVE", not_before |-> from,
     not_after |-> until, successor |-> None]

Added(k, r) == [j \in DOMAIN records \cup {k} |-> IF j = k THEN r ELSE records[j]]

RequireUnusedPublicKey(p) == p \notin PublicKeysOf(records)

InsertInitial(a, i, p, from, until) ==
    /\ RequireBase(a)
    /\ from < until
    /\ \A k \in DOMAIN records : k[1] # i
    /\ RequireUnusedPublicKey(p)
    /\ records' = Added(<<i, 1>>, BuildRecord(p, from, until))
    /\ revision' = revision + 1
    /\ receipt' = [action |-> "ADD", revision |-> revision + 1]
    /\ UNCHANGED base

Successor(k) == <<k[1], k[2] + 1>>

CanRotate_AnyRetirement(k, p, activation, retirement, until) ==
    /\ records[k].status = "ACTIVE"
    /\ activation \in records[k].not_before .. retirement
    /\ activation < until
    /\ Successor(k) \notin DOMAIN records
    /\ RequireUnusedPublicKey(p)

CanRotate_NoActivationOrder(k, p, activation, retirement, until) ==
    /\ records[k].status = "ACTIVE"
    /\ records[k].not_before <= activation
    /\ retirement <= records[k].not_after
    /\ activation < until
    /\ Successor(k) \notin DOMAIN records
    /\ RequireUnusedPublicKey(p)

CanRotate(k, p, activation, retirement, until) ==
    /\ records[k].status = "ACTIVE"
    /\ activation \in records[k].not_before .. retirement
    /\ retirement <= records[k].not_after
    /\ activation < until
    /\ Successor(k) \notin DOMAIN records
    /\ RequireUnusedPublicKey(p)

Retired(k, retirement) ==
    [records[k] EXCEPT !.status = "RETIRED", !.not_after = retirement,
                       !.successor = k[2] + 1]

RotateGuarded(a, k, p, activation, retirement, until) ==
    /\ RequireBase(a)
    /\ CanRotate(k, p, activation, retirement, until)
    /\ ValidRecord(Retired(k, retirement))
    /\ records' = [Added(Successor(k), BuildRecord(p, activation, until)) EXCEPT
                      ![k] = Retired(k, retirement)]
    /\ revision' = revision + 1
    \* build_receipt refuses an effective time of zero, after the mutation.
    /\ receipt' = IF activation = 0 THEN receipt
                  ELSE [action |-> "ROTATE", revision |-> revision + 1]
    /\ UNCHANGED base

\* The current record is changed in place and validated afterwards: an
\* empty remaining window is refused when the record already carries it.
RotateDamages(a, k, p, activation, retirement, until) ==
    /\ RequireBase(a)
    /\ CanRotate(k, p, activation, retirement, until)
    /\ ~ ValidRecord(Retired(k, retirement))
    /\ records' = [records EXCEPT ![k] = Retired(k, retirement)]
    /\ UNCHANGED <<revision, base, receipt>>

RevokeGuarded(a, k) ==
    /\ RequireBase(a)
    /\ records[k].status # "REVOKED"
    /\ records' = [records EXCEPT ![k].status = "REVOKED"]
    /\ revision' = revision + 1
    /\ receipt' = [action |-> "REVOKE", revision |-> revision + 1]
    /\ UNCHANGED base

Next ==
    \E a \in Administrators :
        \/ Read(a)
        \/ \E i \in Identities, p \in PublicKeys, from, until \in Times :
               InsertInitial(a, i, p, from, until)
        \/ \E k \in DOMAIN records, p \in PublicKeys,
              activation, retirement, until \in Times :
               RotateGuarded(a, k, p, activation, retirement, until)
        \/ \E k \in DOMAIN records, p \in PublicKeys,
              activation, retirement, until \in Times :
               RotateDamages(a, k, p, activation, retirement, until)
        \/ \E k \in DOMAIN records : RevokeGuarded(a, k)

Spec == Init /\ [][Next]_vars

-----------------------------------------------------------------------------
(* Properties *)

\* active_record never meets two active generations of one identity at any
\* time, so ActiveGenerationAmbiguity is never returned: rotation always
\* takes the old generation out before the new one is found.
OneActiveGeneration ==
    \A i \in Identities, t \in Times :
        \A j, k \in ActiveRecords(records, i, t) : j = k

\* Whatever the rotations and revocations of both identities, one public
\* key is registered under one generation of one identity only.
PublicKeysUnique ==
    \A j, k \in DOMAIN records :
        records[j].public_key = records[k].public_key => j = k

\* While the registry has a digest, every retired generation has a
\* successor whose window starts before the retired one's ends: rotations
\* leave no instant between two generations at which nothing resolves.
SuccessorsMeet ==
    ValidSnapshot(records) =>
        \A k \in DOMAIN records : records[k].status = "RETIRED" =>
            LET s == <<k[1], records[k].successor>> IN
            s \in DOMAIN records /\ records[s].not_before <= records[k].not_after

\* A revision names one content: whoever holds a snapshot of the current
\* revision holds the current records, unless the registry lost its digest.
RevisionNamesContent ==
    \A a \in Administrators :
        base[a].revision = revision /\ ValidSnapshot(records)
            => base[a].records = records

\* No mutation makes a signature resolvable that an existing generation
\* did not cover before: windows only shrink, a revocation is never undone,
\* and the key of a generation never changes.
HistoryNarrows ==
    [][\A k \in DOMAIN records :
          /\ k \in DOMAIN records'
          /\ records'[k].public_key = records[k].public_key
          /\ \A t \in Times : Resolve(records', k, t) => Resolve(records, k, t)]_vars

\* A registry damaged by a refused rotation stays as it is: with no digest
\* every further mutation is refused, nothing is built on the damage.
DamageIsFrozen ==
    [][~ ValidSnapshot(records) => UNCHANGED <<records, revision>>]_vars

\* The claim of the production signer document: every add, rotate and
\* revoke operation emits a receipt that carries the new revision.  (Windows
\* that start at zero are left out: a receipt has no effective time zero.)
EveryChangeReceipted ==
    [][records' # records /\ (\A k \in DOMAIN records' : records'[k].not_before # 0) =>
          /\ receipt' # receipt
          /\ receipt'.revision = revision']_vars
=============================================================================
