------------------------ MODULE KeyGovernanceProofs ------------------------
(***************************************************************************)
(* What both key registries guarantee for every number of identities,       *)
(* keys, administrators, generations and tokens.                            *)
(*                                                                         *)
(* The P-256 registry.  The argument rests on one fact the properties do    *)
(* not state: an active generation is the last one of its identity, because *)
(* a rotation retires the generation it succeeds.                           *)
(*                                                                         *)
(* The governed verification runtime (the instance G).  The authorizer of   *)
(* a key counts the uses of its tokens, and an insertion or rotation may    *)
(* replace an authorizer in the map.  The invariant says why no count is    *)
(* ever reset: an authorizer belongs to a key the registry still knows, and *)
(* the registry takes no key id twice.                                      *)
(***************************************************************************)
EXTENDS KeyGovernance, FiniteSetTheorems, TLAPS

\* A leaf is tried with Zenon, then with SMT, then with each again for longer.
USE ZenonT(3), SMTT(20), ZenonT(60), SMTT(120)

-----------------------------------------------------------------------------
(* The P-256 registry. *)

\* The registry is typed, and no administrator's read is ahead of it.
RegistryOK ==
    /\ DOMAIN records \subseteq Identities \X (Nat \ {0})
    /\ records \in [DOMAIN records -> ProductionKeyRecord]
    /\ revision \in Nat
    /\ base \in [Administrators -> {base[a] : a \in Administrators}]
    /\ \A a \in Administrators : base[a].revision \in 0 .. revision

\* The active generation of an identity is its last one.
ActiveIsLast ==
    \A j, k \in DOMAIN records :
        j[1] = k[1] /\ records[j].status = "ACTIVE" => k[2] <= j[2]

RegistryInv ==
    RegistryOK /\ ActiveIsLast /\ PublicKeysUnique /\ RevisionNamesContent

-----------------------------------------------------------------------------

LEMMA BuiltRecord ==
    ASSUME NEW p \in PublicKeys, NEW from \in Times, NEW until \in Times
    PROVE  /\ BuildRecord(p, from, until) \in ProductionKeyRecord
           /\ BuildRecord(p, from, until).public_key = p
BY DEF BuildRecord, ProductionKeyRecord, ProductionKeyStatus

\* Retiring a record keeps its key and its start.
LEMMA RetiredRecord ==
    ASSUME RegistryOK, NEW k \in DOMAIN records, NEW t \in Times
    PROVE  /\ Retired(k, t) \in ProductionKeyRecord
           /\ Retired(k, t).public_key = records[k].public_key
           /\ Retired(k, t).not_before = records[k].not_before
           /\ Retired(k, t).not_after = t
           /\ Retired(k, t).status = "RETIRED"
           /\ Retired(k, t).successor = k[2] + 1
<1>1. k[2] \in Nat /\ records[k] \in ProductionKeyRecord
    BY DEF RegistryOK
<1>2. k[2] + 1 \in Nat
    BY <1>1
<1> QED
    BY <1>1, <1>2 DEF Retired, ProductionKeyRecord, ProductionKeyStatus

\* Replacing a record by one of the same key that is not active disturbs
\* neither the order of the generations nor the keys.
LEMMA ReplacedRecord ==
    ASSUME RegistryInv, NEW k \in DOMAIN records, NEW r \in ProductionKeyRecord,
           r.public_key = records[k].public_key, r.status # "ACTIVE",
           records' = [records EXCEPT ![k] = r]
    PROVE  /\ DOMAIN records' = DOMAIN records
           /\ records' \in [DOMAIN records' -> ProductionKeyRecord]
           /\ ActiveIsLast'
           /\ PublicKeysUnique'
<1>1. /\ DOMAIN records' = DOMAIN records
      /\ records' \in [DOMAIN records' -> ProductionKeyRecord]
      /\ \A j \in DOMAIN records : records'[j] = IF j = k THEN r ELSE records[j]
    BY DEF RegistryInv, RegistryOK
<1>2. \A j \in DOMAIN records : records'[j].public_key = records[j].public_key
    BY <1>1
<1>3. \A j \in DOMAIN records :
          records'[j].status = "ACTIVE" => records[j].status = "ACTIVE"
    BY <1>1
<1> QED
    BY <1>1, <1>2, <1>3 DEF RegistryInv, ActiveIsLast, PublicKeysUnique

\* A base of the current revision holds the current records; after a
\* mutation that raises the revision no read is current.
LEMMA RaisedRevision ==
    ASSUME RegistryInv, revision' = revision + 1, UNCHANGED base
    PROVE  /\ RevisionNamesContent'
           /\ revision' \in Nat
           /\ base' \in [Administrators -> {base'[a] : a \in Administrators}]
           /\ \A a \in Administrators : base'[a].revision \in 0 .. revision'
<1>1. \A a \in Administrators : base[a].revision \in 0 .. revision
    BY DEF RegistryInv, RegistryOK
<1>2. revision \in Nat
    BY DEF RegistryInv, RegistryOK
<1>3. \A a \in Administrators : base'[a].revision # revision'
    BY <1>1, <1>2
<1> QED
    BY <1>1, <1>2, <1>3 DEF RevisionNamesContent, RegistryInv, RegistryOK

-----------------------------------------------------------------------------
(* One lemma per action *)

LEMMA ReadKeeps ==
    ASSUME RegistryInv, NEW a \in Administrators, Read(a)
    PROVE  RegistryInv'
<1>1. /\ \A b \in Administrators : base'[b] =
             IF b = a THEN [revision |-> revision, records |-> records] ELSE base[b]
      /\ base' \in [Administrators -> {base'[b] : b \in Administrators}]
    BY DEF Read, RegistryInv, RegistryOK
<1>2. revision \in Nat /\ \A b \in Administrators : base[b].revision \in 0 .. revision
    BY DEF RegistryInv, RegistryOK
<1>3. \A b \in Administrators : base'[b].revision \in 0 .. revision'
    BY <1>1, <1>2 DEF Read
<1>4. RevisionNamesContent'
    BY <1>1 DEF RevisionNamesContent, Read, RegistryInv
<1> QED
    BY <1>1, <1>3, <1>4 DEF Read, RegistryInv, RegistryOK, ActiveIsLast, PublicKeysUnique

LEMMA InsertKeeps ==
    ASSUME RegistryInv, NEW a \in Administrators, NEW i \in Identities,
           NEW p \in PublicKeys, NEW from \in Times, NEW until \in Times,
           InsertInitial(a, i, p, from, until)
    PROVE  RegistryInv'
<1> DEFINE k == <<i, 1>>
           r == BuildRecord(p, from, until)
<1>1. r \in ProductionKeyRecord /\ r.public_key = p
    BY BuiltRecord
<1>2. k \in Identities \X (Nat \ {0}) /\ k[1] = i /\ k[2] = 1
    OBVIOUS
<1>3. /\ \A j \in DOMAIN records : j[1] # i /\ records[j].public_key # p
      /\ records' = Added(k, r)
      /\ revision' = revision + 1
      /\ UNCHANGED base
    BY DEF InsertInitial, RequireUnusedPublicKey, PublicKeysOf
<1> HIDE DEF k, r
<1>4. /\ DOMAIN records' = DOMAIN records \cup {k}
      /\ \A j \in DOMAIN records' : records'[j] = IF j = k THEN r ELSE records[j]
      /\ records' \in [DOMAIN records' -> ProductionKeyRecord]
    BY <1>1, <1>3 DEF Added, RegistryInv, RegistryOK
<1>5. k \notin DOMAIN records
    BY <1>2, <1>3
<1>6. ActiveIsLast'
    BY <1>2, <1>3, <1>4, <1>5 DEF ActiveIsLast, RegistryInv
<1>7. PublicKeysUnique'
    BY <1>1, <1>3, <1>4, <1>5 DEF PublicKeysUnique, RegistryInv
<1>8. DOMAIN records' \subseteq Identities \X (Nat \ {0})
    BY <1>2, <1>4 DEF RegistryInv, RegistryOK
<1> QED
    BY <1>3, <1>4, <1>6, <1>7, <1>8, RaisedRevision DEF RegistryInv, RegistryOK

LEMMA RotateKeeps ==
    ASSUME RegistryInv, NEW a \in Administrators, NEW k \in DOMAIN records,
           NEW p \in PublicKeys, NEW activation \in Times,
           NEW retirement \in Times, NEW until \in Times,
           RotateGuarded(a, k, p, activation, retirement, until)
    PROVE  RegistryInv'
<1> DEFINE s == Successor(k)
           r == BuildRecord(p, activation, until)
           q == Retired(k, retirement)
<1>1. r \in ProductionKeyRecord /\ r.public_key = p
    BY BuiltRecord
<1>2. /\ q \in ProductionKeyRecord
      /\ q.public_key = records[k].public_key
      /\ q.status = "RETIRED"
    BY RetiredRecord DEF RegistryInv
<1>3. k \in Identities \X (Nat \ {0})
    BY DEF RegistryInv, RegistryOK
<1>4. s \in Identities \X (Nat \ {0}) /\ s[1] = k[1] /\ s[2] = k[2] + 1
    BY <1>3 DEF Successor
<1>5. /\ records[k].status = "ACTIVE"
      /\ s \notin DOMAIN records
      /\ \A j \in DOMAIN records : records[j].public_key # p
      /\ records' = [Added(s, r) EXCEPT ![k] = q]
      /\ revision' = revision + 1
      /\ UNCHANGED base
    BY DEF RotateGuarded, CanRotate, RequireUnusedPublicKey, PublicKeysOf
<1> HIDE DEF s, r, q
<1>6. /\ DOMAIN records' = DOMAIN records \cup {s}
      /\ \A j \in DOMAIN records' :
             records'[j] = IF j = k THEN q ELSE IF j = s THEN r ELSE records[j]
      /\ records' \in [DOMAIN records' -> ProductionKeyRecord]
    BY <1>1, <1>2, <1>5 DEF Added, RegistryInv, RegistryOK
<1>7. \A j \in DOMAIN records : j[2] \in Nat
    BY DEF RegistryInv, RegistryOK
<1>8. \A j \in DOMAIN records : j[1] = k[1] => j[2] <= k[2]
    BY <1>5 DEF RegistryInv, ActiveIsLast
<1>9. ActiveIsLast'
  <2> SUFFICES ASSUME NEW j \in DOMAIN records', NEW m \in DOMAIN records',
                      j[1] = m[1], records'[j].status = "ACTIVE"
               PROVE  m[2] <= j[2]
    BY DEF ActiveIsLast
  <2>1. j # k
    BY <1>2, <1>6
  <2>2. CASE j = s
    BY <2>2, <1>4, <1>6, <1>7, <1>8
  <2>3. CASE j # s
    <3>1. j \in DOMAIN records /\ records[j].status = "ACTIVE"
        BY <2>1, <2>3, <1>6
    <3>2. j[1] # k[1]
        \* both would be active, hence each the last one
        <4> SUFFICES ASSUME j[1] = k[1] PROVE FALSE
            OBVIOUS
        <4>1. j[2] <= k[2] /\ k[2] <= j[2]
            BY <3>1, <1>5 DEF RegistryInv, ActiveIsLast
        <4>2. j[2] = k[2]
            BY <4>1, <3>1, <1>7
        <4>3. j = k
            BY <4>2, <3>1, <1>3 DEF RegistryInv, RegistryOK
        <4> QED
            BY <4>3, <2>1
    <3>3. m # s
        BY <3>2, <1>4
    <3>4. m \in DOMAIN records
        BY <3>3, <1>6
    <3> QED
        BY <3>1, <3>4 DEF RegistryInv, ActiveIsLast
  <2> QED
    BY <2>2, <2>3
<1>10. PublicKeysUnique'
  <2>1. \A j \in DOMAIN records : records'[j].public_key = records[j].public_key
    BY <1>2, <1>5, <1>6
  <2>2. records'[s].public_key = p
    BY <1>1, <1>5, <1>6
  <2> QED
    BY <2>1, <2>2, <1>5, <1>6 DEF PublicKeysUnique, RegistryInv
<1>11. DOMAIN records' \subseteq Identities \X (Nat \ {0})
    BY <1>4, <1>6 DEF RegistryInv, RegistryOK
<1> QED
    BY <1>5, <1>6, <1>9, <1>10, <1>11, RaisedRevision DEF RegistryInv, RegistryOK

LEMMA DamageKeeps ==
    ASSUME RegistryInv, NEW a \in Administrators, NEW k \in DOMAIN records,
           NEW p \in PublicKeys, NEW activation \in Times,
           NEW retirement \in Times, NEW until \in Times,
           RotateDamages(a, k, p, activation, retirement, until)
    PROVE  RegistryInv'
<1> DEFINE q == Retired(k, retirement)
<1>1. /\ q \in ProductionKeyRecord
      /\ q.public_key = records[k].public_key
      /\ q.status # "ACTIVE"
    BY RetiredRecord DEF RegistryInv
<1>2. /\ ~ ValidRecord(q)
      /\ records' = [records EXCEPT ![k] = q]
      /\ UNCHANGED <<revision, base>>
    BY DEF RotateDamages
<1> HIDE DEF q
<1>3. /\ DOMAIN records' = DOMAIN records
      /\ records' \in [DOMAIN records' -> ProductionKeyRecord]
      /\ ActiveIsLast'
      /\ PublicKeysUnique'
    BY <1>1, <1>2, ReplacedRecord
<1>4. ~ ValidSnapshot(records)'
  <2>1. records'[k] = q /\ k \in DOMAIN records'
    BY <1>2, <1>3
  <2> QED
    BY <2>1, <1>2 DEF ValidSnapshot
<1>5. RevisionNamesContent'
    BY <1>4 DEF RevisionNamesContent
<1> QED
    BY <1>2, <1>3, <1>5 DEF RegistryInv, RegistryOK

LEMMA RevokeKeeps ==
    ASSUME RegistryInv, NEW a \in Administrators, NEW k \in DOMAIN records,
           RevokeGuarded(a, k)
    PROVE  RegistryInv'
<1> DEFINE q == [records[k] EXCEPT !.status = "REVOKED"]
<1>1. records[k] \in ProductionKeyRecord
    BY DEF RegistryInv, RegistryOK
<1>2. /\ q \in ProductionKeyRecord
      /\ q.public_key = records[k].public_key
      /\ q.status # "ACTIVE"
    BY <1>1 DEF ProductionKeyRecord, ProductionKeyStatus
<1>3. /\ records' = [records EXCEPT ![k] = q]
      /\ revision' = revision + 1
      /\ UNCHANGED base
    BY DEF RevokeGuarded
<1> HIDE DEF q
<1>4. /\ DOMAIN records' = DOMAIN records
      /\ records' \in [DOMAIN records' -> ProductionKeyRecord]
      /\ ActiveIsLast'
      /\ PublicKeysUnique'
    BY <1>2, <1>3, ReplacedRecord
<1> QED
    BY <1>3, <1>4, RaisedRevision DEF RegistryInv, RegistryOK

-----------------------------------------------------------------------------

LEMMA RegistryInitial == Init => RegistryInv
<1> SUFFICES ASSUME Init PROVE RegistryInv
    OBVIOUS
<1>1. DOMAIN records = {}
    BY DEF Init
<1>2. /\ base \in [Administrators -> {base[a] : a \in Administrators}]
      /\ \A a \in Administrators : base[a].revision = 0 /\ base[a].records = records
      /\ revision = 0
    BY DEF Init
<1>3. records \in [DOMAIN records -> ProductionKeyRecord]
    BY <1>1 DEF Init
<1> QED
    BY <1>1, <1>2, <1>3 DEF RegistryInv, RegistryOK, ActiveIsLast, PublicKeysUnique,
                             RevisionNamesContent

LEMMA RegistryInductive == RegistryInv /\ [Next]_vars => RegistryInv'
<1> SUFFICES ASSUME RegistryInv, [Next]_vars PROVE RegistryInv'
    OBVIOUS
<1>1. CASE UNCHANGED vars
    BY <1>1 DEF vars, RegistryInv, RegistryOK, ActiveIsLast, PublicKeysUnique,
                RevisionNamesContent, ValidSnapshot
<1>2. CASE Next
    BY <1>2, ReadKeeps, InsertKeeps, RotateKeeps, DamageKeeps, RevokeKeeps DEF Next
<1> QED
    BY <1>1, <1>2

\* Of a behaviour of both registries, what concerns the P-256 registry is one of Spec.
LEMMA RegistryBehaviour == KeySpec => Spec
<1>1. [KeyNext]_<<vars, issuerVars, registry>> => [Next]_vars
    BY DEF KeyNext
<1> QED
    BY <1>1, PTL DEF KeySpec, KeyInit, Spec

LEMMA RegistryInvariant == Spec => []RegistryInv
BY RegistryInitial, RegistryInductive, PTL DEF Spec

\* For every registry, active_record never finds two generations.
THEOREM OneActiveHolds == Spec => []OneActiveGeneration
<1>1. RegistryInv => OneActiveGeneration
  <2> SUFFICES ASSUME RegistryInv, NEW i \in Identities, NEW t \in Times,
                      NEW j \in ActiveRecords(records, i, t),
                      NEW k \in ActiveRecords(records, i, t)
               PROVE  j = k
    BY DEF OneActiveGeneration
  <2>1. /\ j \in DOMAIN records /\ records[j].status = "ACTIVE" /\ j[1] = i
        /\ k \in DOMAIN records /\ records[k].status = "ACTIVE" /\ k[1] = i
    BY DEF ActiveRecords
  <2>2. j \in Identities \X (Nat \ {0}) /\ k \in Identities \X (Nat \ {0})
    BY <2>1 DEF RegistryInv, RegistryOK
  <2>3. j[2] <= k[2] /\ k[2] <= j[2]
    BY <2>1 DEF RegistryInv, ActiveIsLast
  <2>4. j[2] = k[2]
    BY <2>2, <2>3
  <2> QED
    BY <2>1, <2>2, <2>4
<1> QED
    BY <1>1, RegistryInvariant, PTL

\* For every registry, a public key belongs to one generation.
THEOREM KeysUniqueHolds == Spec => []PublicKeysUnique
<1>1. RegistryInv => PublicKeysUnique
    BY DEF RegistryInv
<1> QED
    BY <1>1, RegistryInvariant, PTL

\* For every registry and any number of administrators, a revision names
\* one content.
THEOREM RevisionNames == Spec => []RevisionNamesContent
<1>1. RegistryInv => RevisionNamesContent
    BY DEF RegistryInv
<1> QED
    BY <1>1, RegistryInvariant, PTL

\* A registry without a digest is never changed again.
THEOREM DamageFrozen == Spec => DamageIsFrozen
<1>1. ASSUME Next PROVE ValidSnapshot(records)
  <2>1. PICK a \in Administrators : Read(a) \/ RequireBase(a)
    <3>1. \A a, i, p, from, until : InsertInitial(a, i, p, from, until) => RequireBase(a)
      BY DEF InsertInitial
    <3>2. \A a, k, p, activation, retirement, until :
             RotateGuarded(a, k, p, activation, retirement, until) => RequireBase(a)
      BY DEF RotateGuarded
    <3>3. \A a, k, p, activation, retirement, until :
             RotateDamages(a, k, p, activation, retirement, until) => RequireBase(a)
      BY DEF RotateDamages
    <3>4. \A a, k : RevokeGuarded(a, k) => RequireBase(a)
      BY DEF RevokeGuarded
    <3> QED
      BY <1>1, <3>1, <3>2, <3>3, <3>4 DEF Next
  <2> QED
    BY <2>1 DEF Read, RequireBase
<1>2. [Next]_vars => [~ ValidSnapshot(records) => UNCHANGED <<records, revision>>]_vars
    BY <1>1
<1> QED
    BY <1>2, PTL DEF Spec, DamageIsFrozen

\* No mutation makes a signature of an existing generation resolvable that
\* was not resolvable before, for every length of the key history.
THEOREM HistoryOnlyNarrows == KeySpec => HistoryNarrows
<1> DEFINE Narrows == \A k \in DOMAIN records :
              /\ k \in DOMAIN records'
              /\ records'[k].public_key = records[k].public_key
              /\ \A t \in Times : Resolve(records', k, t) => Resolve(records, k, t)
<1>1. ASSUME RegistryInv, [Next]_vars PROVE [Narrows]_vars
  <2> SUFFICES ASSUME Next PROVE Narrows
    BY <1>1
  <2>1. ASSUME UNCHANGED records PROVE Narrows
    BY <2>1
  <2>2. ASSUME NEW a \in Administrators, Read(a) PROVE Narrows
    BY <2>1, <2>2 DEF Read
  <2>3. ASSUME NEW a \in Administrators, NEW i \in Identities, NEW p \in PublicKeys,
               NEW from \in Times, NEW until \in Times,
               InsertInitial(a, i, p, from, until)
        PROVE  Narrows
    <3>1. <<i, 1>> \notin DOMAIN records
        BY <2>3 DEF InsertInitial
    <3>2. \A k \in DOMAIN records : k \in DOMAIN records' /\ records'[k] = records[k]
        BY <2>3, <3>1 DEF InsertInitial, Added
    <3> QED
        BY <3>2 DEF Resolve
  <2>4. ASSUME NEW k \in DOMAIN records, NEW retirement \in Times,
               retirement <= records[k].not_after, records[k].status = "ACTIVE",
               ValidSnapshot(records),
               DOMAIN records \subseteq DOMAIN records',
               \A j \in DOMAIN records :
                   records'[j] = IF j = k THEN Retired(k, retirement) ELSE records[j]
        PROVE  Narrows
    <3>1. /\ Retired(k, retirement).public_key = records[k].public_key
          /\ Retired(k, retirement).not_before = records[k].not_before
          /\ Retired(k, retirement).not_after = retirement
        BY <1>1, RetiredRecord DEF RegistryInv
    <3>2. records[k].not_after \in Times
        BY <1>1 DEF RegistryInv, RegistryOK, ProductionKeyRecord
    <3>3. \A t \in Times : t < retirement => t < records[k].not_after
        BY <2>4, <3>2, TimeAssumption DEF Times
    <3>4. \A t \in Times : Resolve(records', k, t) => Resolve(records, k, t)
        BY <2>4, <3>1, <3>3 DEF Resolve, InWindow, ValidSnapshot
    <3>5. \A j \in DOMAIN records, t \in Times :
              j # k => (Resolve(records', j, t) => Resolve(records, j, t))
        BY <2>4 DEF Resolve
    <3> QED
        BY <2>4, <3>1, <3>4, <3>5
  <2>5. ASSUME NEW a \in Administrators, NEW k \in DOMAIN records, NEW p \in PublicKeys,
               NEW activation \in Times, NEW retirement \in Times, NEW until \in Times,
               \/ RotateGuarded(a, k, p, activation, retirement, until)
               \/ RotateDamages(a, k, p, activation, retirement, until)
        PROVE  Narrows
    <3>1. /\ records[k].status = "ACTIVE" /\ retirement <= records[k].not_after
          /\ Successor(k) \notin DOMAIN records
          /\ ValidSnapshot(records)
        BY <2>5 DEF RotateGuarded, RotateDamages, CanRotate, RequireBase
    <3>2. CASE RotateGuarded(a, k, p, activation, retirement, until)
        <4>1. records' = [Added(Successor(k), BuildRecord(p, activation, until))
                              EXCEPT ![k] = Retired(k, retirement)]
            BY <3>2 DEF RotateGuarded
        <4>2. /\ DOMAIN records \subseteq DOMAIN records'
              /\ \A j \in DOMAIN records :
                   records'[j] = IF j = k THEN Retired(k, retirement) ELSE records[j]
            BY <4>1, <3>1 DEF Added
        <4> QED
            BY <4>2, <3>1, <2>4
    <3>3. CASE RotateDamages(a, k, p, activation, retirement, until)
        <4>1. records' = [records EXCEPT ![k] = Retired(k, retirement)]
            BY <3>3 DEF RotateDamages
        <4>2. /\ DOMAIN records \subseteq DOMAIN records'
              /\ \A j \in DOMAIN records :
                   records'[j] = IF j = k THEN Retired(k, retirement) ELSE records[j]
            BY <4>1, <1>1 DEF RegistryInv, RegistryOK
        <4> QED
            BY <4>2, <3>1, <2>4
    <3> QED
        BY <2>5, <3>2, <3>3
  <2>6. ASSUME NEW a \in Administrators, NEW k \in DOMAIN records, RevokeGuarded(a, k)
        PROVE  Narrows
    <3>1. records[k] \in ProductionKeyRecord
        BY <1>1 DEF RegistryInv, RegistryOK
    <3>2. /\ DOMAIN records' = DOMAIN records
          /\ \A j \in DOMAIN records : j # k => records'[j] = records[j]
          /\ records'[k] = [records[k] EXCEPT !.status = "REVOKED"]
        BY <2>6, <1>1 DEF RevokeGuarded, RegistryInv, RegistryOK
    <3>3. records'[k].public_key = records[k].public_key /\ records'[k].status = "REVOKED"
        BY <3>1, <3>2 DEF ProductionKeyRecord
    <3> QED
        BY <3>2, <3>3 DEF Resolve
  <2> QED
    BY <2>2, <2>3, <2>5, <2>6 DEF Next
<1>2. Spec => [][Narrows]_vars
    BY <1>1, RegistryInvariant, PTL DEF Spec
<1> QED
    BY <1>2, RegistryBehaviour DEF HistoryNarrows

-----------------------------------------------------------------------------
(* Rotations leave no gap. *)

Meets(k) ==
    records[k].status = "RETIRED" =>
        LET s == <<k[1], records[k].successor>>
        IN  s \in DOMAIN records /\ records[s].not_before <= records[k].not_after

\* A record that stays, or that only changes its status to revoked, still meets its
\* successor, whose start no mutation moves.
LEMMA MeetsKept ==
    ASSUME SuccessorsMeet, ValidSnapshot(records), NEW k \in DOMAIN records,
           DOMAIN records \subseteq DOMAIN records',
           \A j \in DOMAIN records : records'[j].not_before = records[j].not_before,
           records'[k].status = "RETIRED" => records'[k] = records[k]
    PROVE  Meets(k)'
BY DEF SuccessorsMeet, Meets

LEMMA MeetsStep == RegistryInv /\ SuccessorsMeet /\ [Next]_vars => SuccessorsMeet'
<1> SUFFICES ASSUME RegistryInv, SuccessorsMeet, [Next]_vars, ValidSnapshot(records)'
             PROVE  \A k \in DOMAIN records' : Meets(k)'
    BY DEF SuccessorsMeet, Meets
<1>1. ASSUME UNCHANGED records PROVE \A k \in DOMAIN records' : Meets(k)'
    BY <1>1 DEF SuccessorsMeet, Meets, ValidSnapshot
<1>2. ASSUME NEW a \in Administrators, NEW i \in Identities, NEW p \in PublicKeys,
             NEW from \in Times, NEW until \in Times, InsertInitial(a, i, p, from, until)
      PROVE  \A k \in DOMAIN records' : Meets(k)'
  <2> DEFINE n == <<i, 1>>
  <2>1. ValidSnapshot(records) /\ n \notin DOMAIN records
    BY <1>2 DEF InsertInitial, RequireBase
  <2>2. /\ DOMAIN records' = DOMAIN records \cup {n}
        /\ \A k \in DOMAIN records : records'[k] = records[k]
        /\ records'[n].status = "ACTIVE"
    BY <1>2, <2>1 DEF InsertInitial, Added, BuildRecord
  <2>3. ASSUME NEW k \in DOMAIN records PROVE Meets(k)'
    BY <2>1, <2>2, MeetsKept
  <2> QED
    BY <2>2, <2>3 DEF Meets
<1>3. ASSUME NEW a \in Administrators, NEW k \in DOMAIN records, NEW p \in PublicKeys,
             NEW activation \in Times, NEW retirement \in Times, NEW until \in Times,
             RotateGuarded(a, k, p, activation, retirement, until)
      PROVE  \A j \in DOMAIN records' : Meets(j)'
  <2> DEFINE s == Successor(k)
             r == BuildRecord(p, activation, until)
             q == Retired(k, retirement)
  <2>1. /\ ValidSnapshot(records) /\ s \notin DOMAIN records /\ activation <= retirement
        /\ records' = [Added(s, r) EXCEPT ![k] = q]
    BY <1>3, TimeAssumption DEF RotateGuarded, CanRotate, RequireBase, Times
  <2>2. /\ q.not_before = records[k].not_before /\ q.not_after = retirement
        /\ q.successor = k[2] + 1 /\ q.status = "RETIRED"
    BY RetiredRecord DEF RegistryInv
  <2>3. r.status = "ACTIVE" /\ r.not_before = activation /\ s = <<k[1], k[2] + 1>>
    BY DEF BuildRecord, Successor
  <2> HIDE DEF s, r, q
  <2>4. /\ DOMAIN records' = DOMAIN records \cup {s}
        /\ records'[k] = q /\ records'[s] = r
        /\ \A j \in DOMAIN records : j # k => records'[j] = records[j]
    BY <2>1 DEF Added
  <2>5. ASSUME NEW j \in DOMAIN records, j # k PROVE Meets(j)'
    BY <2>1, <2>2, <2>4, <2>5, MeetsKept
  <2>6. Meets(k)'
    BY <2>1, <2>2, <2>3, <2>4 DEF Meets
  <2>7. Meets(s)'
    BY <2>3, <2>4 DEF Meets
  <2> QED
    BY <2>4, <2>5, <2>6, <2>7
<1>4. ASSUME NEW a \in Administrators, NEW k \in DOMAIN records, NEW p \in PublicKeys,
             NEW activation \in Times, NEW retirement \in Times, NEW until \in Times,
             RotateDamages(a, k, p, activation, retirement, until)
      PROVE  FALSE
  <2>1. records'[k] = Retired(k, retirement) /\ k \in DOMAIN records'
    BY <1>4 DEF RotateDamages, RegistryInv, RegistryOK
  <2> QED
    BY <1>4, <2>1 DEF RotateDamages, ValidSnapshot
<1>5. ASSUME NEW a \in Administrators, NEW k \in DOMAIN records, RevokeGuarded(a, k)
      PROVE  \A j \in DOMAIN records' : Meets(j)'
  <2>1. ValidSnapshot(records) /\ records[k] \in ProductionKeyRecord
    BY <1>5 DEF RevokeGuarded, RequireBase, RegistryInv, RegistryOK
  <2>2. /\ DOMAIN records' = DOMAIN records
        /\ \A j \in DOMAIN records : j # k => records'[j] = records[j]
        /\ records'[k] = [records[k] EXCEPT !.status = "REVOKED"]
    BY <1>5 DEF RevokeGuarded, RegistryInv, RegistryOK
  <2>3. records'[k].status = "REVOKED" /\ records'[k].not_before = records[k].not_before
    BY <2>1, <2>2 DEF ProductionKeyRecord
  <2> QED
    BY <2>1, <2>2, <2>3, MeetsKept
<1> QED
    BY <1>1, <1>2, <1>3, <1>4, <1>5 DEF Next, vars, Read

\* For every registry: while it has a digest, every retired generation has a successor
\* whose window begins no later than the retired one ends (rotate_guarded checks
\* activation against retirement before it builds either record).
THEOREM SuccessorsAlwaysMeet == KeySpec => []SuccessorsMeet
<1>1. Init => SuccessorsMeet
    BY DEF Init, SuccessorsMeet
<1> QED
    BY <1>1, MeetsStep, RegistryInvariant, RegistryBehaviour, PTL DEF Spec

-----------------------------------------------------------------------------
(* The governed verification runtime. *)

\* The usage of a key's authorizer, typed.
UsageMap == UNION {[S -> [token : Tokens, uses : Nat]] : S \in SUBSET G!TokenIds}
Authorizer == [public_key : IssuerKeys, usage : UsageMap]

UsesOf(k, i) == IF i \in DOMAIN authorizers[k].usage THEN authorizers[k].usage[i].uses ELSE 0

\* The receipts of a token id under a key, counted by its authorizer.
Numbered(k, i) ==
    /\ IsFiniteSet(G!ReceiptsOf(k, i))
    /\ {r.use_number : r \in G!ReceiptsOf(k, i)} = 1 .. UsesOf(k, i)
    /\ Cardinality(G!ReceiptsOf(k, i)) = UsesOf(k, i)
    /\ \A r \in G!ReceiptsOf(k, i) :
          /\ i \in DOMAIN authorizers[k].usage
          /\ r.token = authorizers[k].usage[i].token
          /\ UsesOf(k, i) <= r.token.max_uses

\* Every authorizer belongs to a registered key, and every receipt to an authorizer: a
\* key that is inserted or rotated in finds no receipt of its id.
GovInv ==
    /\ DOMAIN issuerRecords \subseteq Roles \X KeyIds
    /\ authorizers \in [DOMAIN authorizers -> Authorizer]
    /\ \A id \in DOMAIN authorizers : <<"CAPABILITY", id>> \in DOMAIN issuerRecords
    /\ \A r \in receipts : r.token \in Tokens /\ r.token.key_id \in DOMAIN authorizers
    /\ \A k \in DOMAIN authorizers, i \in G!TokenIds : Numbered(k, i)

LEMMA UsageMaps ==
    ASSUME NEW f \in UsageMap
    PROVE  /\ DOMAIN f \subseteq G!TokenIds
           /\ \A i \in DOMAIN f : f[i] \in [token : Tokens, uses : Nat]
           /\ \A i \in G!TokenIds, u \in [token : Tokens, uses : Nat] :
                 /\ G!With(f, i, u) \in UsageMap
                 /\ DOMAIN G!With(f, i, u) = DOMAIN f \cup {i}
                 /\ \A j \in DOMAIN f \cup {i} : G!With(f, i, u)[j] = IF j = i THEN u ELSE f[j]
<1>1. PICK S \in SUBSET G!TokenIds : f \in [S -> [token : Tokens, uses : Nat]]
  BY DEF UsageMap
<1>2. ASSUME NEW i \in G!TokenIds, NEW u \in [token : Tokens, uses : Nat]
      PROVE  /\ G!With(f, i, u) \in UsageMap
             /\ DOMAIN G!With(f, i, u) = DOMAIN f \cup {i}
             /\ \A j \in DOMAIN f \cup {i} : G!With(f, i, u)[j] = IF j = i THEN u ELSE f[j]
  <2>1. S \cup {i} \in SUBSET G!TokenIds
    OBVIOUS
  <2>2. G!With(f, i, u) \in [S \cup {i} -> [token : Tokens, uses : Nat]]
    BY <1>1 DEF G!With
  <2> QED BY <1>1, <2>1, <2>2 DEF G!With, UsageMap
<1> QED BY <1>1, <1>2

\* A step that only adds a capability key that was not registered.
LEMMA NewAuthorizer ==
    ASSUME GovInv, NEW id, NEW p \in IssuerKeys,
           <<"CAPABILITY", id>> \notin DOMAIN issuerRecords,
           DOMAIN issuerRecords' \subseteq Roles \X KeyIds,
           DOMAIN issuerRecords \cup {<<"CAPABILITY", id>>} \subseteq DOMAIN issuerRecords',
           authorizers' = G!With(authorizers, id, G!capability_authorizer(p)), UNCHANGED receipts
    PROVE  GovInv'
<1>1. id \notin DOMAIN authorizers
  BY DEF GovInv
<1>2. G!capability_authorizer(p) \in Authorizer /\ G!capability_authorizer(p).usage = << >>
  <2>1. << >> \in [{} -> [token : Tokens, uses : Nat]]
    OBVIOUS
  <2>2. {} \in SUBSET G!TokenIds
    OBVIOUS
  <2>3. << >> \in UsageMap
    BY <2>1, <2>2, Zenon DEF UsageMap
  <2> QED BY <2>3 DEF G!capability_authorizer, Authorizer
<1>3. /\ DOMAIN authorizers' = DOMAIN authorizers \cup {id}
      /\ authorizers' \in [DOMAIN authorizers' -> Authorizer]
      /\ \A k \in DOMAIN authorizers : authorizers'[k] = authorizers[k]
      /\ authorizers'[id].usage = << >>
  BY <1>1, <1>2 DEF G!With, GovInv
<1>4. \A k, i : G!ReceiptsOf(k, i)' = G!ReceiptsOf(k, i)
  BY DEF G!ReceiptsOf
<1>5. ASSUME NEW k \in DOMAIN authorizers', NEW i \in G!TokenIds
      PROVE  Numbered(k, i)'
  <2>1. CASE k = id
    <3>1. G!ReceiptsOf(k, i) = {}
      BY <1>1, <2>1 DEF GovInv, G!ReceiptsOf
    <3>2. DOMAIN << >> = {}
      OBVIOUS
    <3>3. UsesOf(k, i)' = 0
      BY <1>3, <2>1, <3>2 DEF UsesOf
    <3>4. 1 .. 0 = {}
      OBVIOUS
    <3> QED BY <1>4, <3>1, <3>3, <3>4, FS_EmptySet DEF Numbered
  <2>2. CASE k # id
    <3>1. k \in DOMAIN authorizers /\ authorizers'[k] = authorizers[k]
      BY <1>3, <2>2
    <3>2. Numbered(k, i)
      BY <3>1 DEF GovInv
    <3>3. UsesOf(k, i)' = UsesOf(k, i)
      BY <3>1 DEF UsesOf
    <3> QED BY <1>4, <3>1, <3>2, <3>3 DEF Numbered
  <2> QED BY <2>1, <2>2
<1> QED BY <1>3, <1>5 DEF GovInv, G!TokenIds

\* A step of the registry that leaves the authorizers.
LEMMA RegistryOnly ==
    ASSUME GovInv, DOMAIN issuerRecords' \subseteq Roles \X KeyIds,
           DOMAIN issuerRecords \subseteq DOMAIN issuerRecords', UNCHANGED <<authorizers, receipts>>
    PROVE  GovInv'
<1>1. \A k, i : Numbered(k, i)' = Numbered(k, i)
  BY DEF Numbered, UsesOf, G!ReceiptsOf
<1> QED BY <1>1 DEF GovInv, G!TokenIds

LEMMA AuthorizeKeeps ==
    ASSUME GovInv, NEW t \in Tokens, NEW now, G!authorize_capability(t, now)
    PROVE  GovInv'
<1> DEFINE k0 == t.key_id
           i0 == t.token_id
           f == authorizers[k0].usage
           u == G!UsageOf(authorizers[k0], t)
           used == [u EXCEPT !.uses = @ + 1]
           new == [token |-> t, at |-> now, use_number |-> used.uses]
<1>1. /\ k0 \in DOMAIN authorizers /\ G!CanUse(u, t)
      /\ authorizers' = [authorizers EXCEPT ![k0].usage = G!With(@, i0, used)]
      /\ receipts' = receipts \cup {new} /\ UNCHANGED issuerRecords
  BY DEF G!authorize_capability
<1>2. i0 \in G!TokenIds /\ f \in UsageMap /\ authorizers[k0] \in Authorizer
  BY <1>1 DEF G!TokenIds, GovInv, Authorizer
<1>3. /\ u \in [token : Tokens, uses : Nat] /\ u.uses = UsesOf(k0, i0)
      /\ i0 \in DOMAIN f => u = f[i0]
  BY <1>2, UsageMaps DEF G!UsageOf, UsesOf
<1>4. /\ used \in [token : Tokens, uses : Nat] /\ used.uses = u.uses + 1 /\ used.token = t
      /\ u.token = t /\ u.uses + 1 <= t.max_uses
  BY <1>1, <1>3, TokensAssumption DEF G!CanUse
<1>5. new.token = t /\ new.use_number = u.uses + 1
  BY <1>4
<1> HIDE DEF u, used, new
<1>6. /\ DOMAIN authorizers' = DOMAIN authorizers
      /\ authorizers' \in [DOMAIN authorizers' -> Authorizer]
      /\ \A k \in DOMAIN authorizers : k # k0 => authorizers'[k] = authorizers[k]
      /\ authorizers'[k0].usage = G!With(f, i0, used)
  <2>1. G!With(f, i0, used) \in UsageMap
    BY <1>2, <1>4, UsageMaps
  <2> QED BY <1>1, <1>2, <2>1 DEF GovInv, Authorizer
<1>7. /\ DOMAIN authorizers'[k0].usage = DOMAIN f \cup {i0}
      /\ authorizers'[k0].usage[i0] = used
      /\ \A i \in DOMAIN f : i # i0 => authorizers'[k0].usage[i] = f[i]
  <2>1. PICK g : g = f
    OBVIOUS
  <2>2. /\ DOMAIN G!With(g, i0, used) = DOMAIN g \cup {i0}
        /\ \A j \in DOMAIN g \cup {i0} : G!With(g, i0, used)[j] = IF j = i0 THEN used ELSE g[j]
    BY DEF G!With
  <2> QED BY <1>6, <2>1, <2>2
<1>8. ASSUME NEW k \in DOMAIN authorizers, NEW i \in G!TokenIds PROVE Numbered(k, i)'
  <2>0. Numbered(k, i)
    BY DEF GovInv
  <2>1. CASE ~(k = k0 /\ i = i0)
    <3>1. G!ReceiptsOf(k, i)' = G!ReceiptsOf(k, i)
      BY <1>1, <1>5, <2>1 DEF G!ReceiptsOf
    <3>2. /\ (i \in DOMAIN authorizers[k].usage)' <=> i \in DOMAIN authorizers[k].usage
          /\ i \in DOMAIN authorizers[k].usage => authorizers'[k].usage[i] = authorizers[k].usage[i]
      BY <1>6, <1>7, <2>1
    <3>3. UsesOf(k, i)' = UsesOf(k, i)
      BY <3>2 DEF UsesOf
    <3> QED BY <2>0, <3>1, <3>2, <3>3 DEF Numbered
  <2>2. CASE k = k0 /\ i = i0
    <3> DEFINE rs == G!ReceiptsOf(k, i)
               n == UsesOf(k, i)
    <3>1. G!ReceiptsOf(k, i)' = rs \cup {new}
      BY <1>1, <1>5, <2>2 DEF G!ReceiptsOf
    <3>2. UsesOf(k, i)' = n + 1 /\ n \in Nat
      BY <1>3, <1>4, <1>7, <2>2 DEF UsesOf
    <3>3. new.use_number = n + 1
      BY <1>3, <1>5, <2>2
    <3>4. \A r \in rs : r.use_number \in 1 .. n
      BY <2>0 DEF Numbered
    <3>5. new \notin rs
      BY <3>2, <3>3, <3>4
    <3>6. \A r \in rs : r.token = t
      BY <1>3, <1>4, <2>0, <2>2 DEF Numbered
    <3>7. /\ IsFiniteSet(rs \cup {new})
          /\ Cardinality(rs \cup {new}) = n + 1
      BY <2>0, <3>5, FS_AddElement DEF Numbered
    <3>8. {r.use_number : r \in rs \cup {new}} = 1 .. (n + 1)
      <4>1. {r.use_number : r \in rs \cup {new}} = {r.use_number : r \in rs} \cup {n + 1}
        BY <3>3
      <4>2. {r.use_number : r \in rs} = 1 .. n
        BY <2>0 DEF Numbered
      <4>3. (1 .. n) \cup {n + 1} = 1 .. (n + 1)
        BY <3>2
      <4> QED BY <4>1, <4>2, <4>3
    <3>9. \A r \in rs \cup {new} : r.token = t
      BY <1>5, <3>6
    <3>10. n + 1 <= t.max_uses
      BY <1>3, <1>4, <2>2
    <3> HIDE DEF rs, n
    <3> QED BY <1>4, <1>7, <2>2, <3>1, <3>2, <3>7, <3>8, <3>9, <3>10 DEF Numbered
  <2> QED BY <2>1, <2>2
<1>9. \A r \in receipts' : r.token \in Tokens /\ r.token.key_id \in DOMAIN authorizers'
  BY <1>1, <1>5, <1>6 DEF GovInv
<1> QED BY <1>1, <1>6, <1>8, <1>9 DEF GovInv, G!TokenIds

LEMMA GovStep == GovInv /\ G!GovNext => GovInv'
<1> SUFFICES ASSUME GovInv, G!GovNext PROVE GovInv'
  OBVIOUS
<1>0. DOMAIN issuerRecords \subseteq Roles \X KeyIds
  BY DEF GovInv
<1>1. ASSUME NEW a \in Administrators, G!ReadRegistry(a) PROVE GovInv'
  BY <1>0, <1>1, RegistryOnly DEF G!ReadRegistry, G!Read
<1>2. ASSUME NEW role, NEW id \in KeyIds, NEW p \in IssuerKeys, NEW from, NEW until,
             G!Insert(role, id, p, from, until), role \in Roles
      PROVE  /\ DOMAIN issuerRecords' = DOMAIN issuerRecords \cup {<<role, id>>}
             /\ DOMAIN issuerRecords' \subseteq Roles \X KeyIds
             /\ <<role, id>> \notin DOMAIN issuerRecords
  BY <1>0, <1>2 DEF G!Insert, G!Added
<1>3. ASSUME NEW a, NEW role, NEW id \in KeyIds, NEW new \in KeyIds, NEW p \in IssuerKeys,
             NEW activation, NEW retirement, NEW until,
             G!RotateGuarded(a, role, id, new, p, activation, retirement, until)
      PROVE  /\ DOMAIN issuerRecords' = DOMAIN issuerRecords \cup {<<role, new>>}
             /\ DOMAIN issuerRecords' \subseteq Roles \X KeyIds
             /\ <<role, new>> \notin DOMAIN issuerRecords
  <2>1. <<role, id>> \in DOMAIN issuerRecords /\ <<role, new>> \notin DOMAIN issuerRecords
    BY <1>3 DEF G!RotateGuarded, G!CanRotate
  <2>2. role \in Roles
    BY <1>0, <2>1
  <2> QED BY <1>0, <1>3, <2>1, <2>2 DEF G!RotateGuarded, G!Added
<1>4. ASSUME NEW id \in KeyIds, NEW p \in IssuerKeys, NEW from, NEW until,
             \/ G!insert_capability_key(id, p, from, until)
             \/ G!insert_attestation_key(id, p, from, until)
             \/ \E role \in Roles : G!insert_auxiliary_key(role, id, p, from, until)
      PROVE  GovInv'
  <2>1. CASE G!insert_capability_key(id, p, from, until)
    BY <1>2, <2>1, RolesAssumption, NewAuthorizer DEF G!insert_capability_key
  <2>2. CASE G!insert_attestation_key(id, p, from, until)
    BY <1>2, <2>2, RolesAssumption, RegistryOnly DEF G!insert_attestation_key
  <2>3. ASSUME NEW role \in Roles, G!insert_auxiliary_key(role, id, p, from, until) PROVE GovInv'
    BY <1>2, <2>3, RegistryOnly DEF G!insert_auxiliary_key
  <2> QED BY <1>4, <2>1, <2>2, <2>3
<1>5. ASSUME NEW a \in Administrators, NEW id \in KeyIds, NEW new \in KeyIds, NEW p \in IssuerKeys,
             NEW activation, NEW retirement, NEW until,
             \/ G!rotate_capability_key_guarded(a, id, new, p, activation, retirement, until)
             \/ G!rotate_attestation_key_guarded(a, id, new, p, activation, retirement, until)
      PROVE  GovInv'
  <2>1. CASE G!rotate_capability_key_guarded(a, id, new, p, activation, retirement, until)
    BY <1>3, <2>1, NewAuthorizer DEF G!rotate_capability_key_guarded
  <2>2. CASE G!rotate_attestation_key_guarded(a, id, new, p, activation, retirement, until)
    BY <1>3, <2>2, RegistryOnly DEF G!rotate_attestation_key_guarded
  <2> QED BY <1>5, <2>1, <2>2
<1>6. ASSUME NEW a \in Administrators, NEW k \in DOMAIN issuerRecords, G!revoke_key_guarded(a, k)
      PROVE  GovInv'
  <2>1. DOMAIN issuerRecords' = DOMAIN issuerRecords
    BY <1>6 DEF G!revoke_key_guarded, G!RevokeGuarded
  <2> QED BY <1>0, <1>6, <2>1, RegistryOnly DEF G!revoke_key_guarded
<1>7. ASSUME NEW t \in Tokens, NEW now, G!authorize_capability(t, now) PROVE GovInv'
  BY <1>7, AuthorizeKeeps
<1> QED BY <1>1, <1>4, <1>5, <1>6, <1>7 DEF G!GovNext

LEMMA GovBegins == G!GovInit => GovInv
<1> SUFFICES ASSUME G!GovInit PROVE GovInv
  OBVIOUS
<1>1. DOMAIN issuerRecords = {} /\ authorizers = << >> /\ receipts = {}
  BY DEF G!GovInit, G!Init
<1>2. DOMAIN authorizers = {} /\ authorizers \in [DOMAIN authorizers -> Authorizer]
  BY <1>1
<1> QED BY <1>1, <1>2 DEF GovInv

\* The cardinality GovernedVerification speaks of is that of FiniteSets.
LEMMA SameCardinality == \A S : G!Cardinality(S) = Cardinality(S)
BY DEF G!Cardinality, Cardinality

LEMMA GovInvariant == KeySpec => []GovInv
<1>1. GovInv /\ [KeyNext]_<<vars, issuerVars, registry>> => GovInv'
  <2> SUFFICES ASSUME GovInv, [KeyNext]_<<vars, issuerVars, registry>> PROVE GovInv'
    OBVIOUS
  <2>1. CASE G!GovNext
    BY <2>1, GovStep
  <2>2. CASE UNCHANGED issuerVars
    BY <2>2, RegistryOnly DEF issuerVars, GovInv
  <2> QED BY <2>1, <2>2 DEF KeyNext
<1> QED BY <1>1, GovBegins, PTL DEF KeySpec, KeyInit

\* For every set of tokens and keys: whatever happens to the registry, the receipts of
\* a token id under a key are numbered 1 to the uses its CapabilityAuthorizer has
\* counted, all for one signed token, and never more than its max_uses.
THEOREM UsesNumbered == KeySpec => []ReceiptsNumberUses
<1> DEFINE Body(k, i) ==
        LET rs == G!ReceiptsOf(k, i)
            uses == IF i \in DOMAIN authorizers[k].usage
                      THEN authorizers[k].usage[i].uses ELSE 0
        IN  /\ {r.use_number : r \in rs} = 1 .. uses
            /\ G!Cardinality(rs) = uses
            /\ \A r, s \in rs : r.token = s.token /\ uses <= r.token.max_uses
<1>1. GovInv => G!ReceiptsNumberUses
  <2>1. ASSUME GovInv, NEW k \in DOMAIN authorizers, NEW i \in G!TokenIds PROVE Body(k, i)
    <3>1. Numbered(k, i)
      BY <2>1 DEF GovInv
    <3> QED BY <3>1, SameCardinality DEF Numbered, UsesOf
  <2> HIDE DEF Body
  <2>2. GovInv => \A k \in DOMAIN authorizers, i \in G!TokenIds : Body(k, i)
    BY <2>1
  <2> QED BY <2>2 DEF Body, G!ReceiptsNumberUses
<1> QED BY <1>1, GovInvariant, PTL DEF ReceiptsNumberUses

\* Once a capability key is revoked, authorize_capability issues no receipt under it,
\* although its authorizer stays in the map.
THEOREM RevocationIsFinal == KeySpec => RevocationStopsAuthorization
<1>1. ASSUME GovInv, G!GovNext PROVE G!NoReceiptUnderRevoked
  <2>1. CASE receipts' \subseteq receipts
    BY <2>1 DEF G!NoReceiptUnderRevoked
  <2>2. ASSUME NEW t \in Tokens, NEW now, G!authorize_capability(t, now) PROVE G!NoReceiptUnderRevoked
    <3>1. issuerRecords[<<"CAPABILITY", t.key_id>>].status # "REVOKED"
      BY <2>2 DEF G!authorize_capability, G!verify_capability_token_signature, G!Resolve
    <3>2. \A r \in receipts' \ receipts : r.token = t
      BY <2>2 DEF G!authorize_capability
    <3>3. \A k \in DOMAIN issuerRecords : k = <<k[1], k[2]>>
      BY <1>1 DEF GovInv
    <3> QED BY <3>1, <3>2, <3>3 DEF G!NoReceiptUnderRevoked
  <2>3. receipts' \subseteq receipts \/ \E t \in Tokens, now \in G!Times : G!authorize_capability(t, now)
    BY <1>1 DEF G!GovNext, G!ReadRegistry, G!insert_capability_key, G!insert_attestation_key,
                G!insert_auxiliary_key, G!rotate_capability_key_guarded,
                G!rotate_attestation_key_guarded, G!revoke_key_guarded
  <2> QED BY <2>1, <2>2, <2>3
<1>2. ASSUME GovInv, [KeyNext]_<<vars, issuerVars, registry>> PROVE [G!NoReceiptUnderRevoked]_issuerVars
  BY <1>1, <1>2 DEF KeyNext
<1> QED BY <1>2, GovInvariant, PTL DEF KeySpec, RevocationStopsAuthorization
=============================================================================
