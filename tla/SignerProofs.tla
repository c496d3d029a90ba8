----------------------------- MODULE SignerProofs -----------------------------
(***************************************************************************)
(* Proofs about the isolated signer: SignerIdentityGate, for any number of *)
(* service processes, backends and trust states and for any TTL longer     *)
(* than the exchange, and SignerPipeService, for any clients, requests and *)
(* numbers of starts and restarts.                                         *)
(***************************************************************************)
EXTENDS SignerIdentityGate, SignerPipeService, FiniteSetTheorems, TLAPS

\* A leaf is tried with Zenon, then with SMT, then with each again for longer.
USE ZenonT(3), SMTT(20), ZenonT(60), SMTT(120)

-----------------------------------------------------------------------------
(* The identity gate *)

Identity == Instances \cup {None}

\* What an exchange under way has recorded lies in the past.
ExchangeOK(x) ==
    \/ x = Idle
    \/ x \in Asked /\ x.at <= now
    \/ x \in Proved /\ x.at <= now /\ x.proved <= now

\* The part about time: exchanges, the service and the last lease.
TimeInv ==
    /\ now \in Times
    /\ service \in [up : BOOLEAN, id : 0 .. MaxInstances, trust : Revisions]
    /\ service.up => service.id \in Instances
    /\ \A p \in Parties : ExchangeOK(exchange[p])
    /\ exchange = [p \in Parties |-> exchange[p]]
    /\ store \in Revisions /\ manifest \in Revisions
    /\ backend \in [starts : 0 .. MaxBackends, trust : Revisions]
    /\ lease \in [identity : Instances, proved : Times, expires : Nat, granted : Times]
                   \cup {None}
    /\ LeaseFresh

\* The part about identities.  A pending identity has been proved once, which
\* is what makes the second proof of a recovery the second one.
IdentityInv ==
    /\ gate \in [active : Identity, pending : Identity, status : Statuses]
    /\ baseline \in Identity /\ first \in Identity /\ last \in Identity
    /\ proofs \in [Instances -> 0 .. 2]
    /\ leased \subseteq Instances
    /\ \A i \in leased : baseline = i
    /\ gate.pending # None => proofs[gate.pending] >= 1
    /\ ChangeProvedTwice
    /\ EnabledMeansProved

GateInv == TimeInv /\ IdentityInv

LEMMA TimeInitial == Init => TimeInv
  BY BoundsAssumption DEF Init, TimeInv, ExchangeOK, LeaseFresh, Times, Revisions, Instances

LEMMA IdentityInitial == Init => IdentityInv
  BY BoundsAssumption DEF Init, IdentityInv, Identity, NoGate, Statuses, ChangeProvedTwice,
     EnabledMeansProved, Instances

LEMMA TypedExchanges == TimeInv => exchange \in [Parties -> {Idle} \cup Asked \cup Proved]
  BY DEF TimeInv, ExchangeOK

-----------------------------------------------------------------------------
(* Steps keep the part about time *)

\* Closing an exchange, or replacing it by one that lies in the past, keeps
\* all exchanges in the past.
LEMMA ExchangeReplaced ==
  ASSUME TimeInv, now' = now, NEW p \in Parties, NEW y, ExchangeOK(y),
         exchange' = [exchange EXCEPT ![p] = y]
  PROVE  /\ \A q \in Parties : ExchangeOK(exchange[q])'
         /\ exchange' = [q \in Parties |-> exchange'[q]]
  BY DEF TimeInv, ExchangeOK

LEMMA IdleOK == ExchangeOK(Idle)
  BY DEF ExchangeOK

LEMMA AskedOK ==
  ASSUME TimeInv, NEW mode \in {"observe", "recover"}
  PROVE  ExchangeOK([pc |-> "asked", at |-> now, mode |-> mode])
  BY DEF ExchangeOK, Asked, TimeInv, Times

LEMMA ExchangeFields ==
  ASSUME TimeInv, NEW p \in Parties
  PROVE  /\ exchange[p].pc = "asked" =>
                exchange[p] \in Asked /\ exchange[p].at <= now
         /\ exchange[p].pc = "proved" =>
                exchange[p] \in Proved /\ exchange[p].at <= now /\ exchange[p].proved <= now
  BY DEF TimeInv, ExchangeOK, Idle, Asked, Proved

LEMMA ProvesTime ==
  ASSUME TimeInv, NEW p \in Parties, ServiceProves(p)
  PROVE  TimeInv'
<1> DEFINE x == exchange[p]
           y == [pc |-> "proved", at |-> x.at, mode |-> x.mode, identity |-> service.id,
                 proved |-> now, trust |-> service.trust]
<1>1. x \in Asked /\ x.at <= now
  BY ExchangeFields DEF ServiceProves
<1>2. service.id \in Instances /\ service.trust \in Revisions /\ now \in Times
  BY DEF ServiceProves, TimeInv
<1>3. ExchangeOK(y)
  BY <1>1, <1>2, BoundsAssumption DEF ExchangeOK, Asked, Proved, Times
<1>4. exchange' = [exchange EXCEPT ![p] = y] /\ now' = now
  BY DEF ServiceProves, world, TimeInv
<1>5. /\ \A q \in Parties : ExchangeOK(exchange[q])'
      /\ exchange' = [q \in Parties |-> exchange'[q]]
  <2> HIDE DEF y
  <2> QED BY <1>3, <1>4, ExchangeReplaced
<1> QED
  BY <1>5 DEF TimeInv, ServiceProves, world, LeaseFresh

LEMMA GateTime ==
  ASSUME TimeInv, FinishRefresh \/ FailRefresh \/ RefuseLease
  PROVE  TimeInv'
<1>1. PICK p \in Parties : exchange' = [exchange EXCEPT ![p] = Idle]
  BY DEF FinishRefresh, FailRefresh, RefuseLease, Close, Parties
<1>2. now' = now
  BY DEF FinishRefresh, FailRefresh, RefuseLease, world
<1>3. /\ \A q \in Parties : ExchangeOK(exchange[q])'
      /\ exchange' = [q \in Parties |-> exchange'[q]]
  BY <1>1, <1>2, ExchangeReplaced, IdleOK
<1> QED
  BY <1>3 DEF TimeInv, FinishRefresh, FailRefresh, RefuseLease, world, LeaseFresh

LEMMA AskTime ==
  ASSUME TimeInv, BeginLease \/ \E mode \in {"observe", "recover"} : BeginRefresh(mode)
  PROVE  TimeInv'
<1>1. now' = now /\ lease' = lease
  BY DEF BeginLease, BeginRefresh, world
<1>2. \/ exchange' = exchange
      \/ \E p \in Parties, mode \in {"observe", "recover"} :
            exchange' = [exchange EXCEPT ![p] = [pc |-> "asked", at |-> now, mode |-> mode]]
  BY DEF BeginLease, BeginRefresh, Parties
<1>3. /\ \A q \in Parties : ExchangeOK(exchange[q])'
      /\ exchange' = [q \in Parties |-> exchange'[q]]
  <2>1. CASE exchange' = exchange
    BY <2>1, <1>1 DEF TimeInv, ExchangeOK
  <2>2. CASE \E p \in Parties, mode \in {"observe", "recover"} :
            exchange' = [exchange EXCEPT ![p] = [pc |-> "asked", at |-> now, mode |-> mode]]
    <3>1. PICK p \in Parties, mode \in {"observe", "recover"} :
              exchange' = [exchange EXCEPT ![p] = [pc |-> "asked", at |-> now, mode |-> mode]]
      BY <2>2
    <3> QED BY <3>1, <1>1, AskedOK, ExchangeReplaced
  <2> QED BY <1>2, <2>1, <2>2
<1> QED
  BY <1>1, <1>3 DEF TimeInv, BeginLease, BeginRefresh, world, LeaseFresh

LEMMA GrantTime ==
  ASSUME TimeInv, GrantLease
  PROVE  TimeInv'
<1> DEFINE x == exchange["boundary"]
<1>1. x \in Proved /\ x.at <= now /\ x.proved <= now
  BY ExchangeFields DEF GrantLease, Parties
<1>2. now \in Times /\ now <= x.at + IoLimit
  BY DEF GrantLease, InTime, TimeInv
<1>3. lease' = [identity |-> x.identity, proved |-> x.proved, expires |-> x.at + TTL,
                granted |-> now]
  BY DEF GrantLease
<1>4. x.at \in Nat /\ x.proved \in Times /\ x.identity \in Instances
  BY <1>1 DEF Proved, Times
<1>5. lease' \in [identity : Instances, proved : Times, expires : Nat, granted : Times]
  BY <1>2, <1>3, <1>4, BoundsAssumption
<1>6. LeaseFresh'
  BY <1>1, <1>2, <1>3, <1>4, BoundsAssumption, DeadlineAssumption DEF LeaseFresh, Times
<1>7. now' = now /\ exchange' = [exchange EXCEPT !["boundary"] = Idle]
  BY DEF GrantLease, Close, world
<1>8. /\ \A q \in Parties : ExchangeOK(exchange[q])'
      /\ exchange' = [q \in Parties |-> exchange'[q]]
  BY <1>7, ExchangeReplaced, IdleOK DEF Parties
<1> QED
  BY <1>5, <1>6, <1>8 DEF TimeInv, GrantLease, world

LEMMA StartTime ==
  ASSUME TimeInv, StartBackend
  PROVE  TimeInv'
<1>1. now' = now /\ lease' = None
  BY DEF StartBackend
<1>2. exchange' = [p \in Parties |-> exchange'[p]]
  BY DEF StartBackend
<1>3. \A q \in Parties : \/ exchange'[q] = Idle
                         \/ exchange'[q] = [pc |-> "asked", at |-> now, mode |-> "observe"]
  BY DEF StartBackend
<1>4. \A q \in Parties : ExchangeOK(exchange[q])'
  BY <1>1, <1>3, IdleOK, AskedOK DEF ExchangeOK
<1>5. backend' \in [starts : 0 .. MaxBackends, trust : Revisions]
  BY BoundsAssumption DEF StartBackend, TimeInv
<1> QED
  BY <1>1, <1>2, <1>4, <1>5 DEF TimeInv, StartBackend, LeaseFresh

LEMMA WorldTime ==
  ASSUME TimeInv, StartSigner \/ StopSigner \/ ActivateTrust \/ ProvisionManifest \/ Tick
  PROVE  TimeInv'
<1>1. exchange' = exchange /\ lease' = lease /\ backend' = backend
  BY DEF StartSigner, StopSigner, ActivateTrust, ProvisionManifest, Tick
<1>2. now' \in Times /\ now <= now'
  <2>1. now \in Times
    BY DEF TimeInv
  <2>2. CASE Tick
    BY <2>1, <2>2, BoundsAssumption DEF Tick, Times
  <2>3. CASE now' = now
    BY <2>1, <2>3, BoundsAssumption DEF Times
  <2> QED
    BY <2>2, <2>3 DEF StartSigner, StopSigner, ActivateTrust, ProvisionManifest
<1>3. \A q \in Parties : ExchangeOK(exchange[q])'
  BY <1>1, <1>2, BoundsAssumption DEF TimeInv, ExchangeOK, Asked, Proved, Times
<1>4. /\ service' \in [up : BOOLEAN, id : 0 .. MaxInstances, trust : Revisions]
      /\ service'.up => service'.id \in Instances
  <2>1. CASE StartSigner
    BY <2>1, BoundsAssumption DEF StartSigner, TimeInv, Instances
  <2>2. CASE StopSigner
    BY <2>2 DEF StopSigner, TimeInv
  <2>3. CASE service' = service
    BY <2>3 DEF TimeInv
  <2> QED
    BY <2>1, <2>2, <2>3 DEF ActivateTrust, ProvisionManifest, Tick
<1>5. store' \in Revisions /\ manifest' \in Revisions
  <2>1. store \in Revisions /\ manifest \in Revisions
    BY DEF TimeInv
  <2>2. CASE ActivateTrust
    BY <2>1, <2>2, BoundsAssumption DEF ActivateTrust, Revisions
  <2>3. CASE ProvisionManifest
    BY <2>1, <2>3 DEF ProvisionManifest
  <2>4. CASE UNCHANGED <<store, manifest>>
    BY <2>1, <2>4
  <2> QED
    BY <2>2, <2>3, <2>4 DEF StartSigner, StopSigner, Tick
<1> QED
  BY <1>1, <1>2, <1>3, <1>4, <1>5 DEF TimeInv, LeaseFresh

LEMMA TimeInductive == TimeInv /\ [Next]_vars => TimeInv'
<1> SUFFICES ASSUME TimeInv, [Next]_vars
             PROVE  TimeInv'
  OBVIOUS
<1>1. CASE UNCHANGED vars
  BY <1>1 DEF vars, world, TimeInv, ExchangeOK, LeaseFresh
<1>2. CASE Next
  BY <1>2, ProvesTime, GateTime, AskTime, GrantTime, StartTime, WorldTime DEF Next
<1> QED BY <1>1, <1>2

-----------------------------------------------------------------------------
(* Steps keep the part about identities *)

LEMMA RefreshIdentity ==
  ASSUME TimeInv, IdentityInv, FinishRefresh
  PROVE  IdentityInv'
<1> DEFINE i == exchange["gate"].identity
           mode == exchange["gate"].mode
<1>1. i \in Instances
  BY ExchangeFields DEF FinishRefresh, Parties, Proved
<1>2. /\ gate' = Observe(i, mode)
      /\ first' = IF gate.active = None THEN i ELSE first
      /\ proofs' = [proofs EXCEPT ![i] = IF @ < 2 THEN @ + 1 ELSE @]
      /\ last' = i
      /\ UNCHANGED <<baseline, leased>>
  BY DEF FinishRefresh
<1> HIDE DEF i, mode
<1>3. None \notin Instances
  BY BoundsAssumption DEF Instances
<1>4. /\ proofs' \in [Instances -> 0 .. 2]
      /\ proofs'[i] >= 1
      /\ proofs[i] >= 1 => proofs'[i] >= 2
      /\ \A j \in Instances : proofs'[j] >= proofs[j]
  BY <1>1, <1>2 DEF IdentityInv
<1>5. CASE \/ gate.active = None
           \/ gate.pending = None /\ gate.active = i
           \/ gate.pending = i /\ mode = "recover"
  <2>1. gate' = [active |-> i, pending |-> None, status |-> "live"]
    BY <1>2, <1>5 DEF Observe
  <2>2. ChangeProvedTwice'
    <3>1. CASE gate.active = None
      BY <2>1, <3>1, <1>2 DEF ChangeProvedTwice
    <3>2. CASE gate.active # None /\ gate.pending = None /\ gate.active = i
      BY <2>1, <3>2, <1>1, <1>2, <1>4 DEF ChangeProvedTwice, IdentityInv
    <3>3. CASE gate.active # None /\ gate.pending = i
      BY <2>1, <3>3, <1>1, <1>3, <1>4 DEF ChangeProvedTwice, IdentityInv
    <3> QED BY <1>5, <3>1, <3>2, <3>3
  <2>3. EnabledMeansProved'
    BY <2>1, <1>1, <1>2, <1>3 DEF EnabledMeansProved
  <2>4. /\ gate' \in [active : Identity, pending : Identity, status : Statuses]
        /\ gate'.pending = None
    BY <2>1, <1>1 DEF Identity, Statuses
  <2> QED
    BY <1>1, <1>2, <1>4, <2>2, <2>3, <2>4 DEF IdentityInv, Identity
<1>6. CASE ~ \/ gate.active = None
             \/ gate.pending = None /\ gate.active = i
             \/ gate.pending = i /\ mode = "recover"
  <2>1. gate' = [gate EXCEPT !.pending = IF gate.active = i THEN @ ELSE i,
                             !.status = "recovery"]
    BY <1>2, <1>6 DEF Observe
  <2>2. /\ gate' \in [active : Identity, pending : Identity, status : Statuses]
        /\ gate'.active = gate.active /\ gate'.status = "recovery"
        /\ gate'.pending \in {gate.pending, i}
    BY <2>1, <1>1 DEF IdentityInv, Identity, Statuses
  <2>3. ChangeProvedTwice'
    BY <2>2, <1>2, <1>4, <1>6 DEF ChangeProvedTwice, IdentityInv, Identity
  <2>4. gate'.pending # None => proofs'[gate'.pending] >= 1
    BY <2>2, <1>1, <1>4 DEF IdentityInv, Identity
  <2> QED
    BY <1>1, <1>2, <1>4, <2>2, <2>3, <2>4 DEF IdentityInv, Identity, EnabledMeansProved
<1> QED BY <1>5, <1>6

LEMMA FailIdentity ==
  ASSUME IdentityInv, FailRefresh \/ \E mode \in {"observe", "recover"} : BeginRefresh(mode)
  PROVE  IdentityInv'
<1>1. /\ UNCHANGED <<baseline, first, proofs, leased>>
      /\ \/ UNCHANGED <<gate, last>>
         \/ gate' = [gate EXCEPT !.status = "unavailable"] /\ last' = None
  BY DEF FailRefresh, BeginRefresh
<1>2. CASE UNCHANGED <<gate, last>>
  BY <1>1, <1>2 DEF IdentityInv, ChangeProvedTwice, EnabledMeansProved
<1>3. CASE gate' = [gate EXCEPT !.status = "unavailable"] /\ last' = None
  <2>1. /\ gate' \in [active : Identity, pending : Identity, status : Statuses]
        /\ gate'.active = gate.active /\ gate'.pending = gate.pending
        /\ gate'.status = "unavailable"
    BY <1>3 DEF IdentityInv, Statuses
  <2> QED
    BY <1>1, <1>3, <2>1 DEF IdentityInv, ChangeProvedTwice, EnabledMeansProved, Identity
<1> QED BY <1>1, <1>2, <1>3

LEMMA GrantIdentity ==
  ASSUME TimeInv, IdentityInv, GrantLease
  PROVE  IdentityInv'
<1> DEFINE i == exchange["boundary"].identity
<1>1. i \in Instances
  BY ExchangeFields DEF GrantLease, Parties, Proved
<1>2. /\ baseline \in {None, i} /\ baseline' = i
      /\ leased' = leased \cup {i}
      /\ UNCHANGED <<gate, first, proofs, last>>
  BY DEF GrantLease, Adopts
<1> HIDE DEF i
<1>3. \A j \in leased : j = i
  BY <1>2, BoundsAssumption DEF IdentityInv, Instances
<1> QED
  BY <1>1, <1>2, <1>3 DEF IdentityInv, ChangeProvedTwice, EnabledMeansProved, Identity

LEMMA StartIdentity ==
  ASSUME IdentityInv, StartBackend
  PROVE  IdentityInv'
<1>1. /\ gate'.active = None /\ gate'.pending = None
      /\ gate'.status \in {"configured", "unavailable", "rejected"}
      /\ gate' \in [active : Identity, pending : Identity, status : Statuses]
  BY DEF StartBackend, NoGate, Identity, Statuses
<1> QED
  BY <1>1 DEF StartBackend, IdentityInv, ChangeProvedTwice, EnabledMeansProved, Identity

LEMMA IdentityInductive == TimeInv /\ IdentityInv /\ [Next]_vars => IdentityInv'
<1> SUFFICES ASSUME TimeInv, IdentityInv, [Next]_vars
             PROVE  IdentityInv'
  OBVIOUS
<1>1. CASE UNCHANGED <<gate, baseline, history>>
  BY <1>1 DEF history, IdentityInv, ChangeProvedTwice, EnabledMeansProved
<1>2. CASE FinishRefresh
  BY <1>2, RefreshIdentity
<1>3. CASE FailRefresh \/ \E mode \in {"observe", "recover"} : BeginRefresh(mode)
  BY <1>3, FailIdentity
<1>4. CASE GrantLease
  BY <1>4, GrantIdentity
<1>5. CASE StartBackend
  BY <1>5, StartIdentity
<1> QED
  BY <1>1, <1>2, <1>3, <1>4, <1>5
     DEF Next, vars, ServiceProves, BeginLease, RefuseLease, StartSigner, StopSigner,
         ActivateTrust, ProvisionManifest, Tick

-----------------------------------------------------------------------------
\* The two parts together are an invariant of the gate and the boundary.
THEOREM GateInvariant == Spec => []GateInv
<1>1. Init => GateInv
  BY TimeInitial, IdentityInitial DEF GateInv
<1>2. GateInv /\ [Next]_vars => GateInv'
  BY TimeInductive, IdentityInductive DEF GateInv
<1> QED BY <1>1, <1>2, PTL DEF Spec

\* Every variable keeps its type.
THEOREM TypeCorrect == Spec => []TypeOK
<1>1. GateInv => TypeOK
  BY TypedExchanges DEF GateInv, TimeInv, IdentityInv, TypeOK, Identity
<1> QED BY <1>1, GateInvariant, PTL

\* LiveIdentityGate::observe: for any number of restarts of the service, a
\* successor becomes active only with its second proof.
THEOREM ChangesProvedTwice == Spec => []ChangeProvedTwice
<1>1. GateInv => ChangeProvedTwice
  BY DEF GateInv, IdentityInv
<1> QED BY <1>1, GateInvariant, PTL

\* live_status: issuance is shown as enabled only on the strength of the last
\* refresh.
THEOREM EnabledProved == Spec => []EnabledMeansProved
<1>1. GateInv => EnabledMeansProved
  BY DEF GateInv, IdentityInv
<1> QED BY <1>1, GateInvariant, PTL

\* fresh_lease: a lease is granted within its window on the real clock for
\* every TTL that is longer than the transport's deadlines.
THEOREM LeasesFresh == Spec => []LeaseFresh
<1>1. GateInv => LeaseFresh
  BY DEF GateInv, TimeInv
<1> QED BY <1>1, GateInvariant, PTL

\* fresh_lease: the leases of one backend process come from one service
\* process, whatever the gate has accepted in the meantime.
THEOREM LeasesFromOne == Spec => []LeasesOneInstance
<1>1. GateInv => LeasesOneInstance
  <2> SUFFICES ASSUME GateInv
               PROVE  Cardinality(leased) <= 1
    BY DEF LeasesOneInstance
  <2>1. leased \subseteq {baseline}
    BY DEF GateInv, IdentityInv
  <2>2. IsFiniteSet({baseline}) /\ Cardinality({baseline}) = 1
    BY FS_Singleton
  <2> QED BY <2>1, <2>2, FS_Subset
<1> QED BY <1>1, GateInvariant, PTL

-----------------------------------------------------------------------------
(* The pipe service.  Two facts carry its proofs: a connection is served   *)
(* in one piece, so that the request in the pipe, the one being handled    *)
(* and the answered one are the request its owner sent last (ServedInv);   *)
(* and a request the key was used for is in the replay set (ReplayInv).    *)

\* The request a connection is about: its owner sent it and waits for the
\* answer, or went away; it cannot send another one on this connection.
Sent(r) ==
    /\ pipe.owner \in Clients
    /\ submitted[pipe.owner] = r
    /\ client[pipe.owner] # "connected"

Connected == {"accepted", "read", "reading", "handle", "write", "written"}

ServedInv ==
    /\ pipe.state \in {"none", "free"} =>
           pipe.owner = Nothing /\ pipe.request = Nothing /\ pipe.answer = Nothing
    /\ worker \in {"down", "load", "loop", "bind", "leave"} => pipe.state = "none"
    /\ worker \in {"accept", "blocked"} => pipe.state # "none"
    /\ worker \in Connected => pipe.state \in {"open", "shut"}
    /\ pipe.request # Nothing => Sent(pipe.request)
    /\ worker \in {"handle", "write"} /\ job.request # Nothing => Sent(job.request)
    /\ worker = "handle" => job.request # Nothing
    /\ worker = "write" /\ job.package => pipe.owner \in Allowed
    /\ pipe.answer # Nothing =>
           /\ pipe.answer.request # Nothing => Sent(pipe.answer.request)
           /\ pipe.answer.package => pipe.owner \in Allowed

\* authorize files the digest before the key is used.
ReplayInv == \A r \in Requests : signed[r] <= 1 /\ (r \notin used => signed[r] = 0)

PipeInv == ServiceTypeOK /\ ServedInv /\ ReplayInv

\* The records of a service at rest.
LEMMA RestingTypes == NoJob \in Jobs /\ NoPipe \in Pipes
  BY DEF NoJob, NoPipe, Jobs, Pipes

\* Every action keeps the types; a request that is handled has its owner in Clients.
LEMMA TypeStep == ServiceTypeOK /\ ServedInv /\ [ServiceNext]_serviceVars => ServiceTypeOK'
<1> SUFFICES ASSUME ServiceTypeOK, ServedInv, [ServiceNext]_serviceVars PROVE ServiceTypeOK'
  OBVIOUS
<1> USE DEF svc, auth, cli
<1>1. ASSUME LoadHost PROVE ServiceTypeOK'
  BY <1>1, RestingTypes DEF LoadHost, ServiceTypeOK, WorkerLabels
<1>2. ASSUME CheckStop PROVE ServiceTypeOK'
  BY <1>2, RestingTypes DEF CheckStop, ServiceTypeOK, WorkerLabels
<1>3. ASSUME Bind PROVE ServiceTypeOK'
  <2>1. pipe' \in Pipes
    BY <1>3 DEF Bind, ServiceTypeOK, Pipes, NoPipe
  <2> QED BY <1>3, <2>1 DEF Bind, ServiceTypeOK, WorkerLabels
<1>4. ASSUME Accept PROVE ServiceTypeOK'
  BY <1>4, RestingTypes DEF Accept, ServiceTypeOK, WorkerLabels
<1>5. ASSUME AcceptReturns PROVE ServiceTypeOK'
  BY <1>5, RestingTypes DEF AcceptReturns, ServiceTypeOK, WorkerLabels
<1>6. ASSUME ServeOrStop PROVE ServiceTypeOK'
  BY ZenonT(60), <1>6, RestingTypes DEF ServeOrStop, ServiceTypeOK, WorkerLabels
<1>7. ASSUME EnterRead PROVE ServiceTypeOK'
  BY <1>7, RestingTypes DEF EnterRead, ServiceTypeOK, WorkerLabels
<1>8. ASSUME NEW derived \in BOOLEAN, ReadReturns(derived) PROVE ServiceTypeOK'
  <2>1. pipe' \in Pipes
    BY <1>8 DEF ReadReturns, ServiceTypeOK, Pipes
  <2>2. CASE pipe.request # Nothing
    <3>1. incarnation[pipe.owner] \in 0 .. MaxRestarts /\ pipe.request \in Requests
      BY <2>2 DEF ServiceTypeOK, ServedInv, Sent, Pipes
    <3>2. [request |-> pipe.request, caller |-> incarnation[pipe.owner],
    package |-> FALSE] \in Jobs
      BY <3>1 DEF Jobs
    <3>3. job' \in Jobs
      BY <1>8, <3>2, RestingTypes DEF ReadReturns
    <3> QED BY ZenonT(60), <1>8, <2>1, <3>3 DEF ReadReturns, ServiceTypeOK, WorkerLabels
  <2>3. CASE pipe.request = Nothing
    <3>1. job' = NoJob /\ worker' = "write" /\ deadline' = "armed"
      BY <1>8, <2>3 DEF ReadReturns
    <3> QED BY <1>8, <2>1, <3>1, RestingTypes DEF ReadReturns, ServiceTypeOK, WorkerLabels
  <2> QED BY <2>2, <2>3
<1>9. ASSUME NEW permitted \in BOOLEAN, NEW signs \in BOOLEAN, HandleRequest(permitted,
signs)
      PROVE  ServiceTypeOK'
  <2>1. /\ job.request \in Requests /\ pipe.owner \in Clients
        /\ job.caller \in 0 .. MaxRestarts \cup {Nothing}
    BY <1>9 DEF HandleRequest, ServiceTypeOK, ServedInv, Sent, Jobs
  <2>2. job' \in Jobs
    BY <1>9 DEF HandleRequest, ServiceTypeOK, Jobs
  <2>3. used' \subseteq Requests /\ signed' \in [Requests -> Nat]
    BY <1>9, <2>1 DEF HandleRequest, ServiceTypeOK
  <2>4. seen' \in [Clients -> 0 .. MaxRestarts \cup {Nothing}]
    BY <1>9, <2>1 DEF HandleRequest, ServiceTypeOK, Remember
  <2> QED BY ZenonT(60), <1>9, <2>2, <2>3, <2>4 DEF HandleRequest, ServiceTypeOK,
  WorkerLabels
<1>10. ASSUME WriteResponse PROVE ServiceTypeOK'
  <2>1. pipe' \in Pipes
    BY <1>10 DEF WriteResponse, ServiceTypeOK, Pipes
  <2> QED BY ZenonT(60), <1>10, <2>1 DEF WriteResponse, ServiceTypeOK, WorkerLabels
<1>11. ASSUME CloseConnection PROVE ServiceTypeOK'
  BY <1>11, RestingTypes DEF CloseConnection, ServiceTypeOK, WorkerLabels
<1>12. ASSUME SetEventForWaker PROVE ServiceTypeOK'
  BY ZenonT(60), <1>12, RestingTypes DEF SetEventForWaker, ServiceTypeOK, WorkerLabels
<1>13. ASSUME WakerWaits PROVE ServiceTypeOK'
  BY <1>13, RestingTypes DEF WakerWaits, ServiceTypeOK, WorkerLabels
<1>14. ASSUME WakerOpens PROVE ServiceTypeOK'
  <2>1. pipe' \in Pipes
    BY <1>14 DEF WakerOpens, ServiceTypeOK, Pipes
  <2> QED BY <1>14, <2>1 DEF WakerOpens, ServiceTypeOK, WorkerLabels
<1>15. ASSUME WakerCloses PROVE ServiceTypeOK'
  <2>1. pipe' \in Pipes
    BY <1>15 DEF WakerCloses, Shut, ServiceTypeOK, Pipes
  <2> QED BY <1>15, <2>1 DEF WakerCloses, Shut, ServiceTypeOK, WorkerLabels
<1>16. ASSUME ReportStopPending PROVE ServiceTypeOK'
  BY <1>16, RestingTypes DEF ReportStopPending, ServiceTypeOK, WorkerLabels
<1>17. ASSUME SignalStop PROVE ServiceTypeOK'
  BY <1>17, RestingTypes DEF SignalStop, ServiceTypeOK, WorkerLabels
<1>18. ASSUME Expire PROVE ServiceTypeOK'
  BY <1>18, RestingTypes DEF Expire, ServiceTypeOK, WorkerLabels
<1>19. ASSUME StartService PROVE ServiceTypeOK'
  <2>1. instance' \in 0 .. MaxStarts
    BY <1>19, StartsAssumption DEF StartService, ServiceTypeOK
  <2>2. seen' \in [Clients -> 0 .. MaxRestarts \cup {Nothing}] /\ signed' \in [Requests -> Nat]
    BY <1>19 DEF StartService
  <2> QED BY <1>19, <2>1, <2>2, RestingTypes DEF StartService, ServiceTypeOK, WorkerLabels
<1>20. ASSUME EndProcess PROVE ServiceTypeOK'
  BY <1>20, RestingTypes DEF EndProcess, ServiceTypeOK, WorkerLabels
<1>21. ASSUME StopControl PROVE ServiceTypeOK'
  BY ZenonT(60), <1>21, RestingTypes DEF StopControl, ServiceTypeOK, WorkerLabels
<1>22. ASSUME NEW c \in Clients, OpenPipe(c) PROVE ServiceTypeOK'
  <2>1. pipe' \in Pipes
    BY <1>22 DEF OpenPipe, ServiceTypeOK, Pipes
  <2> QED BY <1>22, <2>1 DEF OpenPipe, ServiceTypeOK, WorkerLabels
<1>23. ASSUME NEW c \in Clients, CloseClient(c) PROVE ServiceTypeOK'
  <2>1. pipe' \in Pipes
    BY <1>23 DEF CloseClient, Shut, ServiceTypeOK, Pipes
  <2> QED BY <1>23, <2>1 DEF CloseClient, Shut, ServiceTypeOK, WorkerLabels
<1>24. ASSUME NEW c \in Clients, RestartClient(c) PROVE ServiceTypeOK'
  <2>1. pipe' \in Pipes
    BY <1>24 DEF RestartClient, Shut, ServiceTypeOK, Pipes
  <2>2. incarnation' \in [Clients -> 0 .. MaxRestarts]
    BY <1>24, StartsAssumption DEF RestartClient, ServiceTypeOK
  <2> QED BY <1>24, <2>1, <2>2 DEF RestartClient, ServiceTypeOK, WorkerLabels
<1>25. ASSUME NEW c \in Clients, NEW r \in Requests, SendRequest(c, r) PROVE ServiceTypeOK'
  <2>1. pipe' \in Pipes
    BY <1>25 DEF SendRequest, ServiceTypeOK, Pipes
  <2> QED BY <1>25, <2>1 DEF SendRequest, ServiceTypeOK, WorkerLabels
<1>26. ASSUME UNCHANGED serviceVars PROVE ServiceTypeOK'
  BY <1>26 DEF serviceVars, ServiceTypeOK, WorkerLabels
<1> QED BY <1>1, <1>2, <1>3, <1>4, <1>5, <1>6, <1>7, <1>8, <1>9, <1>10, <1>11, <1>12,
  <1>13, <1>14, <1>15, <1>16, <1>17, <1>18, <1>19, <1>20, <1>21, <1>22, <1>23, <1>24, <1>25, <1>26
  DEF LoadFails, BindFails, AcceptFails, Leave, ServiceCrash, ServiceNext,
     Worker, WakerThread, Handler, Environment

\* The worker serves one connection at a time, and its owner sends one request on it.
LEMMA ServedStep == ServiceTypeOK /\ ServedInv /\ [ServiceNext]_serviceVars => ServedInv'
<1> SUFFICES ASSUME ServiceTypeOK, ServedInv, [ServiceNext]_serviceVars PROVE ServedInv'
  OBVIOUS
<1> USE DEF svc, auth, cli
<1>1. ASSUME LoadHost PROVE ServedInv'
  BY <1>1 DEF LoadHost, ServedInv, Sent, Connected
<1>2. ASSUME CheckStop PROVE ServedInv'
  BY <1>2 DEF CheckStop, ServedInv, Sent, Connected, ServiceTypeOK, Pipes
<1>3. ASSUME Bind PROVE ServedInv'
  BY <1>3 DEF Bind, ServedInv, Sent, Connected, NoPipe
<1>4. ASSUME Accept PROVE ServedInv'
  BY <1>4 DEF Accept, ServedInv, Sent, Connected, ServiceTypeOK, Pipes
<1>5. ASSUME AcceptReturns PROVE ServedInv'
  BY <1>5 DEF AcceptReturns, ServedInv, Sent, Connected, ServiceTypeOK, Pipes
<1>6. ASSUME ServeOrStop PROVE ServedInv'
  BY <1>6 DEF ServeOrStop, ServedInv, Sent, Connected, NoPipe
<1>7. ASSUME EnterRead PROVE ServedInv'
  BY <1>7 DEF EnterRead, ServedInv, Sent, Connected
<1>8. ASSUME NEW derived \in BOOLEAN, ReadReturns(derived) PROVE ServedInv'
  <2>1. /\ pipe'.state = pipe.state /\ pipe'.owner = pipe.owner /\ pipe'.answer = pipe.answer
        /\ pipe'.request = Nothing
    BY <1>8 DEF ReadReturns, ServiceTypeOK, Pipes
  <2>2. \/ /\ worker' = "handle" /\ pipe.request # Nothing /\ job'.request = pipe.request
           /\ job'.package = FALSE
        \/ worker' = "write" /\ job'.request = Nothing /\ job'.package = FALSE
    BY <1>8 DEF ReadReturns, NoJob
  <2>3. worker = "reading" /\ UNCHANGED <<submitted, client>>
    BY <1>8 DEF ReadReturns
  <2> QED BY <2>1, <2>2, <2>3 DEF ServedInv, Sent, Connected
<1>9. ASSUME NEW permitted \in BOOLEAN, NEW signs \in BOOLEAN, HandleRequest(permitted,
signs)
      PROVE  ServedInv'
  <2>1. job'.request = job.request /\ (job'.package => pipe.owner \in Allowed)
    BY <1>9 DEF HandleRequest, Authorize, ServiceTypeOK, Jobs
  <2> QED BY <1>9, <2>1 DEF HandleRequest, ServedInv, Sent, Connected
<1>10. ASSUME WriteResponse PROVE ServedInv'
  <2>1. /\ pipe'.state = pipe.state /\ pipe'.owner = pipe.owner /\ pipe'.request = pipe.request
        /\ pipe'.answer = job \/ pipe'.answer = pipe.answer
    BY <1>10 DEF WriteResponse, ServiceTypeOK, Pipes
  <2>2. worker = "write" /\ worker' = "written" /\ UNCHANGED <<submitted, client, job>>
    BY <1>10 DEF WriteResponse
  <2> QED BY <2>1, <2>2 DEF ServedInv, Sent, Connected
<1>11. ASSUME CloseConnection PROVE ServedInv'
  BY <1>11 DEF CloseConnection, ServedInv, Sent, Connected, NoPipe
<1>12. ASSUME SetEventForWaker PROVE ServedInv'
  BY <1>12 DEF SetEventForWaker, ServedInv, Sent, Connected
<1>13. ASSUME WakerWaits PROVE ServedInv'
  BY <1>13 DEF WakerWaits, ServedInv, Sent, Connected
<1>14. ASSUME WakerOpens PROVE ServedInv'
  <2>1. CASE pipe.state = "free"
    <3>1. pipe'.state = "open" /\ pipe'.owner = Waker /\ pipe'.request = Nothing /\ pipe'.answer = Nothing
      BY ZenonT(60), <1>14, <2>1 DEF WakerOpens, ServiceTypeOK, Pipes, ServedInv
    <3> QED BY <1>14, <2>1, <3>1 DEF WakerOpens, ServiceTypeOK, WorkerLabels,
    ServedInv, Connected
  <2>2. CASE pipe.state # "free"
    BY <1>14, <2>2 DEF WakerOpens, ServedInv, Sent
  <2> QED BY <2>1, <2>2
<1>15. ASSUME WakerCloses PROVE ServedInv'
  BY ZenonT(60), <1>15, ClientsAssumption DEF WakerCloses, Shut, ServedInv, Sent,
     Connected, ServiceTypeOK, Pipes
<1>16. ASSUME ReportStopPending PROVE ServedInv'
  BY <1>16 DEF ReportStopPending, ServedInv, Sent, Connected
<1>17. ASSUME SignalStop PROVE ServedInv'
  BY <1>17 DEF SignalStop, ServedInv, Sent, Connected
<1>18. ASSUME Expire PROVE ServedInv'
  BY <1>18 DEF Expire, ServedInv, Sent, Connected
<1>19. ASSUME StartService PROVE ServedInv'
  BY <1>19 DEF StartService, ServedInv, Sent, Connected
<1>20. ASSUME EndProcess PROVE ServedInv'
  BY <1>20 DEF EndProcess, ServedInv, Sent, Connected, NoPipe
<1>21. ASSUME StopControl PROVE ServedInv'
  BY <1>21 DEF StopControl, ServedInv, Sent, Connected
<1>22. ASSUME NEW c \in Clients, OpenPipe(c) PROVE ServedInv'
  BY <1>22, ClientsAssumption DEF OpenPipe, ServedInv, Sent, Connected, ServiceTypeOK, Pipes
<1>23. ASSUME NEW c \in Clients, CloseClient(c) PROVE ServedInv'
  BY <1>23, ClientsAssumption DEF CloseClient, Shut, ServedInv, Sent, Connected,
     ServiceTypeOK, Pipes
<1>24. ASSUME NEW c \in Clients, RestartClient(c) PROVE ServedInv'
  BY <1>24, ClientsAssumption DEF RestartClient, Shut, ServedInv, Sent, Connected,
     ServiceTypeOK, Pipes
<1>25. ASSUME NEW c \in Clients, NEW r \in Requests, SendRequest(c, r) PROVE ServedInv'
  <2>1. /\ pipe'.state = pipe.state /\ pipe'.owner = c /\ pipe'.answer = pipe.answer
        /\ pipe'.request = r /\ pipe.owner = c /\ client[c] = "connected"
    BY <1>25 DEF SendRequest, ServiceTypeOK, Pipes
  <2>2. submitted'[c] = r /\ client'[c] = "waiting" /\ UNCHANGED <<worker, job>>
    BY <1>25 DEF SendRequest, ServiceTypeOK
  <2> QED BY <2>1, <2>2, ClientsAssumption DEF ServedInv, Sent, Connected
<1>26. ASSUME UNCHANGED serviceVars PROVE ServedInv'
  BY <1>26 DEF serviceVars, ServedInv, Sent, Connected
<1> QED BY <1>1, <1>2, <1>3, <1>4, <1>5, <1>6, <1>7, <1>8, <1>9, <1>10, <1>11, <1>12,
  <1>13, <1>14, <1>15, <1>16, <1>17, <1>18, <1>19, <1>20, <1>21, <1>22, <1>23, <1>24, <1>25, <1>26
  DEF LoadFails, BindFails, AcceptFails, Leave, ServiceCrash, ServiceNext,
     Worker, WakerThread, Handler, Environment

\* Only HandleRequest and a new process touch the replay set and the key.
LEMMA ReplayStep == ServiceTypeOK /\ ServedInv /\ ReplayInv /\ [ServiceNext]_serviceVars => ReplayInv'
<1> SUFFICES ASSUME ServiceTypeOK, ServedInv, ReplayInv, [ServiceNext]_serviceVars PROVE ReplayInv'
  OBVIOUS
<1>1. ASSUME NEW permitted \in BOOLEAN, NEW signs \in BOOLEAN, HandleRequest(permitted,
signs)
      PROVE  ReplayInv'
  <2>1. \/ signed' = signed /\ used \subseteq used'
        \/ /\ job.request \notin used /\ used' = used \cup {job.request}
           /\ signed' = [signed EXCEPT ![job.request] = @ + 1]
    BY <1>1 DEF HandleRequest, Authorize
  <2> QED BY <2>1 DEF ReplayInv, ServiceTypeOK
<1>2. ASSUME StartService PROVE ReplayInv'
  BY <1>2 DEF StartService, ReplayInv
<1>3. ASSUME UNCHANGED auth PROVE ReplayInv'
  BY <1>3 DEF auth, ReplayInv
<1>4. ASSUME Worker PROVE UNCHANGED auth \/ \E p,
s \in BOOLEAN : HandleRequest(p, s)
  BY <1>4 DEF Worker, LoadHost, LoadFails, CheckStop, Bind,
     BindFails, Accept, AcceptFails,
     AcceptReturns, ServeOrStop, EnterRead, ReadReturns,
     WriteResponse, CloseConnection,
     SetEventForWaker, Leave, EndProcess
<1>5. ASSUME WakerThread \/ Handler \/ Expire PROVE UNCHANGED auth
  BY <1>5 DEF WakerThread, WakerWaits, WakerOpens, WakerCloses,
     Handler, ReportStopPending,
     SignalStop, Expire
<1>6. ASSUME Environment PROVE UNCHANGED auth \/ StartService
  BY <1>6 DEF Environment, ServiceCrash, EndProcess, StopControl,
     OpenPipe, CloseClient,
     RestartClient, SendRequest
<1> QED BY <1>1, <1>2, <1>3, <1>4, <1>5, <1>6 DEF ServiceNext, serviceVars

\* The three parts of the invariant carry each other through every step of the worker,
\* the waker, the control handler, the watchdog and the clients.
THEOREM ServiceInvariant == ServiceSpec => []PipeInv
<1>1. ServiceInit => PipeInv
  <2>1. ServiceInit => ServiceTypeOK
    <3>1. ServiceInit => /\ client \in [Clients -> {"idle", "connected", "waiting"}]
                  /\ submitted \in [Clients -> Requests \cup {Nothing}]
                  /\ incarnation \in [Clients -> 0 .. MaxRestarts]
                  /\ seen \in [Clients -> 0 .. MaxRestarts \cup {Nothing}]
                  /\ signed \in [Requests -> Nat] /\ instance \in 0 .. MaxStarts
      BY StartsAssumption DEF ServiceInit
    <3> QED BY <3>1, RestingTypes DEF ServiceInit, ServiceTypeOK, WorkerLabels
  <2>2. ServiceInit => ServedInv
    BY DEF ServiceInit, ServedInv, NoPipe, Connected
  <2>3. ServiceInit => ReplayInv
    BY DEF ServiceInit, ReplayInv
  <2> QED BY <2>1, <2>2, <2>3 DEF PipeInv
<1>2. PipeInv /\ [ServiceNext]_serviceVars => PipeInv'
  BY TypeStep, ServedStep, ReplayStep DEF PipeInv
<1> QED BY <1>1, <1>2, PTL DEF ServiceSpec

\* However clients resend, reconnect and restart, and whenever the watchdog fires or
\* the service is stopped, one service process uses its key for a request at most
\* once: authorize finds the digest in used_request_digests.
THEOREM SignsOnce == ServiceSpec => []SignedOncePerInstance
<1>1. PipeInv => SignedOncePerInstance
  BY DEF PipeInv, ReplayInv, SignedOncePerInstance
<1> QED BY <1>1, ServiceInvariant, PTL

\* The answer handle_connection writes is read on the connection its request came
\* on: a package answers what the owner of the pipe sent, and the owner is allowed.
THEOREM AnswersCaller == ServiceSpec => []PackageForCaller
<1>1. PipeInv => PackageForCaller
  BY DEF PipeInv, ServedInv, Sent, PackageForCaller
<1> QED BY <1>1, ServiceInvariant, PTL
===============================================================================
