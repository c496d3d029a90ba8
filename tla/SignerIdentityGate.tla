------------------------- MODULE SignerIdentityGate -------------------------
(***************************************************************************)
(* The desktop backend's two views of the live signer service: the startup *)
(* gate, which shows the user whether production issuance is enabled       *)
(* (production_startup.rs), and the execution boundary, which obtains a    *)
(* trust lease for every production operation (production_execution.rs).   *)
(* Both send the service an identity challenge, and both verify the proof  *)
(* at the time they read BEFORE the exchange.                              *)
(*                                                                         *)
(* A service identity is the number of the service process (its instance   *)
(* nonce); a trust state is its revision.  The gate and the boundary each  *)
(* hold a mutex of their own for a whole exchange, so that one exchange of *)
(* each can be under way.                                                  *)
(***************************************************************************)
EXTENDS Naturals, FiniteSets

CONSTANTS MaxTime,      \* last second of the clock
          MaxInstances, \* bound on starts of the signer service
          MaxTrust,     \* last trust state an administrator activates
          MaxBackends,  \* bound on starts of the desktop backend
          NotAfter,     \* trust revision -> end of its validity
          TTL,          \* life of a challenge and of a lease
          IoLimit,      \* longest exchange the transport lets complete
          None

Instances == 1 .. MaxInstances
Revisions == 1 .. MaxTrust
Times     == 0 .. MaxTime
Parties   == {"gate", "boundary"}

ASSUME BoundsAssumption ==
    /\ {MaxTime, MaxInstances, MaxTrust, MaxBackends, TTL, IoLimit} \subseteq Nat
    /\ MaxInstances > 0 /\ MaxTrust > 0 /\ MaxBackends > 0
    /\ NotAfter \in [Revisions -> Nat]
    /\ None \notin Nat
\* LIVE_IDENTITY_CHALLENGE_TTL_S and LEASE_TTL_S are 30 s; the write and the
\* read of an exchange are cut off after 5 s each.
ASSUME DeadlineAssumption == IoLimit < TTL

VARIABLES now,
          service,   \* process, and the trust state it loaded when it started
          store,     \* accepted trust state on disk
          manifest,  \* trust state the backend's manifest is pinned to
          backend,   \* starts of the backend, and the trust state it loaded
          gate,      \* LiveIdentityGate and the public status
          baseline,  \* active_service_identity of the boundary
          exchange,  \* party -> its exchange
          lease,     \* last lease the boundary granted
          first,     \* first identity the gate accepted in this backend
          proofs,    \* identity -> proofs the gate verified, counted up to two
          last,      \* identity proved by the last refresh, None if it failed
          leased     \* identities the boundary granted leases for

history == <<first, proofs, last, leased>>
world   == <<now, service, store, manifest, backend>>
vars    == <<world, gate, baseline, exchange, lease, history>>

Idle == [pc |-> "idle"]

Asked == [pc : {"asked"}, at : Times, mode : {"observe", "recover"}]

Proved == [pc : {"proved"}, at : Times, mode : {"observe", "recover"},
           identity : Instances, proved : Times, trust : Revisions]

Statuses == {"rejected", "configured", "live", "recovery", "unavailable"}

TypeOK ==
    /\ now \in Times
    /\ service \in [up : BOOLEAN, id : 0 .. MaxInstances, trust : Revisions]
    /\ store \in Revisions /\ manifest \in Revisions
    /\ backend \in [starts : 0 .. MaxBackends, trust : Revisions]
    /\ gate \in [active : Instances \cup {None}, pending : Instances \cup {None},
                 status : Statuses]
    /\ baseline \in Instances \cup {None}
    /\ exchange \in [Parties -> {Idle} \cup Asked \cup Proved]
    /\ lease \in [identity : Instances, proved : Times, expires : Nat, granted : Times]
                   \cup {None}
    /\ first \in Instances \cup {None} /\ last \in Instances \cup {None}
    /\ proofs \in [Instances -> 0 .. 2] /\ leased \subseteq Instances

NoGate == [active |-> None, pending |-> None, status |-> "rejected"]

Init ==
    /\ now = 0
    /\ service = [up |-> FALSE, id |-> 0, trust |-> 1]
    /\ store = 1 /\ manifest = 1
    /\ backend = [starts |-> 0, trust |-> 1]
    /\ gate = NoGate /\ baseline = None /\ lease = None
    /\ exchange = [p \in Parties |-> Idle]
    /\ first = None /\ last = None /\ leased = {} /\ proofs = [i \in Instances |-> 0]

-----------------------------------------------------------------------------
(* The identity challenge *)

\* ProductionSignerIdentityChallenge::build: the window lies within the
\* validity of the trust state the backend loaded.
CanChallenge(trust) == now + TTL <= NotAfter[trust]

\* The service validates the challenge against its own accepted state and
\* clock, and signs the time at which it proves.
ServiceProves(p) ==
    /\ exchange[p].pc = "asked"
    /\ service.up /\ service.trust = backend.trust
    /\ now < exchange[p].at + TTL
    /\ exchange' = [exchange EXCEPT ![p] =
           [pc |-> "proved", at |-> @.at, mode |-> @.mode, identity |-> service.id,
            proved |-> now, trust |-> service.trust]]
    /\ UNCHANGED <<world, gate, baseline, lease, history>>

InTime_NoDeadline(p) == TRUE

\* The exchange ends before the transport's deadlines.
InTime(p) == now <= exchange[p].at + IoLimit

\* DeployedProductionSignerIdentityProof::verify, at the time of the request.
Verifies(x) ==
    /\ x.trust = backend.trust
    /\ x.at <= x.proved /\ x.proved < x.at + TTL

Close(p) == exchange' = [exchange EXCEPT ![p] = Idle]

-----------------------------------------------------------------------------
(* production_startup.rs *)

\* initialize: the pinned manifest must name the accepted trust state; the
\* first refresh is part of it.
StartBackend ==
    /\ backend.starts < MaxBackends
    /\ backend' = [starts |-> backend.starts + 1, trust |-> store]
    /\ LET loads == manifest = store /\ now < NotAfter[store]
           asks == loads /\ CanChallenge(store)
       IN /\ gate' = [NoGate EXCEPT !.status = IF asks THEN "configured"
                                               ELSE IF loads THEN "unavailable" ELSE "rejected"]
          /\ exchange' = [p \in Parties |-> IF asks /\ p = "gate"
                              THEN [pc |-> "asked", at |-> now, mode |-> "observe"]
                              ELSE Idle]
    /\ baseline' = None /\ lease' = None
    /\ first' = None /\ last' = None /\ leased' = {} /\ proofs' = [i \in Instances |-> 0]
    /\ UNCHANGED <<now, service, store, manifest>>

\* refresh_ and recover_production_signer_status
BeginRefresh(mode) ==
    /\ gate.status \notin {"rejected", "configured"}
    /\ exchange["gate"].pc = "idle"
    /\ IF CanChallenge(backend.trust)
       THEN /\ exchange' = [exchange EXCEPT !["gate"] =
                                [pc |-> "asked", at |-> now, mode |-> mode]]
            /\ UNCHANGED <<gate, last>>
       ELSE gate' = [gate EXCEPT !.status = "unavailable"] /\ last' = None /\ UNCHANGED exchange
    /\ UNCHANGED <<world, baseline, lease, first, proofs, leased>>

Observe_OneProof(i, mode) ==
    IF gate.active \in {None, i} \/ mode = "recover"
    THEN [active |-> i, pending |-> None, status |-> "live"]
    ELSE [gate EXCEPT !.pending = i, !.status = "recovery"]

\* LiveIdentityGate::observe
Observe(i, mode) ==
    IF \/ gate.active = None
       \/ gate.pending = None /\ gate.active = i
       \/ gate.pending = i /\ mode = "recover"
    THEN [active |-> i, pending |-> None, status |-> "live"]
    ELSE [gate EXCEPT !.pending = IF gate.active = i THEN @ ELSE i, !.status = "recovery"]

FinishRefresh ==
    LET x == exchange["gate"]
    IN /\ x.pc = "proved" /\ InTime("gate") /\ Verifies(x)
       /\ gate' = Observe(x.identity, x.mode)
       /\ first' = IF gate.active = None THEN x.identity ELSE first
       /\ proofs' = [proofs EXCEPT ![x.identity] = IF @ < 2 THEN @ + 1 ELSE @]
       /\ last' = x.identity
       /\ Close("gate")
       /\ UNCHANGED <<world, baseline, lease, leased>>

FailRefresh_KeepsStatus ==
    /\ exchange["gate"].pc # "idle"
    /\ gate' = [gate EXCEPT !.status = IF @ = "configured" THEN "unavailable" ELSE @]
    /\ last' = None
    /\ Close("gate")
    /\ UNCHANGED <<world, baseline, lease, first, proofs, leased>>

\* The service is unavailable, rejects the challenge or is too slow.
FailRefresh ==
    /\ exchange["gate"].pc # "idle"
    /\ gate' = [gate EXCEPT !.status = "unavailable"]
    /\ last' = None
    /\ Close("gate")
    /\ UNCHANGED <<world, baseline, lease, first, proofs, leased>>

-----------------------------------------------------------------------------
(* production_execution.rs: fresh_lease *)

BeginLease ==
    /\ gate.status \notin {"rejected", "configured"}
    /\ exchange["boundary"].pc = "idle" /\ CanChallenge(backend.trust)
    /\ exchange' = [exchange EXCEPT !["boundary"] =
                        [pc |-> "asked", at |-> now, mode |-> "observe"]]
    /\ UNCHANGED <<world, gate, baseline, lease, history>>

\* The first identity becomes the baseline; another one is a restart.
Adopts(i) == baseline \in {None, i}

\* validate_at, again at the time of the request: a proof made in a later
\* second than the challenge is refused.
GrantLease ==
    LET x == exchange["boundary"]
    IN /\ x.pc = "proved" /\ InTime("boundary")
       /\ Verifies(x) /\ x.proved <= x.at
       /\ Adopts(x.identity)
       /\ baseline' = x.identity
       /\ lease' = [identity |-> x.identity, proved |-> x.proved, expires |-> x.at + TTL,
                    granted |-> now]
       /\ leased' = leased \cup {x.identity}
       /\ Close("boundary")
       /\ UNCHANGED <<world, gate, first, proofs, last>>

\* Late proofs, restarts and transport failures end without a lease.
RefuseLease ==
    /\ exchange["boundary"].pc # "idle"
    /\ Close("boundary")
    /\ UNCHANGED <<world, gate, baseline, lease, history>>

-----------------------------------------------------------------------------
(* The signer service, the administrator and the clock *)

\* A new process with a fresh instance nonce loads the accepted trust state.
StartSigner ==
    /\ ~ service.up /\ service.id < MaxInstances
    /\ service' = [up |-> TRUE, id |-> service.id + 1, trust |-> store]
    /\ UNCHANGED <<now, store, manifest, backend, gate, baseline, exchange, lease, history>>

StopSigner ==
    /\ service.up
    /\ service' = [service EXCEPT !.up = FALSE]
    /\ UNCHANGED <<now, store, manifest, backend, gate, baseline, exchange, lease, history>>

ActivateTrust ==
    /\ store < MaxTrust
    /\ store' = store + 1
    /\ UNCHANGED <<now, service, manifest, backend, gate, baseline, exchange, lease, history>>

ProvisionManifest ==
    /\ manifest # store
    /\ manifest' = store
    /\ UNCHANGED <<now, service, store, backend, gate, baseline, exchange, lease, history>>

Tick ==
    /\ now < MaxTime
    /\ now' = now + 1
    /\ UNCHANGED <<service, store, manifest, backend, gate, baseline, exchange, lease, history>>

Next ==
    \/ \E p \in Parties : ServiceProves(p)
    \/ StartBackend \/ FinishRefresh \/ FailRefresh
    \/ \E mode \in {"observe", "recover"} : BeginRefresh(mode)
    \/ BeginLease \/ GrantLease \/ RefuseLease
    \/ StartSigner \/ StopSigner \/ ActivateTrust \/ ProvisionManifest \/ Tick

Spec == Init /\ [][Next]_vars

-----------------------------------------------------------------------------
(* Properties *)

\* Once the gate has a baseline, another service process becomes active only
\* after it has been proved twice: a service that keeps restarting never
\* clears the gate (LiveIdentityGate::observe).
ChangeProvedTwice ==
    gate.active \notin {None, first} => proofs[gate.active] >= 2

\* The status enables production issuance only while the last refresh proved
\* the active identity and no restart awaits recovery (live_status).
EnabledMeansProved ==
    gate.status = "live" => last = gate.active /\ last # None /\ gate.pending = None

\* All leases a backend process grants come from one service process, also
\* after the gate has accepted a successor (fresh_lease).
LeasesOneInstance == Cardinality(leased) <= 1

\* Although the proof is verified at the time read before the exchange, a
\* lease is granted before it has expired on the real clock and was proved in
\* its window.
LeaseFresh ==
    lease # None => lease.proved <= lease.granted /\ lease.granted < lease.expires
-----------------------------------------------------------------------------
\* The finite instance: the first trust state expires during the run.
SmallNotAfter == [r \in Revisions |-> IF r = 1 THEN 3 ELSE 9]
=============================================================================
