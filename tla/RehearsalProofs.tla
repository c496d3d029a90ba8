--------------------------- MODULE RehearsalProofs ---------------------------
(***************************************************************************)
(* Proofs about the Windows bridge, for any application, requests and      *)
(* cache size, and about the twin's workspace, with its own history and    *)
(* under a simulation, for any artifacts, operations, plans and faults.    *)
(*                                                                         *)
(* The bridge: BridgeInv says, for each stage of a call, what the host has *)
(* seen and done by then, and gives every signed package an action of its  *)
(* own.  The workspace: every step either leaves trace and state alone or  *)
(* appends the one event that leads from the old snapshot to the new one   *)
(* (StepShape); from this the trace invariants follow without looking at   *)
(* the operations again.                                                   *)
(***************************************************************************)
EXTENDS Rehearsal, TLAPS

\* A leaf is tried with Zenon, then with SMT, then with each again for longer.
USE ZenonT(3), SMTT(20), ZenonT(60), SMTT(120)

-----------------------------------------------------------------------------
(***************************************************************************)
(* The Windows bridge                                                      *)
(***************************************************************************)

IsSeq(s) == \E S : s \in Seq(S)

LEMMA Appending ==
    ASSUME NEW s, IsSeq(s), NEW e, NEW t, t = Append(s, e)
    PROVE  /\ IsSeq(t) /\ Len(s) \in Nat /\ Len(t) = Len(s) + 1
           /\ DOMAIN s = 1 .. Len(s) /\ DOMAIN t = 1 .. Len(t)
           /\ t[Len(s) + 1] = e /\ \A i \in 1 .. Len(s) : t[i] = s[i]
<1>1. PICK S : s \in Seq(S)
  BY DEF IsSeq
<1>2. s \in Seq(S \cup {e}) /\ e \in S \cup {e}
  BY <1>1
<1>3. t \in Seq(S \cup {e})
  BY <1>2
<1> QED BY <1>2, <1>3 DEF IsSeq

\* A state as ObserveTarget reports it, its digest computed from it.
Observation(s) ==
    s = [application |-> s.application, target |-> s.target, value |-> s.value,
         observed_at |-> s.observed_at,
         state_digest |-> <<s.application, s.target, s.value, s.observed_at>>]

LEMMA ObserveTargetForm ==
    ASSUME NEW request, NEW s, s = Bridge!ObserveTarget(request)
    PROVE  /\ Observation(s) /\ s.application = app /\ s.value = shown
           /\ s.target = Bridge!selector_stable_id(request.selector)
           /\ s.state_digest = Bridge!observed_state_digest(s)
BY DEF Bridge!ObserveTarget, Bridge!observed_state_digest, Observation

LEMMA SameDigest ==
    ASSUME NEW s, NEW t, Observation(s), Observation(t), s.state_digest = t.state_digest
    PROVE  s = t
<1>1. /\ s.application = t.application /\ s.target = t.target
      /\ s.value = t.value /\ s.observed_at = t.observed_at
  BY DEF Observation
<1> QED BY <1>1 DEF Observation

\* In log l the host observed s and has not acted since.
LastSeen(l, s) ==
    \E i \in 1 .. Len(l) :
       /\ l[i] = [kind |-> "observed", state |-> s]
       /\ \A m \in i .. Len(l) : l[m].kind # "applied"

\* Entry e is the action asked for in c, a call or a package.
Acts(c, e) ==
    /\ e.kind = "applied"
    /\ e.request_id = c.request.request_id
    /\ e.consumed = c.pre_state.state_digest
    /\ \A f \in {"application", "target", "value"} : c.pre_state[f] = e.seen[f]

\* Entry j of log l is the action of call c and the last one, on what was observed before.
Performed(l, c, j) ==
    /\ Acts(c, l[j])
    /\ \E i \in 1 .. j - 1 :
          /\ l[i] = [kind |-> "observed", state |-> c.pre_state]
          /\ \A m \in (i .. Len(l)) \ {j} : l[m].kind # "applied"

\* Bridge!Carries, of any log.
CarriedBy(l, p, j) ==
    /\ Acts(p, l[j])
    /\ \E i \in 1 .. j - 1, k \in j + 1 .. Len(l) :
          /\ l[i] = [kind |-> "observed", state |-> p.pre_state]
          /\ l[k] = [kind |-> "observed", state |-> p.post_state]
          /\ \A m \in (i .. k) \ {j} : l[m].kind # "applied"

\* f gives every package of q an action of its own in log l.
Attributes(f, l, q) ==
    /\ f \in [DOMAIN q -> 1 .. Len(l)]
    /\ \A x, y \in DOMAIN q : f[x] = f[y] => x = y
    /\ \A x \in DOMAIN q : CarriedBy(l, q[x], f[x])

\* ... and keeps one for call c.
Spares(f, l, q, c) ==
    \E j \in 1 .. Len(l) : Performed(l, c, j) /\ \A x \in DOMAIN q : f[x] # j

\* What a request, its authorization and its pre-state have passed before anything is done.
Admitted(c) ==
    /\ Bridge!validate_request(c.request, c.authorization)
    /\ c.authorization = [receipt |-> c.authorization.receipt,
                          receipt_digest |-> c.authorization.receipt_digest]
    /\ Observation(c.pre_state)
    /\ Bridge!validate_observed_state(c.pre_state, c.request)
    /\ c.pre_state.state_digest = c.request.expected_pre_state_digest

Complete(p) ==
    /\ Admitted(p)
    /\ Observation(p.post_state)
    /\ Bridge!validate_observed_state(p.post_state, p.request)
    /\ p = Bridge!Package(p, p.post_state)

\* What the client and the host have seen at each stage of a call.
StageInv(c, l, digest) ==
    /\ c.stage \in {"observed", "acting"} => LastSeen(l, c.pre_state)
    /\ c.stage = "observed" => digest = c.pre_state.state_digest
    /\ c.stage = "acting" =>
          \A f \in {"application", "target", "value"} : c.pre_state[f] = c.seen[f]

BridgeInv ==
    /\ IsSeq(log) /\ IsSeq(signed)
    /\ \A o \in observations : Observation(o)
    /\ client.kind = "Primed" => Observation(client.state) /\ LastSeen(log, client.state)
    /\ call # None => Admitted(call) /\ StageInv(call, log, client.state_digest)
    /\ \A x \in DOMAIN signed : Complete(signed[x])
    /\ \E f : /\ Attributes(f, log, signed)
              /\ call # None /\ call.stage = "executed" => Spares(f, log, signed, call)

-----------------------------------------------------------------------------
LEMMA LastSeenKept ==
    ASSUME NEW l, IsSeq(l), NEW s, NEW e, e.kind # "applied", LastSeen(l, s)
    PROVE  LastSeen(Append(l, e), s)
<1>1. PICK t : t = Append(l, e)
  OBVIOUS
<1>2. Len(l) \in Nat /\ Len(t) = Len(l) + 1 /\ t[Len(l) + 1] = e /\ \A i \in 1 .. Len(l) : t[i] = l[i]
  BY <1>1, Appending
<1>3. PICK i \in 1 .. Len(l) : /\ l[i] = [kind |-> "observed", state |-> s]
                               /\ \A m \in i .. Len(l) : l[m].kind # "applied"
  BY DEF LastSeen
<1>4. i \in 1 .. Len(t) /\ t[i] = [kind |-> "observed", state |-> s]
  BY <1>2, <1>3
<1>5. ASSUME NEW m \in i .. Len(t) PROVE t[m].kind # "applied"
  <2>1. CASE m = Len(l) + 1
    BY <1>2, <2>1
  <2>2. CASE m # Len(l) + 1
    BY <1>2, <1>3, <2>2
  <2> QED BY <2>1, <2>2
<1> QED BY <1>1, <1>4, <1>5 DEF LastSeen

LEMMA NewSeen ==
    ASSUME NEW l, IsSeq(l), NEW s
    PROVE  LastSeen(Append(l, [kind |-> "observed", state |-> s]), s)
<1>1. PICK e : e = [kind |-> "observed", state |-> s]
  OBVIOUS
<1>2. PICK t : t = Append(l, e)
  OBVIOUS
<1>3. Len(l) \in Nat /\ Len(t) = Len(l) + 1 /\ t[Len(l) + 1] = e
  BY <1>2, Appending
<1>4. /\ Len(t) \in 1 .. Len(t) /\ t[Len(t)] = [kind |-> "observed", state |-> s]
      /\ \A m \in Len(t) .. Len(t) : t[m].kind # "applied"
  BY <1>1, <1>3
<1> QED BY <1>1, <1>2, <1>4 DEF LastSeen

LEMMA CarriedKept ==
    ASSUME NEW l, IsSeq(l), NEW p, NEW j \in 1 .. Len(l), CarriedBy(l, p, j), NEW e
    PROVE  CarriedBy(Append(l, e), p, j)
<1>1. PICK t : t = Append(l, e)
  OBVIOUS
<1>2. Len(l) \in Nat /\ Len(t) = Len(l) + 1 /\ \A i \in 1 .. Len(l) : t[i] = l[i]
  BY <1>1, Appending
<1>3. PICK i \in 1 .. j - 1, k \in j + 1 .. Len(l) :
          /\ l[i] = [kind |-> "observed", state |-> p.pre_state]
          /\ l[k] = [kind |-> "observed", state |-> p.post_state]
          /\ \A m \in (i .. k) \ {j} : l[m].kind # "applied"
  BY DEF CarriedBy
<1>4. k \in j + 1 .. Len(t) /\ t[i] = l[i] /\ t[k] = l[k] /\ t[j] = l[j]
  BY <1>2, <1>3
<1>5. \A m \in (i .. k) \ {j} : t[m].kind # "applied"
  BY <1>2, <1>3
<1>6. Acts(p, t[j])
  BY <1>4 DEF CarriedBy
<1> QED BY <1>1, <1>3, <1>4, <1>5, <1>6 DEF CarriedBy

\* An attribution outlives whatever the host adds to its log.
LEMMA AttributesKept ==
    ASSUME NEW l, IsSeq(l), NEW q, NEW f, Attributes(f, l, q), NEW e
    PROVE  Attributes(f, Append(l, e), q)
<1>1. PICK t : t = Append(l, e)
  OBVIOUS
<1>2. Len(l) \in Nat /\ Len(t) = Len(l) + 1
  BY <1>1, Appending
<1>3. f \in [DOMAIN q -> 1 .. Len(t)] /\ \A x \in DOMAIN q : f[x] \in 1 .. Len(l)
  BY <1>2 DEF Attributes
<1>4. \A x \in DOMAIN q : CarriedBy(t, q[x], f[x])
  BY <1>1, <1>3, CarriedKept DEF Attributes
<1> QED BY <1>1, <1>3, <1>4 DEF Attributes

\* The action of a call is not the action of a package: it came later than all of them.
LEMMA ActionSpared ==
    ASSUME NEW l, IsSeq(l), NEW q, NEW f, Attributes(f, l, q), NEW c, LastSeen(l, c.pre_state),
           NEW e, Acts(c, e)
    PROVE  Spares(f, Append(l, e), q, c)
<1>1. PICK t : t = Append(l, e)
  OBVIOUS
<1>2. Len(l) \in Nat /\ Len(t) = Len(l) + 1 /\ t[Len(l) + 1] = e /\ \A i \in 1 .. Len(l) : t[i] = l[i]
  BY <1>1, Appending
<1>3. PICK i \in 1 .. Len(l) : /\ l[i] = [kind |-> "observed", state |-> c.pre_state]
                               /\ \A m \in i .. Len(l) : l[m].kind # "applied"
  BY DEF LastSeen
<1>4. PICK j : j = Len(l) + 1
  OBVIOUS
<1>5. j \in 1 .. Len(t) /\ Acts(c, t[j])
  BY <1>2, <1>4
<1>6. /\ i \in 1 .. j - 1 /\ t[i] = [kind |-> "observed", state |-> c.pre_state]
      /\ \A m \in (i .. Len(t)) \ {j} : t[m].kind # "applied"
  BY <1>2, <1>3, <1>4
<1>7. Performed(t, c, j)
  BY <1>5, <1>6 DEF Performed
<1>8. \A x \in DOMAIN q : f[x] # j
  BY <1>2, <1>4 DEF Attributes
<1> QED BY <1>1, <1>5, <1>7, <1>8 DEF Spares

\* The package signed when the post-state has been observed gets the action of its call.
LEMMA PackageAttributed ==
    ASSUME NEW l, IsSeq(l), NEW q, IsSeq(q), NEW f, Attributes(f, l, q), NEW c, Spares(f, l, q, c),
           NEW p, p.request = c.request, p.pre_state = c.pre_state
    PROVE  \E g : Attributes(g, Append(l, [kind |-> "observed", state |-> p.post_state]),
                             Append(q, p))
<1>1. PICK e : e = [kind |-> "observed", state |-> p.post_state]
  OBVIOUS
<1>2. PICK t : t = Append(l, e)
  OBVIOUS
<1>3. /\ Len(l) \in Nat /\ Len(t) = Len(l) + 1 /\ t[Len(l) + 1] = e
      /\ \A i \in 1 .. Len(l) : t[i] = l[i]
  BY <1>2, Appending
<1>4. PICK r : r = Append(q, p)
  OBVIOUS
<1>5. PICK n : n = Len(q) + 1
  OBVIOUS
<1>6. /\ DOMAIN r = DOMAIN q \cup {n} /\ n \notin DOMAIN q
      /\ r[n] = p /\ \A x \in DOMAIN q : r[x] = q[x]
  BY <1>4, <1>5, Appending
<1>7. PICK j \in 1 .. Len(l) : Performed(l, c, j) /\ \A x \in DOMAIN q : f[x] # j
  BY DEF Spares
<1>8. CarriedBy(t, p, j)
  <2>1. PICK i \in 1 .. j - 1 :
           /\ l[i] = [kind |-> "observed", state |-> c.pre_state]
           /\ \A m \in (i .. Len(l)) \ {j} : l[m].kind # "applied"
    BY <1>7 DEF Performed
  <2>2. PICK k : k = Len(l) + 1
    OBVIOUS
  <2>3. k \in j + 1 .. Len(t) /\ t[i] = l[i] /\ t[j] = l[j] /\ t[k] = e
    BY <1>3, <2>1, <2>2
  <2>4. ASSUME NEW m \in (i .. k) \ {j} PROVE t[m].kind # "applied"
    <3>1. CASE m = k
      BY <1>1, <2>3, <3>1
    <3>2. CASE m # k
      BY <1>3, <2>1, <2>2, <3>2
    <3> QED BY <3>1, <3>2
  <2>5. Acts(p, t[j])
    BY <1>7, <2>3 DEF Performed, Acts
  <2> QED BY <1>1, <2>1, <2>3, <2>4, <2>5 DEF CarriedBy
<1>9. PICK g : g = [x \in DOMAIN r |-> IF x = n THEN j ELSE f[x]]
  OBVIOUS
<1>10. Attributes(f, t, q)
  BY <1>2, AttributesKept
<1>11. g[n] = j /\ \A x \in DOMAIN q : g[x] = f[x]
  BY <1>6, <1>9
<1>12. g \in [DOMAIN r -> 1 .. Len(t)]
  BY <1>3, <1>6, <1>7, <1>9, <1>10 DEF Attributes
<1>13. \A x, y \in DOMAIN r : g[x] = g[y] => x = y
  BY <1>6, <1>7, <1>10, <1>11 DEF Attributes
<1>14. \A x \in DOMAIN r : CarriedBy(t, r[x], g[x])
  BY <1>6, <1>8, <1>10, <1>11 DEF Attributes
<1>15. Attributes(g, t, r)
  BY <1>12, <1>13, <1>14 DEF Attributes
<1> QED BY <1>1, <1>2, <1>4, <1>15

-----------------------------------------------------------------------------
LEMMA ObservesKeeps ==
    ASSUME BridgeInv, NEW request, Bridge!Observes(request)
    PROVE  \E s : /\ s = Bridge!ObserveTarget(request)
                  /\ log' = Append(log, [kind |-> "observed", state |-> s])
                  /\ \A o \in observations' : Observation(o)
<1>1. PICK s : s = Bridge!ObserveTarget(request)
  OBVIOUS
<1>2. Observation(s)
  BY <1>1, ObserveTargetForm
<1>3. observations' \subseteq observations \cup {s}
  BY <1>1 DEF Bridge!Observes, Bridge!CacheObservation
<1>4. log' = Append(log, [kind |-> "observed", state |-> s])
  BY <1>1 DEF Bridge!Observes
<1> QED BY <1>1, <1>2, <1>3, <1>4 DEF BridgeInv

\* A step that ends a call, or is none of a call, keeps what has been signed.
LEMMA EndsKeep ==
    ASSUME BridgeInv, call' = None, client'.kind # "Primed", UNCHANGED signed,
           \A o \in observations' : Observation(o),
           UNCHANGED log \/ \E e : log' = Append(log, e)
    PROVE  BridgeInv'
<1>1. PICK f : Attributes(f, log, signed)
  BY DEF BridgeInv
<1>2. IsSeq(log') /\ Attributes(f, log', signed)
  <2>1. ASSUME NEW e, log' = Append(log, e) PROVE IsSeq(log') /\ Attributes(f, log', signed)
    BY <1>1, <2>1, Appending, AttributesKept DEF BridgeInv
  <2> QED BY <1>1, <2>1 DEF BridgeInv
<1> QED BY <1>1, <1>2 DEF BridgeInv

LEMMA UnansweredKeeps ==
    ASSUME BridgeInv, NEW request, Bridge!Unanswered(Bridge!Observes(request))
    PROVE  /\ \A o \in observations' : Observation(o)
           /\ UNCHANGED log \/ \E e : log' = Append(log, e)
<1>1. CASE Bridge!Observes(request)
  BY <1>1, ObservesKeeps
<1>2. CASE ~ Bridge!Observes(request)
  BY <1>2 DEF Bridge!Unanswered, Bridge!hostVars, BridgeInv
<1> QED BY <1>1, <1>2

LEMMA PrimeKeeps ==
    ASSUME BridgeInv, NEW request, Bridge!prime(request) PROVE BridgeInv'
<1>1. call = None /\ client.kind = "Idle" /\ UNCHANGED <<call, signed>>
  BY DEF Bridge!prime, Bridge!Idling, Bridge!Idle
<1>2. ASSUME Bridge!Observes(request),
             client' = [kind |-> "Primed", request_id |-> request.request_id,
                        state |-> Bridge!ObserveTarget(request)]
      PROVE  BridgeInv'
  <2>1. PICK s : /\ s = Bridge!ObserveTarget(request)
                 /\ log' = Append(log, [kind |-> "observed", state |-> s])
                 /\ \A o \in observations' : Observation(o)
    BY <1>2, ObservesKeeps
  <2>2. PICK f : Attributes(f, log, signed)
    BY DEF BridgeInv
  <2>3. IsSeq(log') /\ Attributes(f, log', signed)
    BY <2>1, <2>2, Appending, AttributesKept DEF BridgeInv
  <2>4. Observation(s) /\ LastSeen(log', s)
    BY <2>1, ObserveTargetForm, NewSeen DEF BridgeInv
  <2>5. client'.state = s
    BY <1>2, <2>1
  <2> QED BY <1>1, <2>1, <2>2, <2>3, <2>4, <2>5 DEF BridgeInv
<1>3. ASSUME Bridge!Unanswered(Bridge!Observes(request)), UNCHANGED client
      PROVE  BridgeInv'
  <2>1. /\ \A o \in observations' : Observation(o)
        /\ UNCHANGED log \/ \E e : log' = Append(log, e)
    BY <1>3, UnansweredKeeps
  <2> QED BY <1>1, <1>3, <2>1, EndsKeep
<1> QED BY <1>2, <1>3 DEF Bridge!prime

\* A call starts with the state the client was primed with, which is what the request names.
LEMMA CallKeeps ==
    ASSUME BridgeInv, NEW request, NEW authorization \in Bridge!Authorizations,
           Bridge!execute_windows_bridge(request, authorization)
    PROVE  BridgeInv'
<1>1. /\ UNCHANGED <<observations, log, signed>>
      /\ Bridge!validate_request(request, authorization)
      /\ client' = Bridge!observe(request)
      /\ call' = IF client' # Bridge!Idle /\ Bridge!validate_observed_state(client.state, request)
                 THEN [stage |-> "observed", request |-> request,
                       authorization |-> authorization, pre_state |-> client.state]
                 ELSE None
  BY DEF Bridge!execute_windows_bridge, Bridge!hostVars
<1>2. client'.kind # "Primed"
  BY <1>1 DEF Bridge!observe, Bridge!Idle
<1>3. CASE call' = None
  BY <1>1, <1>2, <1>3, EndsKeep DEF BridgeInv
<1>4. CASE call' # None
  <2>1. /\ client.kind = "Primed"
        /\ client.state.state_digest = request.expected_pre_state_digest
        /\ client'.state_digest = client.state.state_digest
        /\ Bridge!validate_observed_state(client.state, request)
    BY <1>1, <1>4 DEF Bridge!observe
  <2>2. PICK c : c = call'
    OBVIOUS
  <2>3. /\ c.stage = "observed" /\ c.request = request
        /\ c.authorization = authorization /\ c.pre_state = client.state
    BY <1>1, <1>4, <2>2
  <2>4. authorization = [receipt |-> authorization.receipt,
                         receipt_digest |-> authorization.receipt_digest]
    BY DEF Bridge!Authorizations
  <2>5. Admitted(c)
    BY <1>1, <2>1, <2>3, <2>4 DEF Admitted, BridgeInv
  <2>6. StageInv(c, log, client'.state_digest)
    BY <2>1, <2>3 DEF StageInv, BridgeInv
  <2>7. PICK f : Attributes(f, log, signed)
    BY DEF BridgeInv
  <2> QED BY <1>1, <1>2, <2>2, <2>3, <2>5, <2>6, <2>7 DEF BridgeInv
<1> QED BY <1>3, <1>4

\* The host acts on the check only if it finds what was observed under the digest.
LEMMA CheckKeeps ==
    ASSUME BridgeInv, Bridge!execute PROVE BridgeInv'
<1>1. PICK c : c = call
  OBVIOUS
<1>2. PICK current : current = Bridge!ObserveTarget(c.request)
  OBVIOUS
<1>3. PICK expected : expected = Bridge!ConsumeObservation(client.state_digest)
  OBVIOUS
<1>4. call # None /\ c.stage = "observed" /\ UNCHANGED signed
  BY <1>1 DEF Bridge!execute, Bridge!Idling
<1>5. CASE call' = None /\ client' = Bridge!Idle
  <2>1. UNCHANGED log /\ observations' \subseteq observations
    BY DEF Bridge!execute, Bridge!hostVars, Bridge!Unanswered
  <2>2. client'.kind # "Primed"
    BY <1>5 DEF Bridge!Idle
  <2> QED BY <1>4, <1>5, <2>1, <2>2, EndsKeep DEF BridgeInv
<1>6. CASE /\ observations' = observations \ expected
           /\ expected # {} /\ \A e \in expected : Bridge!SemanticStateEquals(e, current)
           /\ call' = [stage |-> "acting", request |-> c.request,
                       authorization |-> c.authorization,
                       pre_state |-> c.pre_state, seen |-> current]
           /\ UNCHANGED <<client, log>>
  <2>1. Admitted(c) /\ LastSeen(log, c.pre_state) /\ client.state_digest = c.pre_state.state_digest
    BY <1>1, <1>4 DEF BridgeInv, StageInv
  <2>2. PICK e \in expected : Bridge!SemanticStateEquals(e, current)
    BY <1>6
  <2>3. e = c.pre_state
    BY <1>3, <2>1, SameDigest DEF Bridge!ConsumeObservation, BridgeInv, Admitted
  <2>4. PICK d : d = call'
    OBVIOUS
  <2>5. /\ d.stage = "acting" /\ d.request = c.request /\ d.authorization = c.authorization
        /\ d.pre_state = c.pre_state /\ d.seen = current
    BY <1>6, <2>4
  <2>6. Admitted(d)
    BY <2>1, <2>5 DEF Admitted
  <2>7. StageInv(d, log, client.state_digest)
    BY <2>1, <2>2, <2>3, <2>5 DEF StageInv, Bridge!SemanticStateEquals
  <2>8. PICK f : Attributes(f, log, signed)
    BY DEF BridgeInv
  <2> QED BY <1>4, <1>6, <2>4, <2>5, <2>6, <2>7, <2>8 DEF BridgeInv
<1> QED BY <1>1, <1>2, <1>3, <1>5, <1>6 DEF Bridge!execute, Bridge!Gives_up

LEMMA ActionKeeps ==
    ASSUME BridgeInv, Bridge!ApplyAction PROVE BridgeInv'
<1>1. PICK c : c = call
  OBVIOUS
<1>2. call # None /\ c.stage = "acting" /\ UNCHANGED signed
  BY <1>1 DEF Bridge!ApplyAction, Bridge!Idling
<1>3. PICK entry : entry = [kind |-> "applied", request_id |-> c.request.request_id,
                            consumed |-> c.pre_state.state_digest, seen |-> c.seen]
  OBVIOUS
<1>4. Bridge!Applies => log' = Append(log, entry) /\ UNCHANGED observations
  BY <1>1, <1>3 DEF Bridge!Applies
<1>5. CASE call' = None /\ client' = Bridge!Idle
  <2>1. UNCHANGED observations /\ (UNCHANGED log \/ \E e : log' = Append(log, e))
    BY <1>4 DEF Bridge!ApplyAction, Bridge!hostVars, Bridge!Applies
  <2>2. client'.kind # "Primed"
    BY <1>5 DEF Bridge!Idle
  <2> QED BY <1>2, <1>5, <2>1, <2>2, EndsKeep DEF BridgeInv
<1>6. CASE /\ Bridge!Applies
           /\ call' = [stage |-> "executed", request |-> c.request,
                       authorization |-> c.authorization, pre_state |-> c.pre_state]
           /\ client' = [kind |-> "AwaitingPostState", request_id |-> c.request.request_id]
  <2>1. Admitted(c) /\ StageInv(c, log, client.state_digest) /\ LastSeen(log, c.pre_state)
    BY <1>1, <1>2 DEF BridgeInv, StageInv
  <2>2. PICK d : d = call'
    OBVIOUS
  <2>3. /\ d.stage = "executed" /\ d.request = c.request /\ d.authorization = c.authorization
        /\ d.pre_state = c.pre_state
    BY <1>6, <2>2
  <2>4. Admitted(d) /\ StageInv(d, log', client'.state_digest)
    BY <2>1, <2>3 DEF Admitted, StageInv
  <2>5. Acts(d, entry)
    BY <1>2, <1>3, <2>1, <2>3 DEF Acts, StageInv
  <2>6. PICK f : Attributes(f, log, signed)
    BY DEF BridgeInv
  <2>7. IsSeq(log') /\ Attributes(f, log', signed) /\ Spares(f, log', signed, d)
    BY <1>4, <1>6, <2>1, <2>3, <2>5, <2>6, Appending, AttributesKept, ActionSpared DEF BridgeInv
  <2>8. client'.kind # "Primed" /\ UNCHANGED observations
    BY <1>4, <1>6
  <2> QED BY <1>2, <2>2, <2>4, <2>7, <2>8 DEF BridgeInv
<1> QED BY <1>1, <1>5, <1>6 DEF Bridge!ApplyAction, Bridge!Gives_up

LEMMA RecordKeeps ==
    ASSUME BridgeInv, Bridge!complete_post_observe PROVE BridgeInv'
<1>1. PICK c : c = call
  OBVIOUS
<1>2. call # None /\ c.stage = "executed" /\ call' = None /\ client'.kind # "Primed"
  BY <1>1 DEF Bridge!complete_post_observe, Bridge!Idling, Bridge!Gives_up, Bridge!Idle
<1>3. CASE UNCHANGED signed
  <2>1. CASE Bridge!Observes(call.request)
    BY <1>2, <1>3, <2>1, ObservesKeeps, EndsKeep
  <2>2. CASE Bridge!Unanswered(Bridge!Observes(call.request))
    BY <1>2, <1>3, <2>2, UnansweredKeeps, EndsKeep
  <2>3. CASE UNCHANGED Bridge!hostVars
    BY <1>2, <1>3, <2>3, EndsKeep DEF Bridge!hostVars, BridgeInv
  <2> QED BY <2>1, <2>2, <2>3 DEF Bridge!complete_post_observe
<1>4. ASSUME NEW p, NEW post, post = Bridge!ObserveTarget(c.request), p = Bridge!Package(c, post),
             Bridge!Observes(c.request), signed' = Append(signed, p)
      PROVE  BridgeInv'
  <2>1. /\ log' = Append(log, [kind |-> "observed", state |-> post])
        /\ \A o \in observations' : Observation(o)
    BY <1>4, ObservesKeeps
  <2>2. Admitted(c)
    BY <1>1, <1>2 DEF BridgeInv
  <2>3. /\ p.request = c.request /\ p.authorization = c.authorization
        /\ p.pre_state = c.pre_state /\ p.post_state = post
    BY <1>4 DEF Bridge!Package
  <2>4. p = Bridge!Package(p, p.post_state)
    BY <1>4, <2>3 DEF Bridge!Package
  <2>5. /\ Observation(post) /\ post.state_digest = Bridge!observed_state_digest(post)
        /\ post.target = Bridge!selector_stable_id(c.request.selector)
        /\ post.application = app
    BY <1>4, ObserveTargetForm
  <2>6. c.request.application = app
    BY <1>4 DEF Bridge!Observes, Bridge!ResolveTarget
  <2>7. Complete(p)
    BY <2>2, <2>3, <2>4, <2>5, <2>6 DEF Complete, Admitted, Bridge!validate_observed_state
  <2>8. PICK f : Attributes(f, log, signed) /\ Spares(f, log, signed, c)
    BY <1>1, <1>2 DEF BridgeInv
  <2>9. \E g : Attributes(g, log', signed')
    BY <1>4, <2>1, <2>3, <2>8, PackageAttributed DEF BridgeInv
  <2>10. IsSeq(log') /\ IsSeq(signed') /\ \A x \in DOMAIN signed' : Complete(signed'[x])
    <3>1. PICK n, q : n = Len(signed) + 1 /\ q = signed'
      OBVIOUS
    <3>2. IsSeq(signed) /\ q = Append(signed, p)
      BY <1>4, <3>1 DEF BridgeInv
    <3>3. /\ IsSeq(q) /\ q[n] = p /\ DOMAIN q = DOMAIN signed \cup {n}
          /\ \A x \in DOMAIN signed : q[x] = signed[x]
      <4>1. IsSeq(q) /\ q[Len(signed) + 1] = p
        BY <3>2, Appending
      <4>2. /\ Len(signed) \in Nat /\ Len(q) = Len(signed) + 1
            /\ DOMAIN signed = 1 .. Len(signed) /\ DOMAIN q = 1 .. Len(q)
        BY <3>2, Appending
      <4>3. \A x \in 1 .. Len(signed) : q[x] = signed[x]
        BY <3>2, Appending
      <4> QED BY <3>1, <4>1, <4>2, <4>3
    <3>4. \A x \in DOMAIN q : Complete(q[x])
      BY <2>7, <3>3 DEF BridgeInv
    <3>5. IsSeq(log')
      BY <2>1, Appending DEF BridgeInv
    <3> QED BY <3>1, <3>3, <3>4, <3>5
  <2> QED BY <1>2, <2>1, <2>9, <2>10 DEF BridgeInv
<1> QED BY <1>1, <1>3, <1>4 DEF Bridge!complete_post_observe

-----------------------------------------------------------------------------
LEMMA BridgeInitial == ASSUME Bridge!Init PROVE BridgeInv
<1>1. /\ log = <<>> /\ signed = <<>> /\ observations = {} /\ call = None
      /\ client.kind # "Primed"
  BY DEF Bridge!Init, Bridge!Idle
<1>2. IsSeq(log) /\ IsSeq(signed) /\ DOMAIN signed = {}
  <2>1. log \in Seq({}) /\ signed \in Seq({})
    BY <1>1
  <2> QED BY <1>1, <2>1 DEF IsSeq
<1>3. PICK f : f = [x \in {} |-> 0]
  OBVIOUS
<1>4. Attributes(f, log, signed)
  BY <1>2, <1>3 DEF Attributes
<1> QED BY <1>1, <1>2, <1>4 DEF BridgeInv

LEMMA BridgeStep == ASSUME BridgeInv, [Bridge!Next]_bridgeVars PROVE BridgeInv'
<1>1. ASSUME UNCHANGED <<observations, client, call, signed, log>> PROVE BridgeInv'
  BY <1>1 DEF BridgeInv
<1>2. CASE Bridge!UserActs
  BY <1>1, <1>2 DEF Bridge!UserActs, Bridge!hostVars
<1>3. CASE Bridge!ApplicationRestarts
  BY <1>1, <1>3 DEF Bridge!ApplicationRestarts, Bridge!hostVars
<1>4. CASE Bridge!TimePasses
  BY <1>1, <1>4 DEF Bridge!TimePasses, Bridge!hostVars
<1>5. CASE UNCHANGED bridgeVars
  BY <1>1, <1>5 DEF bridgeVars
<1>6. CASE Bridge!spawn
  <2>1. /\ call' = None /\ client'.kind # "Primed" /\ UNCHANGED <<signed, log>>
        /\ observations' = {}
    BY <1>6 DEF Bridge!spawn, Bridge!Idling, Bridge!Idle
  <2> QED BY <2>1, EndsKeep
<1>7. CASE \E id \in RequestIds : Bridge!prime(Bridge!Request(id, "fill", app, shown, <<>>))
  BY <1>7, PrimeKeeps
<1>8. CASE \E digest \in Bridge!Digests, authorization \in Bridge!Authorizations :
              \E request \in Bridge!Requests(digest) :
                 Bridge!execute_windows_bridge(request, authorization)
  BY <1>8, CallKeeps
<1>9. CASE Bridge!execute
  BY <1>9, CheckKeeps
<1>10. CASE Bridge!ApplyAction
  BY <1>10, ActionKeeps
<1>11. CASE Bridge!complete_post_observe
  BY <1>11, RecordKeeps
<1> QED
  BY <1>2, <1>3, <1>4, <1>5, <1>6, <1>7, <1>8, <1>9, <1>10, <1>11 DEF Bridge!Next

\* A package that was put together from parts of signed ones and verifies is the one its
\* record belongs to: the digests in the record name every other part.
LEMMA VerifiedIsWhole ==
    ASSUME NEW p, NEW a, NEW b, NEW c, NEW d, NEW e,
           Complete(a), Complete(b), Complete(c), Complete(d), Complete(e),
           p = [request |-> a.request, authorization |-> b.authorization,
                pre_state |-> c.pre_state, post_state |-> d.post_state, record |-> e.record],
           Bridge!verify_windows_bridge_package(p)
    PROVE  p = e
<1>1. /\ e.record.request_digest = e.request
      /\ e.record.authorization_receipt_digest = e.authorization.receipt_digest
      /\ e.record.pre_state_digest = e.pre_state.state_digest
      /\ e.record.post_state_digest = e.post_state.state_digest
      /\ e = [request |-> e.request, authorization |-> e.authorization,
              pre_state |-> e.pre_state, post_state |-> e.post_state, record |-> e.record]
  BY DEF Complete, Bridge!Package
<1>2. /\ p.record.request_digest = p.request
      /\ p.authorization.receipt_digest = p.authorization.receipt
      /\ p.record.authorization_receipt_digest = p.authorization.receipt
      /\ p.record.pre_state_digest = p.pre_state.state_digest
      /\ p.record.post_state_digest = p.post_state.state_digest
  BY DEF Bridge!verify_windows_bridge_package
<1>3. /\ p.request = a.request /\ p.authorization = b.authorization
      /\ p.pre_state = c.pre_state /\ p.post_state = d.post_state /\ p.record = e.record
  OBVIOUS
<1>4. a.request = e.request
  BY <1>1, <1>2, <1>3
<1>5. b.authorization = e.authorization
  <2>1. /\ e.authorization.receipt_digest = e.authorization.receipt
        /\ e.authorization = [receipt |-> e.authorization.receipt,
                              receipt_digest |-> e.authorization.receipt_digest]
        /\ b.authorization = [receipt |-> b.authorization.receipt,
                              receipt_digest |-> b.authorization.receipt_digest]
    BY DEF Complete, Admitted, Bridge!validate_request
  <2>2. /\ b.authorization.receipt_digest = e.authorization.receipt_digest
        /\ b.authorization.receipt = e.authorization.receipt
    BY <1>1, <1>2, <1>3, <2>1
  <2> QED BY <2>1, <2>2
<1>6. c.pre_state = e.pre_state
  <2>1. Observation(c.pre_state) /\ Observation(e.pre_state)
    BY DEF Complete, Admitted
  <2>2. c.pre_state.state_digest = e.pre_state.state_digest
    BY <1>1, <1>2, <1>3
  <2> QED BY <2>1, <2>2, SameDigest
<1>7. d.post_state = e.post_state
  <2>1. Observation(d.post_state) /\ Observation(e.post_state)
    BY DEF Complete
  <2>2. d.post_state.state_digest = e.post_state.state_digest
    BY <1>1, <1>2, <1>3
  <2> QED BY <2>1, <2>2, SameDigest
<1> QED BY <1>1, <1>4, <1>5, <1>6, <1>7

LEMMA CompleteVerifies ==
    ASSUME NEW p, Complete(p) PROVE Bridge!verify_windows_bridge_package(p)
<1>1. PICK found :
          found = Bridge!evaluate_postconditions(p.request.postconditions, p.post_state)
  OBVIOUS
<1>2. p.record = [request_digest |-> p.request,
                  authorization_receipt_digest |-> p.authorization.receipt_digest,
                  pre_state_digest |-> p.pre_state.state_digest,
                  consumed_pre_state_digest |-> p.pre_state.state_digest,
                  post_state_digest |-> p.post_state.state_digest,
                  status |-> IF found = {} THEN "Succeeded" ELSE "Failed",
                  violations |-> found]
  BY <1>1 DEF Complete, Bridge!Package
<1>3. /\ Bridge!validate_request_policy(p.request)
      /\ p.authorization.receipt_digest = p.authorization.receipt
      /\ p.request.authorization_receipt_digest = p.authorization.receipt
      /\ Bridge!validate_package_bindings(p.request, p.authorization.receipt)
      /\ Bridge!validate_observed_state(p.pre_state, p.request)
      /\ Bridge!validate_observed_state(p.post_state, p.request)
      /\ p.pre_state.state_digest = p.request.expected_pre_state_digest
  BY DEF Complete, Admitted, Bridge!validate_request
<1>4. /\ p.record.request_digest = p.request
      /\ p.record.authorization_receipt_digest = p.authorization.receipt_digest
      /\ p.record.pre_state_digest = p.pre_state.state_digest
      /\ p.record.consumed_pre_state_digest = p.pre_state.state_digest
      /\ p.record.post_state_digest = p.post_state.state_digest
  BY <1>2
<1>5. /\ p.record.violations = found
      /\ p.record.status = IF found = {} THEN "Succeeded" ELSE "Failed"
  BY <1>2
<1> QED BY <1>1, <1>3, <1>4, <1>5 DEF Bridge!verify_windows_bridge_package

LEMMA BridgeSafe == ASSUME BridgeInv PROVE VerifiedActionTookPlace
<1>1. \A p \in Bridge!Issued : Complete(p)
  BY DEF BridgeInv, Bridge!Issued
<1>2. ASSUME NEW p \in Bridge!Assembled
      PROVE  Bridge!verify_windows_bridge_package(p) <=> p \in Bridge!Issued
  <2>1. PICK a \in Bridge!Issued, b \in Bridge!Issued, c \in Bridge!Issued,
             d \in Bridge!Issued, e \in Bridge!Issued :
           p = [request |-> a.request, authorization |-> b.authorization,
                pre_state |-> c.pre_state, post_state |-> d.post_state, record |-> e.record]
    BY DEF Bridge!Assembled
  <2>2. Bridge!verify_windows_bridge_package(p) => p = e
    BY <1>1, <2>1, VerifiedIsWhole
  <2> QED BY <1>1, <2>1, <2>2, CompleteVerifies
<1>3. \E f \in [DOMAIN signed -> DOMAIN log] :
         /\ \A x, y \in DOMAIN signed : f[x] = f[y] => x = y
         /\ \A x \in DOMAIN signed : Bridge!Carries(signed[x], f[x])
  <2>1. PICK f : Attributes(f, log, signed)
    BY DEF BridgeInv
  <2>2. DOMAIN log = 1 .. Len(log)
    BY DEF BridgeInv, IsSeq
  <2>3. \A p, j : CarriedBy(log, p, j) => Bridge!Carries(p, j)
    BY DEF CarriedBy, Acts, Bridge!Carries
  <2> QED BY <2>1, <2>2, <2>3 DEF Attributes
<1> QED BY <1>2, <1>3 DEF VerifiedActionTookPlace, Bridge!VerifiedActionTookPlace

LEMMA BridgeBehaviour == RehearsalSpec => Bridge!Init /\ [][Bridge!Next]_bridgeVars
<1>1. RehearsalInit => Bridge!Init
  BY DEF RehearsalInit
<1>2. [RehearsalNext]_<<part, allVars, bridgeVars>> => [Bridge!Next]_bridgeVars
  BY DEF RehearsalNext
<1> QED BY <1>1, <1>2, PTL DEF RehearsalSpec

\* What verify_windows_bridge_package accepts stands for an action the host carried out, on
\* the state that was observed before it and with the one observed after it, and no two
\* packages stand for the same one; however often the application changes or restarts, the
\* host ends, a digest is observed again and a request is tried again.
THEOREM VerifiedAlwaysTookPlace == RehearsalSpec => []VerifiedActionTookPlace
<1>1. Bridge!Init => BridgeInv
  BY BridgeInitial
<1>2. BridgeInv /\ [Bridge!Next]_bridgeVars => BridgeInv'
  BY BridgeStep
<1>3. BridgeInv => VerifiedActionTookPlace
  BY BridgeSafe
<1> QED BY <1>1, <1>2, <1>3, BridgeBehaviour, PTL

-----------------------------------------------------------------------------
(***************************************************************************)
(* The workspace                                                           *)
(***************************************************************************)

\* Applying the prepared commands of a known operation gives typed artifacts.
LEMMA CandidateType ==
    ASSUME NEW op, op.commands \in Seq(Commands), NEW as \in Artifacts, Prepared(op, as)
    PROVE  Candidate(op, as) \in Artifacts
<1>1. SUFFICES ASSUME NEW a \in ArtifactIds,
                      \E k \in DOMAIN op.commands : op.commands[k].artifact = a
               PROVE  Candidate(op, as)[a] \in Records \cup {Absent}
  BY DEF Candidate, Artifacts
<1> DEFINE idx == CHOOSE k \in DOMAIN op.commands : op.commands[k].artifact = a
<1>2. idx \in DOMAIN op.commands
  BY <1>1
<1> DEFINE c == op.commands[idx]
<1>4. Candidate(op, as)[a] = IF c.kind = "write"
                             THEN [mutability |-> "mutable", content |-> c.content] ELSE Absent
  BY <1>1 DEF Candidate
<1> HIDE DEF idx
<1>3a. CommandPrepared(op, as, idx)
  BY <1>2 DEF Prepared
<1>3b. c \in Commands
  BY <1>2
<1>3. c \in Commands /\ (c.kind = "write" => c.content # Garbage)
  BY <1>3a, <1>3b DEF CommandPrepared
<1> HIDE DEF c
<1>5. CASE c.kind = "write"
  <2>1. c.content \in Contents
    BY <1>3, <1>5 DEF Commands
  <2> QED BY <1>4, <1>5, <2>1 DEF Records
<1>6. CASE c.kind # "write"
  BY <1>4, <1>6
<1> QED BY <1>5, <1>6

\* The artifacts and the revision an operation leaves are typed.
LEMMA CommitType ==
    ASSUME NEW op, op.commands \in Seq(Commands), artifacts \in Artifacts, revision \in Nat,
           Commit(op, Outcome(op, artifacts))
    PROVE  artifacts' \in Artifacts /\ revision' \in Nat
<1>1. CASE Outcome(op, artifacts) = "succeeded"
  <2>1. Prepared(op, artifacts)
    BY <1>1 DEF Outcome
  <2> QED BY <1>1, <2>1, CandidateType DEF Commit
<1>2. CASE Outcome(op, artifacts) # "succeeded"
  BY <1>2 DEF Commit
<1> QED BY <1>1, <1>2

LEMMA OutcomeType ==
    ASSUME NEW op, NEW as PROVE Outcome(op, as) \in Outcomes
BY DEF Outcome, Outcomes

-----------------------------------------------------------------------------
\* An operation the workspace may be handed: one of the plan's, or a faulted copy.
Submitted(op) == op.commands \in Seq(Commands) /\ op.id \in OperationIds

\* The steps of the workspace, alone and under a simulation.
TwinNext ==
    \/ SealFinalState
    \/ \E a \in ArtifactIds, content \in Contents : StageInput(a, content)
    \/ \E op : Submitted(op) /\ ApplyOperation(op)
    \/ \E c \in CheckpointIds : CreateCheckpoint(c)
    \/ \E r \in RollbackIds, c \in CheckpointIds :
           RollbackUnknown(r, c) \/ RollbackToCheckpoint(r, c)

\* A fault leaves an operation one the workspace may be handed.
LEMMA FaultedSubmitted ==
    ASSUME NEW op \in Operations, NEW fault \in Faults
    PROVE  Submitted(op) /\ Submitted(Faulted(op, fault))
<1>1. /\ op = [id |-> op.id, operator |-> op.operator, inputs |-> op.inputs,
               outputs |-> op.outputs, pre |-> op.pre, commands |-> op.commands,
               post |-> op.post]
      /\ op.commands \in Seq(Commands) /\ op.id \in OperationIds
  BY OperationsAssumption DEF OperationIds
<1>2. Submitted(op)
  BY <1>1 DEF Submitted
<1>3. CASE fault.kind # "corrupt"
  <2>1. \A v : /\ [op EXCEPT !.pre = v].commands = op.commands
               /\ [op EXCEPT !.post = v].commands = op.commands
               /\ [op EXCEPT !.pre = v].id = op.id /\ [op EXCEPT !.post = v].id = op.id
    BY <1>1
  <2>2. fault.kind \in {"none", "pre", "post"}
    BY <1>3 DEF Faults
  <2>3. /\ Faulted(op, fault).commands = op.commands /\ Faulted(op, fault).id = op.id
    BY <2>1, <2>2 DEF Faulted
  <2> QED BY <1>1, <1>2, <2>3 DEF Submitted
<1>4. CASE fault.kind = "corrupt"
  <2>1. fault.content \in Contents \cup {Garbage}
    BY <1>4 DEF Faults
  <2>2. PICK k : k = FirstWrite(op)
    OBVIOUS
  <2>3. PICK cs : cs = [op.commands EXCEPT ![k].content = fault.content]
    OBVIOUS
  <2>4. \A c \in Commands : [c EXCEPT !.content = fault.content] \in Commands
    BY <2>1 DEF Commands
  <2>5. cs \in Seq(Commands)
    <3>1. PICK n \in Nat : op.commands \in [1 .. n -> Commands]
      BY <1>1
    <3>2. \A j \in 1 .. n : [op.commands[j] EXCEPT !.content = fault.content] \in Commands
      BY <2>4, <3>1
    <3>3. cs \in [1 .. n -> Commands]
      BY <2>3, <3>1, <3>2
    <3> QED BY <3>3
  <2>6. Faulted(op, fault) = [op EXCEPT !.commands = cs]
    BY <1>4, <2>2, <2>3 DEF Faulted
  <2>7. Faulted(op, fault).commands = cs /\ Faulted(op, fault).id = op.id
    BY <1>1, <2>6
  <2> QED BY <1>1, <1>2, <2>5, <2>7 DEF Submitted
<1> QED BY <1>2, <1>3, <1>4

Invoked == \A k \in DOMAIN invocations : invocations[k] \in Invocations

LEMMA TwinStep ==
    ASSUME Invoked, [RehearsalNext]_<<part, allVars, bridgeVars>>
    PROVE  [TwinNext]_vars /\ Invoked'
<1>1. CASE UNCHANGED allVars
  BY <1>1 DEF allVars, simVars, vars, Invoked
<1>2. CASE Prepare
  <2>1. TwinNext
    BY <1>2, FaultedSubmitted, OperationsAssumption DEF Prepare, Next, TwinNext, Submitted, OperationIds
  <2> QED BY <1>2, <2>1 DEF Prepare, simVars, Invoked
<1>3. ASSUME NEW n \in 0 .. MaxInvocations, NEW invs \in [1 .. n -> Invocations], Start(invs)
      PROVE  [TwinNext]_vars /\ Invoked'
  BY <1>3 DEF Start, vars, Invoked
<1>4. CASE StepMissing \/ StepBlocked \/ StepAborts \/ Finish
  BY <1>4 DEF StepMissing, StepBlocked, StepAborts, Finish, vars, Invoked
<1>5. CASE StepApplied
  <2>1. PICK i \in Indexed(Step.id) : ApplyOperation(Faulted(i.operation, i.fault))
    BY <1>5 DEF StepApplied
  <2>2. i \in Invocations
    BY <2>1 DEF Indexed, Invoked
  <2>3. Submitted(Faulted(i.operation, i.fault))
    BY <2>2, FaultedSubmitted, InvocationAssumption
  <2> QED BY <1>5, <2>1, <2>3 DEF TwinNext, StepApplied, Invoked
<1> QED
  BY <1>1, <1>2, <1>3, <1>4, <1>5 DEF RehearsalNext, SimNext

LEMMA TwinBehaviour == RehearsalSpec => Init /\ [][TwinNext]_vars
<1>1. RehearsalInit => Init /\ Invoked
  BY DEF RehearsalInit, SimInit, Invoked
<1>2. Invoked /\ [RehearsalNext]_<<part, allVars, bridgeVars>> => [TwinNext]_vars /\ Invoked'
  BY TwinStep
<1> QED BY <1>1, <1>2, PTL DEF RehearsalSpec

-----------------------------------------------------------------------------
\* What one step does to state and trace.
Shape ==
    \/ UNCHANGED <<artifacts, revision, trace>>
    \/ \E kind \in Kinds :
          /\ trace' = Append(trace, [kind |-> kind, before |-> Snapshot, after |-> Snapshot'])
          /\ \/ revision' = revision + 1
             \/ UNCHANGED <<artifacts, revision>>

\* Every step of the workspace has that shape.
LEMMA StepShape ==
    ASSUME [TwinNext]_vars PROVE Shape
<1>1. ASSUME NEW a \in ArtifactIds, NEW content \in Contents, StageInput(a, content)
      PROVE  Shape
  BY <1>1 DEF StageInput, PushTrace, Shape, Snapshot, Kinds
<1>2. ASSUME NEW op, Submitted(op), ApplyOperation(op) PROVE Shape
  <2>1. Commit(op, Outcome(op, artifacts))
    BY <1>2 DEF ApplyOperation
  <2>2. "operation" \in Kinds
    BY DEF Kinds
  <2> QED BY <2>1, <2>2 DEF Commit, PushTrace, Shape, Snapshot
<1>3. ASSUME NEW c \in CheckpointIds, CreateCheckpoint(c) PROVE Shape
  BY <1>3 DEF CreateCheckpoint, PushTrace, Shape, Snapshot, Kinds
<1>4. ASSUME NEW r \in RollbackIds, NEW c \in CheckpointIds, RollbackUnknown(r, c) PROVE Shape
  BY <1>4 DEF RollbackUnknown, Shape
<1>5. ASSUME NEW r \in RollbackIds, NEW c \in CheckpointIds, RollbackToCheckpoint(r, c)
      PROVE  Shape
  BY <1>5 DEF RollbackToCheckpoint, RestoredRevision, PushTrace, Shape, Snapshot, Kinds
<1>6. ASSUME SealFinalState PROVE Shape
  BY <1>6 DEF SealFinalState, PushTrace, Shape, Snapshot, Kinds
<1>7. CASE UNCHANGED vars
  BY <1>7 DEF vars, Shape
<1> QED BY <1>1, <1>2, <1>3, <1>4, <1>5, <1>6, <1>7 DEF TwinNext

-----------------------------------------------------------------------------
\* An event between two typed snapshots is typed.
LEMMA TraceType ==
    ASSUME TypeOK, Shape, artifacts' \in Artifacts, revision' \in Nat
    PROVE  trace' \in Seq(Events)
<1>1. Snapshot \in Snapshots /\ Snapshot' \in Snapshots
  BY DEF TypeOK, Snapshot, Snapshots
<1>2. trace \in Seq(Events)
  BY DEF TypeOK
<1>3. ASSUME NEW kind \in Kinds
      PROVE  [kind |-> kind, before |-> Snapshot, after |-> Snapshot'] \in Events
  BY <1>1, <1>3 DEF Events
<1>4. CASE UNCHANGED trace
  BY <1>2, <1>4
<1>5. ASSUME NEW kind \in Kinds,
             trace' = Append(trace, [kind |-> kind, before |-> Snapshot, after |-> Snapshot'])
      PROVE  trace' \in Seq(Events)
  <2> DEFINE e == [kind |-> kind, before |-> Snapshot, after |-> Snapshot']
  <2>1. e \in Events /\ trace' = Append(trace, e)
    BY <1>3, <1>5
  <2> HIDE DEF e
  <2> QED BY <1>2, <2>1
<1> QED BY <1>4, <1>5 DEF Shape

\* Type correctness is preserved by every step.
LEMMA TypeStep ==
    ASSUME TypeOK, [TwinNext]_vars PROVE TypeOK'
<1>0. Shape
  BY StepShape
<1>1. ASSUME NEW a \in ArtifactIds, NEW content \in Contents, StageInput(a, content)
      PROVE  TypeOK'
  <2>1. [mutability |-> "immutable", content |-> content] \in Records
    BY <1>1 DEF Records
  <2>2. artifacts' \in Artifacts /\ revision' \in Nat
    BY <1>1, <2>1 DEF StageInput, TypeOK, Artifacts
  <2>3. trace' \in Seq(Events)
    BY <1>0, <2>2, TraceType
  <2> QED BY <1>1, <2>2, <2>3 DEF StageInput, TypeOK
<1>2. ASSUME NEW op, Submitted(op), ApplyOperation(op) PROVE TypeOK'
  <2> DEFINE outcome == Outcome(op, artifacts)
  <2>1. Commit(op, outcome) /\ op.commands \in Seq(Commands)
    BY <1>2 DEF ApplyOperation, Submitted
  <2>2. artifacts' \in Artifacts /\ revision' \in Nat
    BY <2>1, CommitType DEF TypeOK
  <2>3. trace' \in Seq(Events)
    BY <1>0, <2>2, TraceType
  <2>4. op.id \in OperationIds /\ outcome \in Outcomes
    BY <1>2, OutcomeType DEF Submitted
  <2>5. journal' = Append(journal, [kind |-> "operation", subject |-> op.id, outcome |-> outcome])
    BY <1>2 DEF ApplyOperation
  <2>6. operationIds' = operationIds \cup {op.id} /\ UNCHANGED <<checkpoints, rollbackIds, packages>>
    BY <1>2 DEF ApplyOperation, ConsumeOperation
  <2> HIDE DEF outcome
  <2>7. [kind |-> "operation", subject |-> op.id, outcome |-> outcome] \in Receipts
    BY <2>4 DEF Receipts
  <2>8. journal' \in Seq(Receipts)
    BY <2>5, <2>7 DEF TypeOK
  <2> QED BY <2>2, <2>3, <2>4, <2>6, <2>8 DEF TypeOK
<1>3. ASSUME NEW c \in CheckpointIds, CreateCheckpoint(c) PROVE TypeOK'
  <2>1. Snapshot \in Snapshots
    BY DEF TypeOK, Snapshot, Snapshots
  <2>2. artifacts' \in Artifacts /\ revision' \in Nat
    BY <1>3 DEF CreateCheckpoint, TypeOK
  <2>3. trace' \in Seq(Events)
    BY <1>0, <2>2, TraceType
  <2> QED BY <1>3, <2>1, <2>2, <2>3 DEF CreateCheckpoint, TypeOK
<1>4. ASSUME NEW r \in RollbackIds, NEW c \in CheckpointIds, RollbackUnknown(r, c)
      PROVE  TypeOK'
  BY <1>4 DEF RollbackUnknown, TypeOK
<1>5. ASSUME NEW r \in RollbackIds, NEW c \in CheckpointIds, RollbackToCheckpoint(r, c)
      PROVE  TypeOK'
  <2>1. checkpoints[c] \in Snapshots
    BY <1>5 DEF RollbackToCheckpoint, TypeOK
  <2>2. artifacts' \in Artifacts /\ revision' \in Nat
    BY <1>5, <2>1 DEF RollbackToCheckpoint, RestoredRevision, TypeOK, Snapshots
  <2>3. trace' \in Seq(Events)
    BY <1>0, <2>2, TraceType
  <2>4. [kind |-> "rollback", subject |-> r, checkpoint |-> c] \in Receipts
    BY DEF Receipts
  <2>5. journal' \in Seq(Receipts)
    BY <1>5, <2>4 DEF RollbackToCheckpoint, TypeOK
  <2> QED BY <1>5, <2>2, <2>3, <2>5 DEF RollbackToCheckpoint, TypeOK
<1>6. ASSUME SealFinalState PROVE TypeOK'
  <2> DEFINE p == [snapshot |-> Snapshot, journal |-> Len(journal), trace |-> Len(trace) + 1,
                   inventory |-> ContentsOf(artifacts), blobs |-> SealedBlobs(artifacts)]
  <2>1. ContentsOf(artifacts) \subseteq Contents
    BY DEF ContentsOf, TypeOK, Artifacts, Records
  <2>2. SealedBlobs(artifacts) \subseteq Blobs
    BY <2>1 DEF SealedBlobs, Blobs
  <2>3. Snapshot \in Snapshots /\ Len(journal) \in Nat /\ Len(trace) + 1 \in Nat
    BY DEF TypeOK, Snapshot, Snapshots
  <2>4. p \in Packages
    BY <2>1, <2>2, <2>3 DEF Packages
  <2>5. artifacts' \in Artifacts /\ revision' \in Nat
    BY <1>6 DEF SealFinalState, TypeOK
  <2>6. trace' \in Seq(Events)
    BY <1>0, <2>5, TraceType
  <2>7. packages' = Append(packages, p)
    BY <1>6 DEF SealFinalState
  <2> HIDE DEF p
  <2>8. packages' \in Seq(Packages)
    BY <2>4, <2>7 DEF TypeOK
  <2> QED BY <1>6, <2>5, <2>6, <2>8 DEF SealFinalState, TypeOK
<1>7. CASE UNCHANGED vars
  BY <1>7 DEF vars, TypeOK
<1> QED BY <1>1, <1>2, <1>3, <1>4, <1>5, <1>6, <1>7 DEF TwinNext

-----------------------------------------------------------------------------
\* Revisions in the trace do not exceed the present one, and the present one
\* belongs to the present state.
RevisionsBehind ==
    \A k \in DOMAIN trace :
        /\ trace[k].after.revision <= revision
        /\ trace[k].after.revision = revision => trace[k].after = Snapshot

TraceInv == TypeOK /\ TraceExplainsState /\ RevisionsBehind /\ RevisionNamesState

LEMMA TraceStep ==
    ASSUME TraceInv, TypeOK', Shape PROVE TraceInv'
<1>1. CASE UNCHANGED <<artifacts, revision, trace>>
  BY <1>1 DEF TraceInv, TraceExplainsState, RevisionsBehind, RevisionNamesState, Snapshot
<1>2. ASSUME NEW kind \in Kinds,
             trace' = Append(trace, [kind |-> kind, before |-> Snapshot, after |-> Snapshot']),
             revision' = revision + 1 \/ UNCHANGED <<artifacts, revision>>
      PROVE  TraceInv'
  <2> DEFINE e == [kind |-> kind, before |-> Snapshot, after |-> Snapshot']
  <2>1. /\ trace \in Seq(Events) /\ trace' = Append(trace, e)
        /\ e.before = Snapshot /\ e.after = Snapshot'
        /\ Snapshot.revision = revision /\ Snapshot'.revision = revision'
        /\ revision \in Nat /\ revision' \in Nat
    BY <1>2 DEF TraceInv, TypeOK, Snapshot
  <2>2. \A k \in DOMAIN trace : trace[k].after.revision \in Nat
    <3> SUFFICES ASSUME NEW k \in DOMAIN trace PROVE trace[k].after.revision \in Nat
      OBVIOUS
    <3>1. trace[k] \in Events
      BY <2>1
    <3> QED BY <3>1 DEF Events, Snapshots
  <2>3. Snapshot' = Snapshot \/ revision' = revision + 1
    BY <1>2 DEF Snapshot
  <2> HIDE DEF e
  <2>4. /\ Len(trace') = Len(trace) + 1 /\ Len(trace) \in Nat
        /\ DOMAIN trace' = 1 .. Len(trace) + 1 /\ DOMAIN trace = 1 .. Len(trace)
        /\ trace'[Len(trace) + 1] = e
        /\ \A k \in 1 .. Len(trace) : trace'[k] = trace[k]
    BY <2>1
  <2>5. TraceExplainsState'
    <3>1. Len(trace) # 0 => trace[Len(trace)].after = Snapshot
      BY <2>1 DEF TraceInv, TraceExplainsState
    <3>2. \A k \in 1 .. Len(trace) - 1 : trace[k].after = trace[k + 1].before
      BY DEF TraceInv, TraceExplainsState
    <3>3. \A k \in 1 .. Len(trace') - 1 : trace'[k].after = trace'[k + 1].before
      BY <2>1, <2>4, <3>1, <3>2
    <3>4. trace' # <<>> /\ trace'[Len(trace')].after = Snapshot'
      BY <2>1, <2>4
    <3> QED BY <3>3, <3>4 DEF TraceExplainsState
  <2>6. RevisionsBehind'
    <3>1. \A k \in DOMAIN trace : trace[k].after.revision <= revision
                  /\ (trace[k].after.revision = revision => trace[k].after = Snapshot)
      BY DEF TraceInv, RevisionsBehind
    <3>2. \A k \in DOMAIN trace' : trace'[k].after.revision <= revision'
                  /\ (trace'[k].after.revision = revision' => trace'[k].after = Snapshot')
      BY <2>1, <2>2, <2>3, <2>4, <3>1
    <3> QED BY <3>2 DEF RevisionsBehind
  <2>7. RevisionNamesState'
    <3>1. \A k \in DOMAIN trace : trace'[k].after.revision = e.after.revision
                                      => trace'[k].after = e.after
      BY <2>1, <2>4, <2>6 DEF RevisionsBehind
    <3>2. \A j, k \in DOMAIN trace : trace'[j].after.revision = trace'[k].after.revision
                                         => trace'[j].after = trace'[k].after
      BY <2>4 DEF TraceInv, RevisionNamesState
    <3>3. \A j \in DOMAIN trace' : j \in DOMAIN trace \/ trace'[j] = e
      BY <2>4
    <3> QED BY <3>1, <3>2, <3>3 DEF RevisionNamesState
  <2> QED BY <2>5, <2>6, <2>7 DEF TraceInv
<1> QED BY <1>1, <1>2 DEF Shape

\* Type correctness, the trace chain and the revisions hold in every history.
THEOREM TraceInvariant == RehearsalSpec => []TraceInv
<1>1. Init => TraceInv
  <2> SUFFICES ASSUME Init PROVE TraceInv
    OBVIOUS
  <2>1. TypeOK
    BY DEF Init, TypeOK, Artifacts
  <2>2. trace = <<>> /\ Len(trace) = 0 /\ DOMAIN trace = {}
    BY DEF Init
  <2>3. TraceExplainsState
    BY <2>2 DEF Init, TraceExplainsState, Snapshot
  <2> QED BY <2>1, <2>2, <2>3 DEF TraceInv, RevisionsBehind, RevisionNamesState
<1>2. TraceInv /\ [TwinNext]_vars => TraceInv'
  BY StepShape, TypeStep, TraceStep DEF TraceInv
<1> QED BY <1>1, <1>2, TwinBehaviour, PTL

\* The state of the workspace has its type after every history.
THEOREM TypeCorrect == RehearsalSpec => []TypeOK
<1>1. TraceInv => TypeOK
  BY DEF TraceInv
<1> QED BY <1>1, TraceInvariant, PTL

\* push_trace is called for every change, with the snapshots around it: the
\* trace explains the workspace.
THEOREM TraceExplains == RehearsalSpec => []TraceExplainsState
<1>1. TraceInv => TraceExplainsState
  BY DEF TraceInv
<1> QED BY <1>1, TraceInvariant, PTL

\* One revision names one state, across operations and rollbacks.
THEOREM RevisionsNameStates == RehearsalSpec => []RevisionNamesState
<1>1. TraceInv => RevisionNamesState
  BY DEF TraceInv
<1> QED BY <1>1, TraceInvariant, PTL

-----------------------------------------------------------------------------
\* The ids in the journal have been used up.
ReceiptInv ==
    /\ TypeOK /\ OneReceipt
    /\ \A k \in DOMAIN journal :
           journal[k].subject \in IF journal[k].kind = "operation" THEN operationIds
                                  ELSE rollbackIds

\* Appending the receipt of an id that was not used before.
LEMMA FreshReceipt ==
    ASSUME ReceiptInv, TypeOK', NEW e, e.kind \in {"operation", "rollback"},
           journal' = Append(journal, e),
           operationIds \subseteq operationIds', rollbackIds \subseteq rollbackIds',
           e.kind = "operation" => e.subject \in operationIds' \ operationIds,
           e.kind = "rollback" => e.subject \in rollbackIds' \ rollbackIds
    PROVE  ReceiptInv'
<1>1. journal \in Seq(Receipts)
  BY DEF ReceiptInv, TypeOK
<1>2. /\ DOMAIN journal = 1 .. Len(journal) /\ DOMAIN journal' = 1 .. Len(journal) + 1
      /\ Len(journal) \in Nat /\ journal'[Len(journal) + 1] = e
      /\ \A k \in 1 .. Len(journal) : journal'[k] = journal[k]
  BY <1>1
<1>3. \A k \in DOMAIN journal' : (k \in DOMAIN journal /\ journal'[k] = journal[k])
                                     \/ (k = Len(journal) + 1 /\ journal'[k] = e)
  BY <1>2
<1>4. \A k \in DOMAIN journal : journal[k].subject \in
          IF journal[k].kind = "operation" THEN operationIds ELSE rollbackIds
  BY DEF ReceiptInv
<1>5. \A k \in DOMAIN journal' : journal'[k].subject \in
          IF journal'[k].kind = "operation" THEN operationIds' ELSE rollbackIds'
  BY <1>3, <1>4
<1>6. \A k \in DOMAIN journal : journal[k].kind = e.kind => journal[k].subject # e.subject
  BY <1>4
<1>7. OneReceipt'
  BY <1>3, <1>6 DEF ReceiptInv, OneReceipt
<1> QED BY <1>5, <1>7 DEF ReceiptInv

\* No operation and no rollback gets a second receipt (apply_operation uses
\* the id up first, whatever the outcome).
THEOREM ReceiptsUnique == RehearsalSpec => []OneReceipt
<1>1. Init => ReceiptInv
  <2> SUFFICES ASSUME Init PROVE ReceiptInv
    OBVIOUS
  <2>1. TypeOK
    BY DEF Init, TypeOK, Artifacts
  <2>2. DOMAIN journal = {}
    BY DEF Init
  <2> QED BY <2>1, <2>2 DEF ReceiptInv, OneReceipt
<1>2. ReceiptInv /\ [TwinNext]_vars => ReceiptInv'
  <2> SUFFICES ASSUME ReceiptInv, [TwinNext]_vars PROVE ReceiptInv'
    OBVIOUS
  <2>0. TypeOK'
    BY TypeStep DEF ReceiptInv
  <2>1. CASE UNCHANGED <<journal, operationIds, rollbackIds>>
    BY <2>0, <2>1 DEF ReceiptInv, OneReceipt
  <2>2. ASSUME NEW op, Submitted(op), ApplyOperation(op) PROVE ReceiptInv'
    <3> DEFINE e == [kind |-> "operation", subject |-> op.id,
                     outcome |-> Outcome(op, artifacts)]
    <3>1. /\ op.id \notin operationIds /\ operationIds' = operationIds \cup {op.id}
          /\ journal' = Append(journal, e) /\ rollbackIds' = rollbackIds
      BY <2>2 DEF ApplyOperation, ConsumeOperation
    <3>2. e.kind = "operation" /\ e.subject = op.id
      OBVIOUS
    <3> HIDE DEF e
    <3> QED BY <2>0, <3>1, <3>2, FreshReceipt
  <2>3. ASSUME NEW r \in RollbackIds, NEW c \in CheckpointIds, RollbackUnknown(r, c)
        PROVE  ReceiptInv'
    BY <2>0, <2>3 DEF RollbackUnknown, ReceiptInv, OneReceipt
  <2>4. ASSUME NEW r \in RollbackIds, NEW c \in CheckpointIds, RollbackToCheckpoint(r, c)
        PROVE  ReceiptInv'
    <3> DEFINE e == [kind |-> "rollback", subject |-> r, checkpoint |-> c]
    <3>1. /\ r \notin rollbackIds /\ rollbackIds' = rollbackIds \cup {r}
          /\ journal' = Append(journal, e) /\ operationIds' = operationIds
      BY <2>4 DEF RollbackToCheckpoint
    <3>2. e.kind = "rollback" /\ e.subject = r
      OBVIOUS
    <3> HIDE DEF e
    <3> QED BY <2>0, <3>1, <3>2, FreshReceipt
  <2> QED BY <2>1, <2>2, <2>3, <2>4
          DEF TwinNext, vars, StageInput, CreateCheckpoint, SealFinalState
<1>3. ReceiptInv => OneReceipt
  BY DEF ReceiptInv
<1> QED BY <1>1, <1>2, <1>3, TwinBehaviour, PTL

\* prepare_commands rejects every command on an immutable artifact, so only a
\* rollback takes a staged input away.
THEOREM InputsAreKept == RehearsalSpec => InputsKept
<1> DEFINE Kept == \A a \in ArtifactIds :
        (artifacts[a] # Absent /\ artifacts[a].mutability = "immutable"
            /\ artifacts'[a] # artifacts[a]) => rollbackIds' # rollbackIds
<1>1. TypeOK /\ [TwinNext]_vars => [Kept]_vars
  <2> SUFFICES ASSUME TypeOK, [TwinNext]_vars, NEW b \in ArtifactIds, artifacts[b] # Absent,
                      artifacts[b].mutability = "immutable", artifacts'[b] # artifacts[b]
               PROVE  rollbackIds' # rollbackIds
    OBVIOUS
  <2>1. ASSUME NEW a \in ArtifactIds, NEW content \in Contents, StageInput(a, content)
        PROVE  FALSE
    BY <2>1 DEF StageInput, TypeOK, Artifacts
  <2>2. ASSUME NEW op, Submitted(op), ApplyOperation(op) PROVE FALSE
    <3>1. artifacts' = Candidate(op, artifacts) /\ Prepared(op, artifacts)
      BY <2>2 DEF ApplyOperation, Commit, Outcome
    <3>2. PICK k \in DOMAIN op.commands : op.commands[k].artifact = b
      BY <3>1 DEF Candidate
    <3> QED BY <3>1, <3>2 DEF Prepared, CommandPrepared
  <2>3. ASSUME NEW r \in RollbackIds, NEW c \in CheckpointIds,
               RollbackUnknown(r, c) \/ RollbackToCheckpoint(r, c)
        PROVE  rollbackIds' # rollbackIds
    BY <2>3 DEF RollbackUnknown, RollbackToCheckpoint
  <2> QED BY <2>1, <2>2, <2>3 DEF TwinNext, vars, CreateCheckpoint, SealFinalState
<1> QED BY <1>1, TypeCorrect, TwinBehaviour, PTL DEF InputsKept

-----------------------------------------------------------------------------
\* What seal_final_state puts into a package, and where its trace stands.
SealedPackage(p) ==
    /\ p \in Packages
    /\ p.inventory = ContentsOf(p.snapshot.artifacts)
    /\ p.blobs = SealedBlobs(p.snapshot.artifacts)
    /\ p.trace \in DOMAIN trace
    /\ trace[p.trace].kind = "sealed"
    /\ trace[p.trace].after = p.snapshot

PackagesSealed == \A n \in DOMAIN packages : SealedPackage(packages[n])

\* The trace only grows, so a package keeps its place in it.
LEMMA SealedKept ==
    ASSUME trace \in Seq(Events), Shape, NEW p, SealedPackage(p)
    PROVE  SealedPackage(p)'
<1>1. CASE UNCHANGED trace
  BY <1>1 DEF SealedPackage
<1>2. ASSUME NEW e, trace' = Append(trace, e) PROVE SealedPackage(p)'
  <2>1. \A k \in DOMAIN trace : k \in DOMAIN trace' /\ trace'[k] = trace[k]
    BY <1>2
  <2> QED BY <2>1 DEF SealedPackage
<1> QED BY <1>1, <1>2 DEF Shape

LEMMA SealedStep ==
    ASSUME TypeOK, TypeOK', PackagesSealed, [TwinNext]_vars PROVE PackagesSealed'
<1>1. Shape /\ trace \in Seq(Events) /\ packages \in Seq(Packages)
  BY StepShape DEF TypeOK
<1>2. CASE UNCHANGED packages
  BY <1>1, <1>2, SealedKept DEF PackagesSealed
<1>3. CASE SealFinalState
  <2> DEFINE p == [snapshot |-> Snapshot, journal |-> Len(journal), trace |-> Len(trace) + 1,
                   inventory |-> ContentsOf(artifacts), blobs |-> SealedBlobs(artifacts)]
             e == [kind |-> "sealed", before |-> Snapshot, after |-> Snapshot]
  <2>1. packages' = Append(packages, p) /\ trace' = Append(trace, e)
    BY <1>3 DEF SealFinalState, PushTrace, Snapshot
  <2>2. /\ p.inventory = ContentsOf(p.snapshot.artifacts)
        /\ p.blobs = SealedBlobs(p.snapshot.artifacts)
        /\ p.trace = Len(trace) + 1 /\ p.snapshot = Snapshot
        /\ e.kind = "sealed" /\ e.after = Snapshot
    BY DEF Snapshot
  <2>3. PICK q : q = p
    OBVIOUS
  <2>4. PICK f : f = e
    OBVIOUS
  <2> HIDE DEF p, e
  <2>5. trace'[Len(trace) + 1] = f /\ Len(trace) + 1 \in DOMAIN trace'
    BY <1>1, <2>1, <2>4
  <2>6. q \in Packages
    <3>1. packages' \in Seq(Packages) /\ Len(packages) + 1 \in DOMAIN packages'
          /\ packages'[Len(packages) + 1] = q
      BY <1>1, <2>1, <2>3 DEF TypeOK
    <3> QED BY <3>1
  <2>7. SealedPackage(q)'
    BY <2>2, <2>3, <2>4, <2>5, <2>6 DEF SealedPackage
  <2>8. \A n \in DOMAIN packages' : packages'[n] = q \/ (n \in DOMAIN packages /\ packages'[n] = packages[n])
    BY <1>1, <2>1, <2>3
  <2>9. \A n \in DOMAIN packages : SealedPackage(packages[n])'
    <3> SUFFICES ASSUME NEW n \in DOMAIN packages PROVE SealedPackage(packages[n])'
      OBVIOUS
    <3>1. PICK r : r = packages[n]
      OBVIOUS
    <3>2. SealedPackage(r)'
      BY <1>1, <3>1, SealedKept DEF PackagesSealed
    <3>3. packages'[n] = r
      BY <1>1, <2>1, <3>1
    <3> QED BY <3>2, <3>3 DEF SealedPackage
  <2> QED BY <2>7, <2>8, <2>9 DEF PackagesSealed
<1> QED BY <1>2, <1>3 DEF TwinNext, vars, StageInput, ApplyOperation, CreateCheckpoint,
                          RollbackUnknown, RollbackToCheckpoint

\* A package is reproduced from its blobs alone, whatever became of them, exactly when
\* every content its snapshot names is filed under its digest.
LEMMA Reproduces ==
    ASSUME NEW p, p \in Packages, p.inventory = ContentsOf(p.snapshot.artifacts),
           NEW bs, NEW q, q = [p EXCEPT !.blobs = bs], Reproducible(q), NEW a \in ArtifactIds
    PROVE  Reproduced(q, a) = IF p.snapshot.artifacts[a] = Absent THEN Absent
                              ELSE p.snapshot.artifacts[a].content
<1>1. q.snapshot = p.snapshot /\ q.inventory = p.inventory /\ q.blobs = bs
  BY DEF Packages
<1>2. CASE p.snapshot.artifacts[a] = Absent
  BY <1>1, <1>2 DEF Reproduced
<1>3. CASE p.snapshot.artifacts[a] # Absent
  <2> DEFINE c == p.snapshot.artifacts[a].content
  <2>1. c \in ContentsOf(p.snapshot.artifacts)
    BY <1>3 DEF ContentsOf
  <2>2. \E b \in q.blobs : b.digest = c
    BY <1>1, <2>1 DEF Reproducible
  <2>3. PICK b : b = CHOOSE d \in q.blobs : d.digest = c
    OBVIOUS
  <2>4. b \in q.blobs /\ b.digest = c
    BY <2>2, <2>3
  <2>5. b.content = c
    BY <2>4 DEF Reproducible, BlobIntact
  <2> QED BY <1>1, <1>3, <2>3, <2>5 DEF Reproduced
<1> QED BY <1>2, <1>3

LEMMA SealedIsReproducible ==
    ASSUME NEW p, p.inventory = ContentsOf(p.snapshot.artifacts),
           p.blobs = SealedBlobs(p.snapshot.artifacts)
    PROVE  Reproducible(p)
<1>1. \A b \in p.blobs : \E c \in p.inventory : b = [digest |-> c, content |-> c]
  BY DEF SealedBlobs
<1>2. \A c \in p.inventory : \E b \in p.blobs : b.digest = c
  <2> SUFFICES ASSUME NEW c \in p.inventory PROVE \E b \in p.blobs : b.digest = c
    OBVIOUS
  <2>1. [digest |-> c, content |-> c] \in p.blobs
    BY DEF SealedBlobs
  <2>2. [digest |-> c, content |-> c].digest = c
    OBVIOUS
  <2> QED BY <2>1, <2>2
<1>3. \A b \in p.blobs : b.content = b.digest /\ b.digest \in p.inventory
  BY <1>1
<1>4. \A b, d \in p.blobs : b.digest = d.digest => b = d
  BY <1>1
<1>5. {b.digest : b \in p.blobs} = p.inventory
  BY <1>2, <1>3
<1> QED BY <1>3, <1>4, <1>5 DEF Reproducible, BlobIntact

\* Every package seal_final_state has handed out is reproduced by
\* reproduce_final_workspace from itself alone, with the state the trace shows at its
\* sealing; and whichever blobs it arrives with, it is refused or gives that state.
THEOREM SealedAlwaysReproduces == RehearsalSpec => []SealedReproduces
<1>1. Init => PackagesSealed
  BY DEF Init, PackagesSealed
<1>2. TypeOK /\ TypeOK' /\ PackagesSealed /\ [TwinNext]_vars => PackagesSealed'
  BY SealedStep
<1>3. PackagesSealed => SealedReproduces
  <2> SUFFICES ASSUME PackagesSealed, NEW n \in DOMAIN packages
               PROVE  /\ Reproducible(packages[n]) /\ trace[packages[n].trace].kind = "sealed"
                      /\ \A q \in {[packages[n] EXCEPT !.blobs = bs] : bs \in SUBSET Blobs} :
                           Reproducible(q) => \A a \in ArtifactIds :
                             Reproduced(q, a)
                               = IF trace[packages[n].trace].after.artifacts[a] = Absent THEN Absent
                                 ELSE trace[packages[n].trace].after.artifacts[a].content
    BY Zenon DEF SealedReproduces
  <2>1. PICK p : p = packages[n]
    OBVIOUS
  <2>2. SealedPackage(p)
    BY <2>1 DEF PackagesSealed
  <2>3. Reproducible(p) /\ trace[p.trace].kind = "sealed"
    BY <2>2, SealedIsReproducible DEF SealedPackage
  <2>4. ASSUME NEW q \in {[p EXCEPT !.blobs = bs] : bs \in SUBSET Blobs}, Reproducible(q),
               NEW a \in ArtifactIds
        PROVE  Reproduced(q, a) = IF trace[p.trace].after.artifacts[a] = Absent THEN Absent
                                  ELSE trace[p.trace].after.artifacts[a].content
    <3>1. PICK bs \in SUBSET Blobs : q = [p EXCEPT !.blobs = bs]
      OBVIOUS
    <3>2. Reproduced(q, a) = IF p.snapshot.artifacts[a] = Absent THEN Absent
                              ELSE p.snapshot.artifacts[a].content
      BY <2>2, <2>4, <3>1, Reproduces DEF SealedPackage
    <3> QED BY <2>2, <3>2 DEF SealedPackage
  <2> QED BY <2>1, <2>3, <2>4
<1> QED BY <1>1, <1>2, <1>3, TypeCorrect, TwinBehaviour, PTL
=============================================================================
