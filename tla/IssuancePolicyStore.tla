------------------------ MODULE IssuancePolicyStore ------------------------
(***************************************************************************)
(* The durable issuance policy of the production backend.                  *)
(*                                                                         *)
(* An authority (one per job, crates/production-execution-authority-       *)
(* runtime; or the capability authority of crates/backend-issuance-        *)
(* runtime/src/persistent.rs) owns an in-memory BackendIssuancePolicy and  *)
(* a BackendIssuancePolicyStore handle.  All handles open the same store   *)
(* root, a directory of immutable records chained by digest.  To issue, an *)
(* authority reserves and consumes the intent in memory, publishes a new   *)
(* record (pending file, hard link, remove the pending file), and only     *)
(* then calls the signer.                                                  *)
(*                                                                         *)
(* Data abstraction.  A policy is the set of intents it has consumed: in   *)
(* this path authorize and consume run back to back, so pending is empty   *)
(* whenever a record is written, and the authorization id is a digest over *)
(* the intent, so consumed and authorized_intents grow together.  A record *)
(* is the sequence of policies it chains over, root first: its digest      *)
(* covers its policy and the previous digest, so two records have equal    *)
(* digests exactly when these sequences are equal.  File names are made of *)
(* revision and digest, so they too are identified with the sequence.      *)
(***************************************************************************)
EXTENDS Naturals, Sequences, FiniteSets

CONSTANTS
    Authority,     \* handles on the store: one per job of a running backend
    Process,       \* backend processes
    host,          \* the process an authority lives in
    Intent,        \* (approval, kind, draft) scopes an authority may ask for
    None,          \* no store is loaded; no intent is being issued
    MaxRecords,    \* MAX_POLICY_STATE_RECORDS
    MaxFaults      \* bound: crashes and I/O errors of a behaviour

ASSUME HostAssumption == host \in [Authority -> Process]
ASSUME BoundsAssumption == MaxRecords \in Nat \ {0} /\ MaxFaults \in Nat
ASSUME NoneAssumption == None \notin Intent

VARIABLES
    published,     \* records in the root under their final name
    temps,         \* pending files in the root
    current,       \* BackendIssuancePolicyStore.current of each authority
    policy,        \* the in-memory BackendIssuancePolicy of each authority
    op,            \* the call in progress in each authority
    signed,        \* how often the signer was asked for each intent
    faults         \* crashes and I/O errors so far

vars == <<published, temps, current, policy, op, signed, faults>>

Record == Seq(SUBSET Intent) \ {<<>>}
PolicyOf(s) == s[Len(s)]

\* BackendIssuancePolicyState::initial: revision 0, no previous, all empty.
InitialState == <<{}>>

\* BackendIssuancePolicyState::from_policy with revision + 1 and the digest of
\* the current record as previous.
NextState(s, p) == Append(s, p)

Pc == {"idle", "scan", "create", "link", "remove", "sign"}
Idle == [pc |-> "idle", intent |-> None, target |-> InitialState]

-----------------------------------------------------------------------------
(* scan_policy_chain. *)

HasRoot(P) == InitialState \in P

\* Some record has two published successors: DivergentHistory.
Divergent(P) ==
    \E s, t \in P : /\ s # t
                    /\ Len(s) > 1
                    /\ Len(t) > 1
                    /\ SubSeq(s, 1, Len(s) - 1) = SubSeq(t, 1, Len(t) - 1)

\* A record whose predecessor is not published is never reached: OrphanedHistory.
Orphaned(P) ==
    \E s \in P : Len(s) > 1 /\ SubSeq(s, 1, Len(s) - 1) \notin P

TooMany(P) == Cardinality(P) > MaxRecords

\* The scan succeeds: at most MaxRecords records, forming one chain.
Readable(P) ==
    /\ ~TooMany(P)
    /\ P # {} => HasRoot(P) /\ ~Divergent(P) /\ ~Orphaned(P)

\* s is the record the walk from the root ends with.
IsTip(s, P) == s \in P /\ \A t \in P : Len(t) <= Len(s)

-----------------------------------------------------------------------------
Init ==
    /\ published = {}
    /\ temps = {}
    /\ current = [a \in Authority |-> None]
    /\ policy = [a \in Authority |-> {}]
    /\ op = [a \in Authority |-> Idle]
    /\ signed = [i \in Intent |-> 0]
    /\ faults = 0

\* One mutex per process guards all its authorities (ProductionExecutionState.inner).
MutexFree(a) == \A b \in Authority : host[b] = host[a] => op[b].pc = "idle"

Goto(a, pc) == op' = [op EXCEPT ![a].pc = pc]
Return(a) == op' = [op EXCEPT ![a] = Idle]

\* load_or_create on a store that already has a chain.
LoadExisting(a) ==
    /\ current[a] = None
    /\ MutexFree(a)
    /\ published # {}
    /\ Readable(published)
    /\ \E s \in published :
          /\ IsTip(s, published)
          /\ current' = [current EXCEPT ![a] = s]
          /\ policy' = [policy EXCEPT ![a] = PolicyOf(s)]
    /\ UNCHANGED <<published, temps, op, signed, faults>>

\* load_or_create on an empty store: write the initial record.
LoadEmpty(a) ==
    /\ current[a] = None
    /\ MutexFree(a)
    /\ published = {}
    /\ op' = [op EXCEPT ![a] = [pc |-> "create", intent |-> None,
                                target |-> InitialState]]
    /\ UNCHANGED <<published, temps, current, policy, signed, faults>>

\* Mutant: authorized_intents is not consulted.
Authorize_NoReplayGuard(a, i) ==
    /\ current[a] # None
    /\ MutexFree(a)
    /\ policy' = [policy EXCEPT ![a] = @ \cup {i}]
    /\ op' = [op EXCEPT ![a] = [pc |-> "scan", intent |-> i, target |-> InitialState]]
    /\ UNCHANGED <<published, temps, current, signed, faults>>

\* issue_capability / issue_attestation up to the commit: register_authorization
\* refuses an intent that is in authorized_intents, otherwise the intent is
\* reserved and its authorization consumed, in memory.
Authorize(a, i) ==
    /\ current[a] # None
    /\ MutexFree(a)
    /\ i \notin policy[a]
    /\ policy' = [policy EXCEPT ![a] = @ \cup {i}]
    /\ op' = [op EXCEPT ![a] = [pc |-> "scan", intent |-> i, target |-> InitialState]]
    /\ UNCHANGED <<published, temps, current, signed, faults>>

\* Mutant: the signer is called before the record is written.
CommitScan_SignFirst(a) ==
    /\ op[a].pc = "scan"
    /\ Readable(published)
    /\ IsTip(current[a], published)
    /\ op' = [op EXCEPT ![a].pc = "sign"]
    /\ UNCHANGED <<published, temps, current, policy, signed, faults>>

\* commit: the tip on disk must be the record this handle holds.
CommitScan(a) ==
    /\ op[a].pc = "scan"
    /\ Readable(published)
    /\ IsTip(current[a], published)
    /\ op' = [op EXCEPT ![a].pc = "create",
                        ![a].target = NextState(current[a], policy[a])]
    /\ UNCHANGED <<published, temps, current, policy, signed, faults>>

\* commit: unreadable chain, or ConcurrentMutation.  The in-memory reservation stays.
CommitScanFails(a) ==
    /\ op[a].pc = "scan"
    /\ ~(Readable(published) /\ IsTip(current[a], published))
    /\ Return(a)
    /\ UNCHANGED <<published, temps, current, policy, signed, faults>>

\* write_policy_state: open the pending file with create_new.  The test that the final
\* name is free comes just before; another process may publish it in between, so a
\* published target does not disable this step.
CreatePending(a) ==
    /\ op[a].pc = "create"
    /\ op[a].target \notin temps
    /\ temps' = temps \cup {op[a].target}
    /\ Goto(a, "link")
    /\ UNCHANGED <<published, current, policy, signed, faults>>

\* write_policy_state meets a name that is taken: the final (StateAlreadyExists) or
\* the pending one before it creates the pending file; the final one, published by
\* another process since, when it links, and then the pending file is removed.
NameTaken(a) ==
    /\ op[a].pc \in {"create", "link"}
    /\ op[a].target \in IF op[a].pc = "create" THEN published \cup temps ELSE published
    /\ temps' = IF op[a].pc = "create" THEN temps ELSE temps \ {op[a].target}
    /\ Return(a)
    /\ UNCHANGED <<published, current, policy, signed, faults>>

\* Mutant: the new record replaces the one it follows.
Publish_Replaces(a) ==
    /\ op[a].pc = "link"
    /\ op[a].target \notin published
    /\ published' = (published \ {current[a]}) \cup {op[a].target}
    /\ op' = [op EXCEPT ![a].pc = "remove"]
    /\ UNCHANGED <<temps, current, policy, signed, faults>>

\* write_policy_state: hard_link publishes the record under its final name.
Publish(a) ==
    /\ op[a].pc = "link"
    /\ op[a].target \notin published
    /\ published' = published \cup {op[a].target}
    /\ Goto(a, "remove")
    /\ UNCHANGED <<temps, current, policy, signed, faults>>

\* write_policy_state removes the pending file; the handle takes the new record.
\* After the initial record load_or_create returns, after a commit the signer is next.
RemovePending(a) ==
    /\ op[a].pc = "remove"
    /\ temps' = temps \ {op[a].target}
    /\ current' = [current EXCEPT ![a] = op[a].target]
    /\ policy' = IF op[a].intent = None
                 THEN [policy EXCEPT ![a] = PolicyOf(op[a].target)]
                 ELSE policy
    /\ IF op[a].intent = None THEN Return(a) ELSE Goto(a, "sign")
    /\ UNCHANGED <<published, signed, faults>>

\* The signer side effect.  Its answer, token or rejection, changes nothing here.
Sign(a) ==
    /\ op[a].pc = "sign"
    /\ signed' = [signed EXCEPT ![op[a].intent] = @ + 1]
    /\ Return(a)
    /\ UNCHANGED <<published, temps, current, policy, faults>>

\* An I/O error of the scan or the write: an error while writing the pending file
\* leaves it behind, a failed hard link removes it (if it can), and a failed
\* removal leaves the record published although the call returns an error.
IoError(a) ==
    /\ faults < MaxFaults
    /\ faults' = faults + 1
    /\ op[a].pc \in {"scan", "create", "link", "remove"}
    /\ \/ temps' = temps
       \/ op[a].pc = "link" /\ temps' = temps \ {op[a].target}
    /\ Return(a)
    /\ UNCHANGED <<published, current, policy, signed>>

\* A process dies: everything in memory is gone, the directory stays.
Crash(p) ==
    /\ faults < MaxFaults
    /\ faults' = faults + 1
    /\ current' = [a \in Authority |-> IF host[a] = p THEN None ELSE current[a]]
    /\ policy' = [a \in Authority |-> IF host[a] = p THEN {} ELSE policy[a]]
    /\ op' = [a \in Authority |-> IF host[a] = p THEN Idle ELSE op[a]]
    /\ UNCHANGED <<published, temps, signed>>

Step(a) ==
    \/ CommitScan(a)
    \/ CommitScanFails(a)
    \/ CreatePending(a)
    \/ NameTaken(a)
    \/ Publish(a)
    \/ RemovePending(a)
    \/ Sign(a)

Load(a) == LoadExisting(a) \/ LoadEmpty(a)

Next ==
    \/ \E a \in Authority :
          \/ Load(a)
          \/ \E i \in Intent : Authorize(a, i)
          \/ Step(a)
          \/ IoError(a)
    \/ \E p \in Process : Crash(p)

Spec == Init /\ [][Next]_vars

-----------------------------------------------------------------------------
TypeOK ==
    /\ published \subseteq Record
    /\ temps \subseteq Record
    /\ current \in [Authority -> Record \cup {None}]
    /\ policy \in [Authority -> SUBSET Intent]
    /\ op \in [Authority -> [pc : Pc, intent : Intent \cup {None}, target : Record]]
    /\ signed \in [Intent -> Nat]
    /\ faults \in 0 .. MaxFaults

Durable(i) == \E s \in published : i \in PolicyOf(s)

\* The consumption of an intent is on disk before the signer is asked for it
\* (persistent.rs: "Persist the consumed authorization and intent reservation
\* before the signer side effect"), so no crash can lose the fact.
SignedIsDurable == \A i \in Intent : signed[i] > 0 => Durable(i)

\* However authorities, I/O errors, crashes and restarts interleave, the signer is
\* asked at most once for an intent ("cannot be replayed after a restart").
SignedAtMostOnce == \A i \in Intent : signed[i] <= 1

\* commit never publishes two successors of one record: the scan's
\* DivergentHistory and OrphanedHistory answers are never reached.
LinearHistory ==
    /\ ~Divergent(published)
    /\ ~Orphaned(published)

\* Along the published chain policies only grow: a later record never forgets an
\* intent an earlier one consumed, although each record is a whole policy taken
\* from the memory of whichever authority committed it.
HistoryKeepsIntents ==
    \A s, t \in published : Len(s) <= Len(t) => PolicyOf(s) \subseteq PolicyOf(t)

\* An authority whose handle is behind the disk never reaches the signer: it asks
\* only right after its own record became the tip (ConcurrentMutation otherwise).
OnlyTipSigns ==
    [][\A a \in Authority : Sign(a) => IsTip(current[a], published)]_vars

\* Once the store has its root record, every authority of a restarted backend gets
\* its handle back: neither abandoned pending files nor half-finished calls of other
\* authorities keep load_or_create from succeeding.
RestartLoads ==
    \A a \in Authority :
        published # {} /\ current[a] = None ~> current[a] # None

\* The durable intents and the signer calls, seen without disk and processes.
Consumed == UNION {PolicyOf(s) : s \in published}

Abstract == INSTANCE AtMostOnceIssuance WITH consumed <- Consumed, asked <- signed

\* One backend process implements the promise of AtMostOnceIssuance: every step of
\* the store, its failures and its crashes is a consumption, a first signer call for
\* a consumed intent, or invisible.
ImplementsAtMostOnce == Abstract!Spec

-----------------------------------------------------------------------------
\* The finite instance: one backend process has every authority on the store root.
OneProcess == [a \in Authority |-> CHOOSE p \in Process : TRUE]
=============================================================================
