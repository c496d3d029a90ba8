-------------------------- MODULE TrustStateStore --------------------------
(***************************************************************************)
(* The persisted production trust state                                    *)
(* (windows-production-trust-state-runtime): administrators bootstrap,     *)
(* activate and recover signed trust states in memory and persist them as  *)
(* immutable state and recovery files followed by the replacement of one   *)
(* pointer; administrators and signer services load the accepted state     *)
(* from the same directory at any time.                                    *)
(*                                                                         *)
(* A state or recovery that exists here is correctly signed and well       *)
(* formed; its digest is its id.  The three revisions a state may not      *)
(* lower (registry, caller allowlist, service policy) are one "level".     *)
(***************************************************************************)
EXTENDS Naturals, FiniteSets

CONSTANTS States,          \* signed trust states
          Recoveries,      \* signed recovery authorizations
          Genesis,         \* the state of the offline bootstrap expectation
          Administrators,  \* processes that activate trust states
          Services,        \* processes that only load the accepted state
          MaxTime,         \* bound on the clock
          MaxFaults,       \* bound on crashes and I/O errors
          None

Processes == Administrators \cup Services

Times == 0 .. MaxTime

\* ProductionTrustStateBody::validate_shape
StateShape(s) ==
    /\ s.revision \in Nat \ {0} /\ s.minimum \in 1 .. s.revision
    /\ s.level \in Nat \ {0}
    /\ s.revision = 1 <=> s.previous = None
    /\ s.from \in Nat /\ s.until \in Nat /\ s.from < s.until

\* ProductionTrustRecoveryBody::validate_shape
RecoveryShape(r) ==
    /\ r.sequence \in Nat \ {0}
    /\ r.minimum \in Nat \ {0} /\ r.maximum \in Nat /\ r.minimum <= r.maximum
    /\ r.expires \in Nat

\* AcceptedTrustCheckpoint with the recovery it was reached by.
Accepted == [state : States, sequence : Nat, recovery : Recoveries \cup {None}]

ASSUME BoundsAssumption == MaxTime \in Nat /\ MaxFaults \in Nat
ASSUME StatesAssumption == \A s \in States : StateShape(s)
ASSUME RecoveriesAssumption == \A r \in Recoveries : RecoveryShape(r)
ASSUME DigestAssumption == \A s, t \in States : s.id = t.id => s = t
ASSUME NoneAssumption == None \notin Recoveries /\ None \notin States /\ None \notin Accepted
ASSUME GenesisAssumption == Genesis \in States

VARIABLES mem,       \* process -> the accepted state it holds, or None
          pc,        \* process -> where it is in load_accepted or persist_activated
          states,    \* complete state files
          recoveries,\* complete recovery files
          temps,     \* temporary files
          pointer,   \* accepted.json, or None
          base,      \* history: process -> the accepted.json its memory goes back to
          clock, faults

vars == <<mem, pc, states, recoveries, temps, pointer, base, clock, faults>>
disk == <<states, recoveries, temps, pointer>>

Temporaries == [states : SUBSET States, recoveries : SUBSET Recoveries, pointer : BOOLEAN]

NoTemporaries == [states |-> {}, recoveries |-> {}, pointer |-> FALSE]

Labels == {"down", "opened", "read_state", "read_recovery", "refused", "ready",
           "write_state", "staged_state", "write_recovery", "staged_recovery",
           "write_pointer", "staged_pointer"}

TypeOK ==
    /\ mem \in [Processes -> Accepted \cup {None}]
    /\ pc \in [Processes -> Labels]
    /\ states \subseteq States
    /\ recoveries \subseteq Recoveries
    /\ temps \in Temporaries
    /\ pointer \in Accepted \cup {None}
    /\ base \in [Processes -> Accepted \cup {None}]
    /\ clock \in Times
    /\ faults \in 0 .. MaxFaults

Init ==
    /\ mem = [p \in Processes |-> None]
    /\ pc = [p \in Processes |-> "down"]
    /\ states = {} /\ recoveries = {} /\ temps = NoTemporaries /\ pointer = None
    /\ base = [p \in Processes |-> None]
    /\ clock = 0 /\ faults = 0

Goto(p, label) == pc' = [pc EXCEPT ![p] = label]

\* The memory of p goes back to the accepted.json b from now on: the one it
\* was loaded from or has replaced last; None for a bootstrapped memory that
\* is not persisted, and for a process that holds nothing.
Since(p, b) == base' = [base EXCEPT ![p] = b]

\* The process ends and its memory with it.
End(p) ==
    /\ Goto(p, "down")
    /\ mem' = [mem EXCEPT ![p] = None]
    /\ Since(p, None)

InWindow(s) == s.from <= clock /\ clock < s.until

-----------------------------------------------------------------------------
(* load_accepted: pointer, state file, recovery file *)

\* The pointer file is opened and its bytes are read.
OpenPointer(p) ==
    /\ pc[p] = "down" /\ pointer # None
    /\ mem' = [mem EXCEPT ![p] = pointer]
    /\ Goto(p, "opened")
    /\ Since(p, pointer)
    /\ UNCHANGED <<disk, clock, faults>>

\* The metadata comparison after the read refuses a pointer replaced since.
StatPointer(p) ==
    /\ pc[p] = "opened"
    /\ Goto(p, IF pointer = mem[p] THEN "read_state" ELSE "refused")
    /\ UNCHANGED <<mem, disk, base, clock, faults>>

FindsState(p) == mem[p].state \in states

FindsRecovery(p) ==
    mem[p].recovery # None =>
        /\ mem[p].recovery \in recoveries
        /\ mem[p].recovery.replacement = mem[p].state.id
        /\ mem[p].recovery.sequence = mem[p].sequence

\* The state file is read and verified at the current time.
ReadState(p) ==
    /\ pc[p] = "read_state"
    /\ Goto(p, IF FindsState(p) /\ InWindow(mem[p].state) THEN "read_recovery" ELSE "refused")
    /\ UNCHANGED <<mem, disk, base, clock, faults>>

ReadRecovery(p) ==
    /\ pc[p] = "read_recovery"
    /\ Goto(p, IF FindsRecovery(p) THEN "ready" ELSE "refused")
    /\ UNCHANGED <<mem, disk, base, clock, faults>>

\* A refused load ends the process; it may be started again.
GiveUp(p) ==
    /\ pc[p] = "refused"
    /\ End(p)
    /\ UNCHANGED <<disk, clock, faults>>

-----------------------------------------------------------------------------
(* The activator: bootstrap, activate, recover *)

Hold(a, s, sequence, recovery) ==
    mem' = [mem EXCEPT ![a] = [state |-> s, sequence |-> sequence, recovery |-> recovery]]

\* bootstrap refuses an activator that holds a state, and nothing else: it does
\* not ask whether the directory has an accepted state already.
Bootstrap(a) ==
    /\ pc[a] = "down"
    /\ InWindow(Genesis)
    /\ Hold(a, Genesis, 0, None)
    /\ Goto(a, "write_state")
    /\ UNCHANGED <<disk, base, clock, faults>>

CanActivate_NoFloor(a, s) ==
    LET cur == mem[a].state IN
    /\ InWindow(s)
    /\ s.revision = cur.revision + 1
    /\ s.previous = cur.id
    /\ s.level >= cur.level

CanActivate(a, s) ==
    LET cur == mem[a].state IN
    /\ InWindow(s)
    /\ s.revision = cur.revision + 1
    /\ s.previous = cur.id
    /\ s.minimum >= cur.minimum
    /\ s.level >= cur.level

Activate_SequenceReset(a, s) ==
    /\ pc[a] = "ready"
    /\ CanActivate(a, s)
    /\ Hold(a, s, 0, None)
    /\ Goto(a, "write_state")
    /\ UNCHANGED <<disk, base, clock, faults>>

Activate(a, s) ==
    /\ pc[a] = "ready"
    /\ CanActivate(a, s)
    /\ Hold(a, s, mem[a].sequence, None)
    /\ Goto(a, "write_state")
    /\ UNCHANGED <<disk, base, clock, faults>>

CanRecover(a, s, r) ==
    LET cur == mem[a].state
        minimum == IF cur.minimum > r.minimum THEN cur.minimum ELSE r.minimum
    IN
    /\ clock < r.expires /\ InWindow(s)
    /\ r.damaged = cur.id /\ r.replacement = s.id
    /\ r.sequence > mem[a].sequence
    /\ s.revision >= minimum /\ s.minimum >= minimum
    /\ s.revision <= r.maximum
    /\ cur.revoked \subseteq s.revoked

Recover(a, s, r) ==
    /\ pc[a] = "ready"
    /\ CanRecover(a, s, r)
    /\ Hold(a, s, r.sequence, r)
    /\ Goto(a, "write_state")
    /\ UNCHANGED <<disk, base, clock, faults>>

-----------------------------------------------------------------------------
(* persist_activated: state file, recovery file, pointer *)

\* write_immutable_json up to the temporary file; an existing file of the
\* same digest is left alone, a temporary file left over by a crash is an
\* error.
StageState(a) ==
    /\ pc[a] = "write_state"
    /\ LET s == mem[a].state IN
       IF s \in states THEN Goto(a, "write_recovery") /\ UNCHANGED temps
       ELSE IF s \in temps.states THEN Goto(a, "ready") /\ UNCHANGED temps
       ELSE Goto(a, "staged_state") /\ temps' = [temps EXCEPT !.states = @ \cup {s}]
    /\ UNCHANGED <<mem, states, recoveries, pointer, base, clock, faults>>

PublishState(a) ==
    /\ pc[a] = "staged_state"
    /\ states' = states \cup {mem[a].state}
    /\ temps' = [temps EXCEPT !.states = @ \ {mem[a].state}]
    /\ Goto(a, "write_recovery")
    /\ UNCHANGED <<mem, recoveries, pointer, base, clock, faults>>

StageRecovery_Later(a) ==
    /\ pc[a] = "write_recovery"
    /\ Goto(a, "write_pointer")
    /\ UNCHANGED <<mem, disk, base, clock, faults>>

StageRecovery(a) ==
    /\ pc[a] = "write_recovery"
    /\ LET r == mem[a].recovery IN
       IF r = None \/ r \in recoveries THEN Goto(a, "write_pointer") /\ UNCHANGED temps
       ELSE IF r \in temps.recoveries THEN Goto(a, "ready") /\ UNCHANGED temps
       ELSE Goto(a, "staged_recovery") /\ temps' = [temps EXCEPT !.recoveries = @ \cup {r}]
    /\ UNCHANGED <<mem, states, recoveries, pointer, base, clock, faults>>

PublishRecovery(a) ==
    /\ pc[a] = "staged_recovery"
    /\ recoveries' = recoveries \cup {mem[a].recovery}
    /\ temps' = [temps EXCEPT !.recoveries = @ \ {mem[a].recovery}]
    /\ Goto(a, "write_pointer")
    /\ UNCHANGED <<mem, states, pointer, base, clock, faults>>

StagePointer(a) ==
    /\ pc[a] = "write_pointer"
    /\ IF temps.pointer THEN Goto(a, "ready") /\ UNCHANGED temps
       ELSE Goto(a, "staged_pointer") /\ temps' = [temps EXCEPT !.pointer = TRUE]
    /\ UNCHANGED <<mem, states, recoveries, pointer, base, clock, faults>>

ReplacePointer(a) ==
    /\ pc[a] = "staged_pointer"
    /\ pointer' = mem[a]
    /\ temps' = [temps EXCEPT !.pointer = FALSE]
    /\ Goto(a, "ready")
    /\ Since(a, mem[a])
    /\ UNCHANGED <<mem, states, recoveries, clock, faults>>

\* The caller persists again what a failed call did not persist.
RetryPersist(a) ==
    /\ pc[a] = "ready" /\ mem[a] # pointer
    /\ Goto(a, "write_state")
    /\ UNCHANGED <<mem, disk, base, clock, faults>>

-----------------------------------------------------------------------------
(* Environment *)

Persisting(a) == pc[a] \in {"write_state", "staged_state", "write_recovery",
                            "staged_recovery", "write_pointer", "staged_pointer"}

\* An I/O error inside persist_activated: the memory keeps the new state.
PersistFails(a) ==
    /\ Persisting(a) /\ faults < MaxFaults
    /\ Goto(a, "ready")
    /\ faults' = faults + 1
    /\ UNCHANGED <<mem, disk, base, clock>>

Crash(p) ==
    /\ pc[p] # "down" /\ faults < MaxFaults
    /\ End(p)
    /\ faults' = faults + 1
    /\ UNCHANGED <<disk, clock>>

\* An orderly end of a process.
Stop(p) ==
    /\ pc[p] = "ready"
    /\ End(p)
    /\ UNCHANGED <<disk, clock, faults>>

\* The operator removes left-over temporary files while nobody writes.
RemoveTemps ==
    /\ temps # NoTemporaries /\ \A a \in Administrators : ~ Persisting(a)
    /\ temps' = NoTemporaries
    /\ UNCHANGED <<mem, pc, states, recoveries, pointer, base, clock, faults>>

Tick ==
    /\ clock < MaxTime
    /\ clock' = clock + 1
    /\ UNCHANGED <<mem, pc, disk, base, faults>>

Next ==
    \/ \E p \in Processes : OpenPointer(p) \/ StatPointer(p) \/ ReadState(p)
                            \/ ReadRecovery(p) \/ GiveUp(p) \/ Crash(p) \/ Stop(p)
    \/ \E a \in Administrators :
           \/ Bootstrap(a)
           \/ \E s \in States : Activate(a, s)
           \/ \E s \in States, r \in Recoveries : Recover(a, s, r)
           \/ StageState(a) \/ PublishState(a)
           \/ StageRecovery(a) \/ PublishRecovery(a)
           \/ StagePointer(a) \/ ReplacePointer(a)
           \/ RetryPersist(a) \/ PersistFails(a)
    \/ RemoveTemps
    \/ Tick

Spec == Init /\ [][Next]_vars

-----------------------------------------------------------------------------
(* Properties *)

\* Whenever accepted.json exists, the state file it names is complete, and
\* so is the recovery file, which authorizes exactly this state under
\* exactly this sequence: load_accepted finds what the pointer promises
\* after a crash at any point of persist_activated.
AcceptedIsComplete ==
    pointer # None =>
        /\ pointer.state \in states
        /\ pointer.recovery # None =>
               /\ pointer.recovery \in recoveries
               /\ pointer.recovery.replacement = pointer.state.id
               /\ pointer.recovery.sequence = pointer.sequence

\* A process that loads while an administrator replaces the pointer never
\* meets a missing or mismatching file: once it has read a pointer it is
\* refused only because the pointer changed or the state is out of date.
LoadFindsFiles ==
    \A p \in Processes :
        /\ pc[p] = "read_state" => FindsState(p)
        /\ pc[p] = "read_recovery" => FindsState(p) /\ FindsRecovery(p)

\* An administrator whose memory goes back to the accepted.json now on disk
\* replaces it by one whose floor is not lower and whose revision is not
\* below the floor, however many activations, recoveries, failed writes and
\* retries lie between, and whatever other administrators and their crashes
\* did.  (Two replacements are exempt because nothing in the code compares
\* the disk: that of a repeated bootstrap, and that of an administrator whose
\* accepted.json was replaced since.)
FloorNeverFalls ==
    [][\A a \in Administrators :
          ReplacePointer(a) /\ base[a] # None /\ base[a] = pointer =>
              /\ pointer'.state.minimum >= pointer.state.minimum
              /\ pointer'.state.revision >= pointer.state.minimum]_vars

\* Likewise the recovery sequence on disk never falls, and a recovery that
\* moves the pointer has a sequence above the one on disk: an authorization
\* that took effect before a crash or a failed write cannot take effect again
\* on top of itself.
RecoveryNotReplayed ==
    [][\A a \in Administrators :
          ReplacePointer(a) /\ base[a] # None /\ base[a] = pointer /\ pointer' # pointer =>
              /\ pointer'.sequence >= pointer.sequence
              /\ pointer'.recovery # None => pointer'.sequence > pointer.sequence]_vars
=============================================================================
