----------------------- MODULE TrustStateStoreProofs -----------------------
(***************************************************************************)
(* The trust state store for every set of states and recoveries, any       *)
(* number of administrators, services and faults.  First, the files behind *)
(* the pointer are complete.  Then, the memory of an administrator is      *)
(* never behind the accepted.json it goes back to, so the pointer does not *)
(* move backwards under an administrator that replaces this one.           *)
(***************************************************************************)
EXTENDS TrustStateStore, TLAPS

\* A leaf is tried with Zenon, then with SMT, then with each again for longer.
USE ZenonT(3), SMTT(20), ZenonT(60), SMTT(120)

\* The recovery of an accepted state authorizes this state and sequence.
Authorized(m) ==
    m.recovery # None =>
        m.recovery.replacement = m.state.id /\ m.recovery.sequence = m.sequence

Complete(m) ==
    /\ m.state \in states
    /\ m.recovery # None => m.recovery \in recoveries

StateWritten == {"write_recovery", "staged_recovery", "write_pointer", "staged_pointer"}
RecoveryWritten == {"write_pointer", "staged_pointer"}
Loading == {"opened", "read_state", "read_recovery"}

Held(p) ==
    /\ pc[p] # "down" => mem[p] \in Accepted /\ Authorized(mem[p])
    /\ pc[p] \in StateWritten => mem[p].state \in states
    /\ pc[p] \in RecoveryWritten => (mem[p].recovery # None => mem[p].recovery \in recoveries)
    /\ pc[p] = "staged_recovery" => mem[p].recovery # None
    /\ pc[p] \in Loading => Complete(mem[p])

FilesInv ==
    /\ TypeOK
    /\ \A p \in Processes : Held(p)
    /\ pointer # None => Authorized(pointer) /\ Complete(pointer)

-----------------------------------------------------------------------------
(* What every step has to show *)

\* A process moves to a label; memory and files of the others stay.
LEMMA Moved ==
    ASSUME FilesInv, NEW p \in Processes, NEW l \in Labels, Goto(p, l),
           \A q \in Processes \ {p} : mem'[q] = mem[q],
           mem' \in [Processes -> Accepted \cup {None}],
           base' \in [Processes -> Accepted \cup {None}],
           states \subseteq states', recoveries \subseteq recoveries',
           states' \subseteq States, recoveries' \subseteq Recoveries,
           temps' \in Temporaries, clock' \in Times, faults' \in 0 .. MaxFaults,
           pointer' = pointer,
           Held(p)'
    PROVE  FilesInv'
<1>1. TypeOK'
    BY DEF FilesInv, TypeOK, Goto
<1>2. ASSUME NEW q \in Processes, q # p PROVE Held(q)'
  <2>1. pc'[q] = pc[q] /\ mem'[q] = mem[q]
    BY <1>2 DEF FilesInv, TypeOK, Goto
  <2> QED
    BY <1>2, <2>1 DEF FilesInv, Held, Complete, Authorized
<1>3. (pointer # None => Authorized(pointer) /\ Complete(pointer))'
    BY DEF FilesInv, Complete, Authorized
<1> QED
    BY <1>1, <1>2, <1>3 DEF FilesInv

LEMMA LoadKeeps ==
    ASSUME FilesInv, NEW p \in Processes,
           OpenPointer(p) \/ StatPointer(p) \/ ReadState(p) \/ ReadRecovery(p)
           \/ GiveUp(p) \/ Crash(p) \/ Stop(p)
    PROVE  FilesInv'
<1>0. /\ pc \in [Processes -> Labels] /\ mem \in [Processes -> Accepted \cup {None}]
      /\ pointer \in Accepted \cup {None} /\ Held(p)
      /\ faults \in 0 .. MaxFaults /\ base \in [Processes -> Accepted \cup {None}]
    BY DEF FilesInv, TypeOK
<1>b. base' \in [Processes -> Accepted \cup {None}]
    BY <1>0 DEF OpenPointer, StatPointer, ReadState, ReadRecovery, GiveUp, Crash, Stop, End, Since
<1>f. faults' \in 0 .. MaxFaults
    BY <1>0, BoundsAssumption
       DEF OpenPointer, StatPointer, ReadState, ReadRecovery, GiveUp, Crash, Stop, End
<1>t. /\ states' = states /\ recoveries' = recoveries /\ temps' = temps
      /\ pointer' = pointer /\ clock' = clock
      /\ states \subseteq States /\ recoveries \subseteq Recoveries
      /\ temps \in Temporaries /\ clock \in Times
    BY DEF OpenPointer, StatPointer, ReadState, ReadRecovery, GiveUp, Crash, Stop, End, disk,
           FilesInv, TypeOK
<1>1. CASE OpenPointer(p)
  <2>1. pc'[p] = "opened" /\ mem'[p] = pointer /\ pointer # None
    BY <1>0, <1>1 DEF OpenPointer, Goto
  <2>2. Held(p)'
    BY <1>0, <1>t, <2>1 DEF Held, FilesInv, Complete, Authorized, Loading, StateWritten,
                            RecoveryWritten
  <2>3. mem' \in [Processes -> Accepted \cup {None}] /\ \A q \in Processes \ {p} : mem'[q] = mem[q]
    BY <1>0, <1>1 DEF OpenPointer
  <2> QED
    BY <1>1, <1>b, <1>f, <1>t, <2>2, <2>3, Moved DEF OpenPointer, Labels
<1>2. CASE StatPointer(p) \/ ReadState(p) \/ ReadRecovery(p)
  <2>1. mem' = mem
    BY <1>2 DEF StatPointer, ReadState, ReadRecovery
  <2>2. PICK l \in {"read_state", "read_recovery", "refused", "ready"} : Goto(p, l)
    BY <1>2 DEF StatPointer, ReadState, ReadRecovery
  <2>3. pc[p] \in Loading
    BY <1>2 DEF StatPointer, ReadState, ReadRecovery, Loading
  <2>4. pc'[p] = l
    BY <1>0, <2>2 DEF Goto
  <2>5. Held(p)'
    BY <1>0, <1>t, <2>1, <2>3, <2>4 DEF Held, Complete, Authorized, Loading, StateWritten,
                                      RecoveryWritten
  <2> QED
    BY <1>0, <1>b, <1>f, <1>t, <2>1, <2>2, <2>5, Moved DEF Labels
<1>3. CASE GiveUp(p) \/ Crash(p) \/ Stop(p)
  <2>1. Goto(p, "down") /\ mem' = [mem EXCEPT ![p] = None]
    BY <1>3 DEF GiveUp, Crash, Stop, End
  <2>2. pc'[p] = "down"
    BY <1>0, <2>1 DEF Goto
  <2>3. Held(p)'
    BY <2>2 DEF Held, StateWritten, RecoveryWritten, Loading
  <2>4. mem' \in [Processes -> Accepted \cup {None}] /\ \A q \in Processes \ {p} : mem'[q] = mem[q]
    BY <1>0, <2>1
  <2> QED
    BY <1>b, <1>f, <1>t, <2>1, <2>3, <2>4, Moved DEF Labels
<1> QED
    BY <1>1, <1>2, <1>3

\* bootstrap, activate and recover: a new accepted state in memory.
LEMMA HoldKeeps ==
    ASSUME FilesInv, NEW a \in Administrators,
           \/ Bootstrap(a)
           \/ \E s \in States : Activate(a, s)
           \/ \E s \in States, r \in Recoveries : Recover(a, s, r)
    PROVE  FilesInv'
<1>0. /\ pc \in [Processes -> Labels] /\ mem \in [Processes -> Accepted \cup {None}]
      /\ a \in Processes /\ Held(a) /\ base \in [Processes -> Accepted \cup {None}]
    BY DEF FilesInv, TypeOK, Processes
<1>t. /\ states' = states /\ recoveries' = recoveries /\ temps' = temps
      /\ pointer' = pointer /\ base' = base /\ clock' = clock /\ faults' = faults
      /\ states \subseteq States /\ recoveries \subseteq Recoveries
      /\ temps \in Temporaries /\ clock \in Times /\ faults \in 0 .. MaxFaults
    BY DEF Bootstrap, Activate, Recover, disk, FilesInv, TypeOK
<1>1. Goto(a, "write_state")
    BY DEF Bootstrap, Activate, Recover
<1>2. PICK m \in Accepted : mem' = [mem EXCEPT ![a] = m] /\ Authorized(m)
  <2>1. CASE Bootstrap(a)
    <3> DEFINE m == [state |-> Genesis, sequence |-> 0, recovery |-> None]
    <3>1. m \in Accepted
        BY GenesisAssumption DEF Accepted
    <3> QED
        BY <2>1, <3>1 DEF Bootstrap, Hold, Authorized
  <2>2. CASE \E s \in States : Activate(a, s)
    <3>1. PICK s \in States : Activate(a, s)
        BY <2>2
    <3> DEFINE m == [state |-> s, sequence |-> mem[a].sequence, recovery |-> None]
    <3>2. mem[a].sequence \in Nat
        BY <1>0, <3>1 DEF Held, Accepted, Activate
    <3>3. m \in Accepted
        BY <3>2 DEF Accepted
    <3> QED
        BY <3>1, <3>3 DEF Activate, Hold, Authorized
  <2>3. CASE \E s \in States, r \in Recoveries : Recover(a, s, r)
    <3>1. PICK s \in States, r \in Recoveries : Recover(a, s, r)
        BY <2>3
    <3> DEFINE m == [state |-> s, sequence |-> r.sequence, recovery |-> r]
    <3>2. m \in Accepted
        BY RecoveriesAssumption DEF Accepted, RecoveryShape
    <3>3. Authorized(m)
        BY <3>1 DEF Authorized, Recover, CanRecover
    <3> QED
        BY <3>1, <3>2, <3>3 DEF Recover, Hold
  <2> QED
    BY <2>1, <2>2, <2>3
<1>3. mem'[a] = m /\ pc'[a] = "write_state"
    BY <1>0, <1>1, <1>2 DEF Goto
<1>4. Held(a)'
    BY <1>2, <1>3 DEF Held, Authorized, StateWritten, RecoveryWritten, Loading
<1>5. mem' \in [Processes -> Accepted \cup {None}] /\ \A q \in Processes \ {a} : mem'[q] = mem[q]
    BY <1>0, <1>2
<1> QED
    BY <1>0, <1>1, <1>t, <1>4, <1>5, Moved DEF Labels

\* persist_activated up to the pointer, its failures and its retry.
LEMMA WriteKeeps ==
    ASSUME FilesInv, NEW a \in Administrators,
           \/ StageState(a) \/ PublishState(a) \/ StageRecovery(a) \/ PublishRecovery(a)
           \/ StagePointer(a) \/ RetryPersist(a) \/ PersistFails(a)
    PROVE  FilesInv'
<1>0. /\ pc \in [Processes -> Labels] /\ mem \in [Processes -> Accepted \cup {None}]
      /\ a \in Processes /\ Held(a) /\ mem' = mem /\ pointer' = pointer /\ clock' = clock
      /\ base \in [Processes -> Accepted \cup {None}] /\ base' = base
      /\ states \subseteq States /\ recoveries \subseteq Recoveries
      /\ temps \in Temporaries /\ clock \in Times /\ faults \in 0 .. MaxFaults
    BY DEF FilesInv, TypeOK, Processes, StageState, PublishState, StageRecovery,
           PublishRecovery, StagePointer, RetryPersist, PersistFails, disk
<1>1. pc[a] # "down"
    BY DEF StageState, PublishState, StageRecovery, PublishRecovery, StagePointer,
           RetryPersist, PersistFails, Persisting
<1>2. mem[a] \in Accepted /\ Authorized(mem[a])
      /\ mem[a].state \in States /\ mem[a].recovery \in Recoveries \cup {None}
    BY <1>0, <1>1 DEF Held, Accepted
<1>3. temps' \in Temporaries
  <2>1. CASE StageState(a)
    BY <1>0, <1>2, <2>1 DEF StageState, Temporaries
  <2>2. CASE PublishState(a)
    BY <1>0, <2>2 DEF PublishState, Temporaries
  <2>3. CASE StageRecovery(a)
    BY <1>0, <1>2, <2>3 DEF StageRecovery, Temporaries
  <2>4. CASE PublishRecovery(a)
    BY <1>0, <2>4 DEF PublishRecovery, Temporaries
  <2>5. CASE StagePointer(a)
    BY <1>0, <2>5 DEF StagePointer, Temporaries
  <2>6. CASE RetryPersist(a) \/ PersistFails(a)
    BY <1>0, <2>6 DEF RetryPersist, PersistFails, disk
  <2> QED
    BY <2>1, <2>2, <2>3, <2>4, <2>5, <2>6
<1>4. faults' \in 0 .. MaxFaults
    BY <1>0, BoundsAssumption DEF StageState, PublishState, StageRecovery, PublishRecovery,
           StagePointer, RetryPersist, PersistFails
<1>5. /\ states \subseteq states' /\ states' \subseteq States
      /\ recoveries \subseteq recoveries' /\ recoveries' \subseteq Recoveries
  <2>1. pc[a] = "staged_recovery" => mem[a].recovery \in Recoveries
    BY <1>0, <1>2 DEF Held
  <2> QED
    BY <1>0, <1>2, <2>1 DEF StageState, PublishState, StageRecovery, PublishRecovery,
           StagePointer, RetryPersist, PersistFails, disk
<1>6. PICK l \in Labels :
        /\ Goto(a, l)
        /\ l \in {"ready", "write_state", "staged_state", "write_recovery",
                  "staged_recovery", "write_pointer", "staged_pointer"}
        /\ l \in StateWritten => mem[a].state \in states'
        /\ l \in RecoveryWritten => (mem[a].recovery # None => mem[a].recovery \in recoveries')
        /\ l = "staged_recovery" => mem[a].recovery # None
  <2> USE <1>0, <1>1 DEF Held, Labels, StateWritten, RecoveryWritten
  <2>1. CASE StageState(a)
    BY <2>1 DEF StageState
  <2>2. CASE PublishState(a)
    BY <2>2 DEF PublishState
  <2>3. CASE StageRecovery(a)
    BY <2>3 DEF StageRecovery
  <2>4. CASE PublishRecovery(a)
    BY <2>4 DEF PublishRecovery
  <2>5. CASE StagePointer(a)
    BY <2>5 DEF StagePointer
  <2>6. CASE RetryPersist(a) \/ PersistFails(a)
    BY <2>6 DEF RetryPersist, PersistFails
  <2> QED
    BY <2>1, <2>2, <2>3, <2>4, <2>5, <2>6
<1>7. pc'[a] = l
    BY <1>0, <1>6 DEF Goto
<1>8. Held(a)'
    BY <1>0, <1>2, <1>6, <1>7 DEF Held, Loading, Authorized
<1> QED
    BY <1>0, <1>3, <1>4, <1>5, <1>6, <1>8, Moved

LEMMA ReplaceKeeps ==
    ASSUME FilesInv, NEW a \in Administrators, ReplacePointer(a)
    PROVE  FilesInv'
<1>0. /\ pc \in [Processes -> Labels] /\ a \in Processes /\ Held(a)
      /\ mem' = mem /\ states' = states /\ recoveries' = recoveries
    BY DEF FilesInv, TypeOK, Processes, ReplacePointer
<1>1. mem[a] \in Accepted /\ Authorized(mem[a]) /\ Complete(mem[a])
    BY <1>0 DEF ReplacePointer, Held, Complete, StateWritten, RecoveryWritten
<1>2. TypeOK'
  <2>1. pc' \in [Processes -> Labels]
    BY <1>0 DEF ReplacePointer, Goto, Labels
  <2>2. temps' \in Temporaries
    BY DEF FilesInv, TypeOK, ReplacePointer, Temporaries
  <2>3. base' \in [Processes -> Accepted \cup {None}]
    BY <1>0, <1>1 DEF FilesInv, TypeOK, ReplacePointer, Since
  <2> QED
    BY <1>0, <1>1, <2>1, <2>2, <2>3 DEF FilesInv, TypeOK, ReplacePointer
<1>3. ASSUME NEW q \in Processes PROVE Held(q)'
  <2>1. pc'[q] = IF q = a THEN "ready" ELSE pc[q]
    BY <1>0, <1>3 DEF ReplacePointer, Goto
  <2>2. Held(q)
    BY <1>3 DEF FilesInv
  <2> QED
    BY <1>0, <1>1, <2>1, <2>2
       DEF Held, Complete, Authorized, StateWritten, RecoveryWritten, Loading
<1>4. (pointer # None => Authorized(pointer) /\ Complete(pointer))'
    BY <1>0, <1>1 DEF ReplacePointer, Authorized, Complete
<1> QED
    BY <1>2, <1>3, <1>4 DEF FilesInv

LEMMA EnvironmentKeeps ==
    ASSUME FilesInv, RemoveTemps \/ Tick \/ UNCHANGED vars
    PROVE  FilesInv'
<1>0. /\ mem' = mem /\ pc' = pc /\ states' = states /\ recoveries' = recoveries
      /\ pointer' = pointer /\ base' = base /\ faults' = faults
    BY DEF RemoveTemps, Tick, vars, disk
<1>1. temps' \in Temporaries
  <2>1. NoTemporaries \in Temporaries
    BY DEF Temporaries, NoTemporaries
  <2> QED
    BY <2>1 DEF FilesInv, TypeOK, RemoveTemps, Tick, vars, disk
<1>2. clock' \in Times
    BY BoundsAssumption DEF FilesInv, TypeOK, RemoveTemps, Tick, vars, Times
<1>3. TypeOK'
    BY <1>0, <1>1, <1>2 DEF FilesInv, TypeOK
<1>4. \A q \in Processes : Held(q)'
    BY <1>0 DEF FilesInv, Held, Complete, Authorized
<1>5. (pointer # None => Authorized(pointer) /\ Complete(pointer))'
    BY <1>0 DEF FilesInv, Complete, Authorized
<1> QED
    BY <1>3, <1>4, <1>5 DEF FilesInv

LEMMA FilesInitial == Init => FilesInv
<1> SUFFICES ASSUME Init PROVE FilesInv
    OBVIOUS
<1>1. TypeOK
    BY BoundsAssumption DEF Init, TypeOK, Labels, NoTemporaries, Temporaries, Times
<1>2. \A q \in Processes : Held(q)
    BY DEF Init, Held, StateWritten, RecoveryWritten, Loading
<1> QED
    BY <1>1, <1>2 DEF Init, FilesInv

LEMMA FilesInductive == FilesInv /\ [Next]_vars => FilesInv'
<1> SUFFICES ASSUME FilesInv, [Next]_vars PROVE FilesInv'
    OBVIOUS
<1> QED
    BY LoadKeeps, HoldKeeps, WriteKeeps, ReplaceKeeps, EnvironmentKeeps DEF Next

LEMMA FilesInvariant == Spec => []FilesInv
<1> QED
    BY FilesInitial, FilesInductive, PTL DEF Spec

\* Type correctness of the store for any number of administrators.
THEOREM TypeCorrect == Spec => []TypeOK
<1>1. FilesInv => TypeOK
    BY DEF FilesInv
<1> QED
    BY <1>1, FilesInvariant, PTL

\* persist_activated publishes the state file and the recovery file before
\* the pointer: whatever number of administrators write and wherever they
\* crash, accepted.json never names a missing or foreign file.
THEOREM AcceptedComplete == Spec => []AcceptedIsComplete
<1>1. FilesInv => AcceptedIsComplete
    BY DEF FilesInv, AcceptedIsComplete, Complete, Authorized
<1> QED
    BY <1>1, FilesInvariant, PTL

\* load_accepted, reading file by file while others write, never misses a
\* file of the pointer it has read.
THEOREM LoadFinds == Spec => []LoadFindsFiles
<1>1. FilesInv => LoadFindsFiles
    BY DEF FilesInv, Held, LoadFindsFiles, FindsState, FindsRecovery, Complete, Authorized,
           Loading
<1> QED
    BY <1>1, FilesInvariant, PTL

-----------------------------------------------------------------------------
(* An administrator's memory is never behind what it goes back to *)

Ahead(m, p) ==
    \/ m = p
    \/ /\ m.state.minimum >= p.state.minimum
       /\ m.sequence >= p.sequence
       /\ m.recovery # None => m.sequence > p.sequence

AheadInv ==
    \A a \in Administrators :
        IF pc[a] = "down" THEN base[a] = None
        ELSE base[a] # None => base[a] \in Accepted /\ Ahead(mem[a], base[a])

LEMMA AcceptedNumbers ==
    ASSUME NEW m \in Accepted
    PROVE  /\ m.state \in States /\ m.sequence \in Nat
           /\ m.state.minimum \in Nat /\ m.state.revision \in Nat
           /\ m.state.minimum <= m.state.revision
<1>1. m.state \in States /\ m.sequence \in Nat
    BY DEF Accepted
<1> QED
    BY <1>1, StatesAssumption DEF StateShape

\* An activation or a recovery of something ahead of b is ahead of b.
LEMMA AdvanceAhead ==
    ASSUME FilesInv, NEW a \in Administrators, pc[a] = "ready", NEW b \in Accepted,
           Ahead(mem[a], b),
           \/ \E s \in States : Activate(a, s)
           \/ \E s \in States, r \in Recoveries : Recover(a, s, r)
    PROVE  Ahead(mem'[a], b)
<1>0. mem \in [Processes -> Accepted \cup {None}] /\ a \in Processes /\ mem[a] \in Accepted
    BY DEF FilesInv, TypeOK, Held, Processes
<1> DEFINE m == mem[a]
           n == mem'[a]
<1>1. /\ m.state \in States /\ m.sequence \in Nat /\ m.state.minimum \in Nat
      /\ b.sequence \in Nat /\ b.state.minimum \in Nat
    BY <1>0, AcceptedNumbers
<1>2. m.state.minimum >= b.state.minimum /\ m.sequence >= b.sequence
    BY <1>1 DEF Ahead
<1>3. CASE \E s \in States : Activate(a, s)
  <2>1. PICK s \in States : Activate(a, s)
    BY <1>3
  <2>2. n.state = s /\ n.sequence = m.sequence /\ n.recovery = None
    BY <1>0, <2>1 DEF Activate, Hold
  <2>3. s.minimum \in Nat /\ s.minimum >= m.state.minimum
    BY <2>1, StatesAssumption DEF Activate, CanActivate, StateShape
  <2> QED
    BY <1>1, <1>2, <2>2, <2>3 DEF Ahead
<1>4. CASE \E s \in States, r \in Recoveries : Recover(a, s, r)
  <2>1. PICK s \in States, r \in Recoveries : Recover(a, s, r)
    BY <1>4
  <2>2. n.state = s /\ n.sequence = r.sequence
    BY <1>0, <2>1 DEF Recover, Hold
  <2>3. r.sequence \in Nat /\ s.minimum \in Nat /\ r.minimum \in Nat
    BY StatesAssumption, RecoveriesAssumption DEF StateShape, RecoveryShape
  <2>4. s.minimum >= m.state.minimum /\ r.sequence > m.sequence
    BY <1>1, <2>1, <2>3 DEF Recover, CanRecover
  <2> QED
    BY <1>1, <1>2, <2>2, <2>3, <2>4 DEF Ahead
<1> QED
    BY <1>3, <1>4

LEMMA AheadInductive ==
    ASSUME FilesInv, AheadInv, [Next]_vars PROVE AheadInv'
<1> DEFINE Fine(b) == IF pc[b] = "down" THEN base[b] = None
                      ELSE base[b] # None => base[b] \in Accepted /\ Ahead(mem[b], base[b])
<1> SUFFICES ASSUME NEW b \in Administrators PROVE Fine(b)'
    BY DEF AheadInv
<1>0. /\ pc \in [Processes -> Labels] /\ mem \in [Processes -> Accepted \cup {None}]
      /\ base \in [Processes -> Accepted \cup {None}] /\ b \in Processes
    BY DEF FilesInv, TypeOK, Processes
<1>1. Fine(b)
    BY DEF AheadInv
<1>2. CASE mem'[b] = mem[b] /\ base'[b] = base[b] /\ ((pc[b] = "down") <=> (pc'[b] = "down"))
    BY <1>1, <1>2
<1>3. ASSUME NEW p \in Processes,
             OpenPointer(p) \/ StatPointer(p) \/ ReadState(p) \/ ReadRecovery(p)
             \/ GiveUp(p) \/ Crash(p) \/ Stop(p)
      PROVE  Fine(b)'
  <2>1. CASE p # b
    BY <1>0, <1>2, <1>3, <2>1
       DEF OpenPointer, StatPointer, ReadState, ReadRecovery, GiveUp, Crash, Stop, End, Since, Goto
  <2>2. CASE p = b /\ OpenPointer(p)
    <3>1. pc'[b] = "opened" /\ mem'[b] = pointer /\ base'[b] = pointer /\ pointer \in Accepted
        BY <1>0, <2>2 DEF OpenPointer, Goto, Since, FilesInv, TypeOK
    <3> QED
        BY <3>1 DEF Ahead
  <2>3. CASE p = b /\ (StatPointer(p) \/ ReadState(p) \/ ReadRecovery(p))
    BY <1>0, <1>2, <2>3 DEF StatPointer, ReadState, ReadRecovery, Goto
  <2>4. CASE p = b /\ (GiveUp(p) \/ Crash(p) \/ Stop(p))
    <3>1. pc'[b] = "down" /\ base'[b] = None
        BY <1>0, <2>4 DEF GiveUp, Crash, Stop, End, Since, Goto
    <3> QED
        BY <3>1
  <2> QED
    BY <1>3, <2>1, <2>2, <2>3, <2>4
<1>4. ASSUME NEW a \in Administrators, Bootstrap(a) PROVE Fine(b)'
  <2>1. a \in Processes /\ base' = base
    BY <1>4 DEF Bootstrap, Processes
  <2>2. CASE a # b
    BY <1>0, <1>2, <1>4, <2>1, <2>2 DEF Bootstrap, Hold, Goto
  <2>3. CASE a = b
    <3>1. base[b] = None /\ pc'[b] = "write_state"
        BY <1>0, <1>1, <1>4, <2>3 DEF Bootstrap, Goto
    <3> QED
        BY <2>1, <3>1
  <2> QED
    BY <2>2, <2>3
<1>5. ASSUME NEW a \in Administrators,
             \/ \E s \in States : Activate(a, s)
             \/ \E s \in States, r \in Recoveries : Recover(a, s, r)
      PROVE  Fine(b)'
  <2>1. a \in Processes /\ base' = base /\ pc[a] = "ready" /\ Goto(a, "write_state")
    BY <1>5 DEF Activate, Recover, Processes
  <2>2. CASE a # b
    BY <1>0, <1>2, <1>5, <2>1, <2>2 DEF Activate, Recover, Hold, Goto
  <2>3. CASE a = b
    <3>1. pc'[b] = "write_state"
        BY <1>0, <2>1, <2>3 DEF Goto
    <3>2. CASE base[b] = None
        BY <2>1, <3>1, <3>2
    <3>3. CASE base[b] # None
      <4>1. base[b] \in Accepted /\ Ahead(mem[b], base[b])
        BY <1>1, <2>1, <2>3, <3>3
      <4>2. Ahead(mem'[b], base[b])
        BY <1>5, <2>1, <2>3, <4>1, AdvanceAhead
      <4> QED
        BY <2>1, <3>1, <4>1, <4>2
    <3> QED
        BY <3>2, <3>3
  <2> QED
    BY <2>2, <2>3
<1>6. ASSUME NEW a \in Administrators,
             \/ StageState(a) \/ PublishState(a) \/ StageRecovery(a) \/ PublishRecovery(a)
             \/ StagePointer(a) \/ RetryPersist(a) \/ PersistFails(a)
      PROVE  Fine(b)'
  <2>1. mem' = mem /\ base' = base /\ pc[a] # "down" /\ a \in Processes
    BY <1>6 DEF StageState, PublishState, StageRecovery, PublishRecovery,
           StagePointer, RetryPersist, PersistFails, Persisting, disk, Processes
  <2>2. PICK l \in Labels \ {"down"} : Goto(a, l)
    BY <1>6 DEF StageState, PublishState, StageRecovery, PublishRecovery,
           StagePointer, RetryPersist, PersistFails, Labels
  <2> QED
    BY <1>0, <1>2, <2>1, <2>2 DEF Goto
<1>7. ASSUME NEW a \in Administrators, ReplacePointer(a) PROVE Fine(b)'
  <2>1. a \in Processes /\ mem' = mem
    BY <1>7 DEF ReplacePointer, Processes
  <2>2. CASE a # b
    BY <1>0, <1>2, <1>7, <2>1, <2>2 DEF ReplacePointer, Since, Goto
  <2>3. CASE a = b
    <3>1. base'[b] = mem'[b] /\ pc'[b] = "ready" /\ mem'[b] \in Accepted
        BY <1>0, <1>7, <2>1, <2>3 DEF ReplacePointer, Since, Goto, FilesInv, Held
    <3> QED
        BY <3>1 DEF Ahead
  <2> QED
    BY <2>2, <2>3
<1>8. CASE RemoveTemps \/ Tick \/ UNCHANGED vars
    BY <1>2, <1>8 DEF RemoveTemps, Tick, vars, disk
<1> QED
    BY <1>3, <1>4, <1>5, <1>6, <1>7, <1>8 DEF Next

LEMMA AheadInvariant == Spec => [](FilesInv /\ AheadInv)
<1>1. Init => AheadInv
    BY DEF Init, AheadInv, Processes
<1>2. FilesInv /\ AheadInv /\ [Next]_vars => AheadInv'
    BY AheadInductive
<1> QED
    BY <1>1, <1>2, FilesInitial, FilesInductive, PTL DEF Spec

\* An administrator replaces the pointer its memory goes back to.
LEMMA MovesAhead ==
    ASSUME FilesInv, AheadInv, NEW a \in Administrators, ReplacePointer(a),
           base[a] # None, base[a] = pointer
    PROVE  pointer' \in Accepted /\ pointer \in Accepted /\ Ahead(pointer', pointer)
<1>1. pc[a] = "staged_pointer" /\ pointer' = mem[a] /\ a \in Processes
    BY DEF ReplacePointer, Processes
<1>2. mem[a] \in Accepted
    BY <1>1 DEF FilesInv, Held
<1>3. pc[a] # "down"
    BY <1>1
<1> QED
    BY <1>1, <1>2, <1>3 DEF AheadInv

\* For any number of administrators, no sequence of activations, recoveries,
\* failed writes, crashes and restarts lets an administrator that replaces
\* the accepted.json its memory goes back to lower the minimum accepted
\* revision or install a state below it.
THEOREM FloorHolds == Spec => FloorNeverFalls
<1> DEFINE Step == \A a \in Administrators :
                       ReplacePointer(a) /\ base[a] # None /\ base[a] = pointer =>
                           /\ pointer'.state.minimum >= pointer.state.minimum
                           /\ pointer'.state.revision >= pointer.state.minimum
<1>1. ASSUME FilesInv, AheadInv PROVE Step
  <2> SUFFICES ASSUME NEW a \in Administrators, ReplacePointer(a),
                      base[a] # None, base[a] = pointer
               PROVE  /\ pointer'.state.minimum >= pointer.state.minimum
                      /\ pointer'.state.revision >= pointer.state.minimum
    OBVIOUS
  <2>1. pointer \in Accepted /\ pointer' \in Accepted /\ Ahead(pointer', pointer)
    BY <1>1, MovesAhead
  <2>2. /\ pointer.state.minimum \in Nat /\ pointer'.state.minimum \in Nat
        /\ pointer.state.revision \in Nat /\ pointer'.state.revision \in Nat
        /\ pointer.state.minimum <= pointer.state.revision
        /\ pointer'.state.minimum <= pointer'.state.revision
    BY <2>1, AcceptedNumbers
  <2> QED
    BY <2>1, <2>2 DEF Ahead
<1>2. FilesInv /\ AheadInv => [Step]_vars
    BY <1>1
<1> QED
    BY <1>2, AheadInvariant, PTL DEF FloorNeverFalls

\* For any number of administrators, one that replaces the accepted.json its
\* memory goes back to never lowers the recovery sequence, and a recovery
\* raises it, so it does not take effect again on top of itself.
THEOREM RecoveryOnce == Spec => RecoveryNotReplayed
<1> DEFINE Step == \A a \in Administrators :
                       ReplacePointer(a) /\ base[a] # None /\ base[a] = pointer
                       /\ pointer' # pointer =>
                           /\ pointer'.sequence >= pointer.sequence
                           /\ pointer'.recovery # None => pointer'.sequence > pointer.sequence
<1>1. ASSUME FilesInv, AheadInv PROVE Step
    BY <1>1, MovesAhead DEF Ahead
<1>2. FilesInv /\ AheadInv => [Step]_vars
    BY <1>1
<1> QED
    BY <1>2, AheadInvariant, PTL DEF RecoveryNotReplayed
=============================================================================
