------------------------ MODULE DesktopBackendProofs ------------------------
(***************************************************************************)
(* Proofs about both jobs of the desktop backend, for every number of plan  *)
(* steps, approvals, faults and files.                                      *)
(*                                                                         *)
(* The desktop job (ProductionExecutionChain).  Its invariant adds to the   *)
(* properties what the pipeline relies on without testing it: that all      *)
(* tokens are recorded before the first is consumed (Ordered, WellFormed),  *)
(* and that a handle that is behind the disk is only behind, never          *)
(* different (Includes(disk, handle)).                                      *)
(*                                                                         *)
(* The user job (ProductJobs, the instance J).  Its invariant is about two  *)
(* records at once: the one on disk, and the one the operation in progress  *)
(* is about to write, which a crash may drop at any point.  Both are sound  *)
(* with respect to the chain, whose own steps may fall between the three    *)
(* commits of a sync.                                                       *)
(***************************************************************************)
EXTENDS DesktopBackend, TLAPS

\* A leaf is tried with Zenon, then with SMT, then with each again for longer.
USE ZenonT(3), SMTT(20), ZenonT(60), SMTT(120)

-----------------------------------------------------------------------------
(* The desktop job. *)

OpType == [pc : Pc, step : Steps, receipts : [Steps -> Nat], inWindow : BOOLEAN]

Issued(c) == \A s \in Steps : c.token[s] # 0

\* What every record of the chain satisfies.
WellFormed(c) ==
    /\ c.used # {} => Issued(c)
    /\ c.stage \in Finished \cup {"CapabilitiesConsumed"} => c.used = Steps
    /\ c.stage \in {"Certified", "RolledBack"} => c.inWindow /\ attested > 0

\* The loop of ensure_capabilities has a token for every step before op.step, and
\* behind it there is one for every step.
Ordered ==
    /\ op.pc \in {"ensure", "sign", "record"}
          => \A s \in Steps : s < op.step => handle.token[s] # 0
    /\ op.pc \in {"collect", "twin", "execute"} => Issued(handle)
    /\ op.pc = "record" => signed[op.step] # 0
    /\ op.pc \in {"signAttestation", "certify"} => handle.stage = "Executed" /\ handle.inWindow
    /\ op.pc = "certify" => attested > 0

\* d has all tokens and receipts of c.
Includes(d, c) ==
    /\ c.used \subseteq d.used
    /\ \A s \in Steps : c.token[s] # 0 => d.token[s] = c.token[s]

\* No command runs while the backend is down.
TypeInv == TypeOK /\ (handle = NoChain => op = Idle)

ChainInv ==
    /\ TypeInv
    /\ disk # NoChain => WellFormed(disk)
    /\ handle # NoChain
          => disk # NoChain /\ WellFormed(handle) /\ Ordered /\ Includes(disk, handle)
    /\ ReceiptsAreDurable

-----------------------------------------------------------------------------
(* Types of the records the actions build. *)

LEMMA IdleType == Idle \in OpType /\ Idle.pc = "idle"
BY StepsAssumption DEF Idle, OpType, Pc, NoReceipts, Steps

\* The program points the signing, collecting and executing loops pass through.
LEMMA PcMembers ==
    "ensure" \in Pc /\ "sign" \in Pc /\ "collect" \in Pc /\ "twin" \in Pc /\ "execute" \in Pc
BY DEF Pc

LEMMA AdvanceType ==
    ASSUME op \in OpType, NEW pc \in Pc, NEW after \in Pc
    PROVE  /\ Advance(pc, after) \in OpType
           /\ Advance(pc, after).receipts = op.receipts
           /\ op.step < N => Advance(pc, after).pc = pc /\ Advance(pc, after).step = op.step + 1
           /\ op.step = N => Advance(pc, after).pc = after
<1>1. /\ op.step \in Steps
      /\ op.step < N => op.step + 1 \in Steps
      /\ 1 \in Steps
  BY StepsAssumption DEF OpType, Steps
<1>2. CASE op.step < N
  <2>1. Advance(pc, after) = [op EXCEPT !.pc = pc, !.step = op.step + 1]
    BY <1>2 DEF Advance
  <2>2. op.step # N
    BY <1>1, <1>2, StepsAssumption DEF Steps
  <2> QED BY <2>1, <2>2, <1>1, <1>2 DEF OpType
<1>3. CASE ~(op.step < N)
  <2>1. Advance(pc, after) = [op EXCEPT !.pc = after, !.step = 1]
    BY <1>3 DEF Advance
  <2> QED BY <2>1, <1>1, <1>3 DEF OpType
<1> QED BY <1>2, <1>3

LEMMA CountUpType ==
    ASSUME NEW n \in Nat
    PROVE  CountUp(n) \in Nat /\ CountUp(n) > 0
BY ChainBoundsAssumption DEF CountUp

LEMMA ChainTypes ==
    ASSUME handle \in Chain, op \in OpType, signed \in [Steps -> Nat]
    PROVE  /\ ApprovedChain \in Chain
           /\ CancelledChain \in Chain
           /\ RolledBackChain \in Chain
           /\ IssuedChain \in Chain
           /\ ConsumedChain \in Chain
           /\ ExecutedChain \in Chain
           /\ CertifiedChain \in Chain
BY DEF Chain, Stage, OpType, ApprovedChain, CancelledChain, RolledBackChain,
       IssuedChain, ConsumedChain, ExecutedChain, CertifiedChain

LEMMA InitialChainType == InitialChain \in Chain
BY DEF InitialChain, Chain, Stage

LEMMA CommitTypes ==
    ASSUME TypeInv, NEW next \in Chain, handle # NoChain,
           Committed(next) \/ CommitFails(next)
    PROVE  /\ disk' \in Chain \cup {NoChain}
           /\ handle' \in Chain
           /\ handle' # NoChain
           /\ faults' \in 0 .. MaxFaults
BY ChainBoundsAssumption, NoChainAssumption DEF TypeInv, TypeOK, Committed, CommitFails, Fault

LEMMA HandType ==
    ASSUME TypeInv, handle # NoChain, Hand
    PROVE  op' \in OpType /\ granted' \subseteq Steps \X Nat
<1>1. op \in OpType /\ handle.token[op.step] \in Nat /\ op.step \in Steps
  BY DEF TypeInv, TypeOK, OpType, Chain
<1>2. Advance("collect", "twin") \in OpType
  BY <1>1, AdvanceType, PcMembers
<1>3. op' \in OpType
  BY <1>1, <1>2 DEF Hand, OpType
<1> QED BY <1>1, <1>3 DEF Hand, TypeInv, TypeOK

\* The types are kept by every step.
LEMMA TypeInductive ==
    ASSUME TypeInv, [Next]_vars
    PROVE  TypeInv'
<1> USE DEF TypeInv
<1>0. /\ op \in OpType
      /\ handle # NoChain => handle \in Chain
      /\ op.pc # "idle" => handle # NoChain
  BY IdleType DEF TypeOK, OpType
<1>1. CASE UNCHANGED vars
  BY <1>1 DEF TypeOK, vars
<1>2. CASE Recover
  BY ZenonT(60), <1>2, InitialChainType, NoChainAssumption
     DEF Recover, Running, TypeOK, StatusOf, Status, ghosts, Chain, Stage
<1>3. CASE Crash
  BY <1>3, IdleType, ChainBoundsAssumption
     DEF Crash, Stop, Fault, TypeOK, Status, ghosts, OpType
<1>4. CASE Quit
  BY <1>4, IdleType DEF Quit, Stop, TypeOK, Status, ghosts, OpType
<1>5. CASE Tick
  BY <1>5, ChainBoundsAssumption DEF Tick, TypeOK, ghosts
<1>6. CASE Command
  <2>1. CASE Approve \/ ApproveFails
    BY <2>1, <1>0, ChainTypes, CommitTypes
       DEF Approve, ApproveFails, CanApprove, IsIdle, Running, TypeOK, Status, ghosts
  <2>2. CASE Cancel \/ CancelFails
    BY <2>2, <1>0, ChainTypes, CommitTypes
       DEF Cancel, CancelFails, CanCancel, IsIdle, Running, TypeOK, Status, ghosts
  <2>3. CASE Rollback \/ RollbackFails
    BY <2>3, <1>0, ChainTypes, CommitTypes
       DEF Rollback, RollbackFails, CanRollback, IsIdle, Running, TypeOK, Status, ghosts
  <2>4. CASE CancelUnapproved
    BY <2>4 DEF CancelUnapproved, TypeOK, Status, ghosts
  <2>5. CASE Execute \/ ResumeAttestation
    BY <2>5 DEF Execute, ResumeAttestation, CanExecute, IsIdle, Running, TypeOK, Pc, ghosts
  <2> QED BY <1>6, <2>1, <2>2, <2>3, <2>4, <2>5 DEF Command
<1>7. CASE Pipeline
  <2>1. CASE EnsureExisting
    BY ZenonT(60), <2>1, <1>0, AdvanceType DEF EnsureExisting, TypeOK, Pc, ghosts, OpType
  <2>2. CASE Issue
    BY <2>2, <1>0 DEF Issue, TypeOK, Pc, ghosts
  <2>3. CASE Sign
    BY <2>3, <1>0, CountUpType, IdleType, ChainBoundsAssumption
       DEF Sign, TypeOK, Pc, ghosts, Return, Fault, OpType
  <2>4. CASE RecordIssuance
    <3>1. handle # NoChain /\ handle \in Chain
      BY <2>4, <1>0 DEF RecordIssuance, CanRecordIssuance
    <3>2. IssuedChain \in Chain
      BY <3>1, <1>0, ChainTypes DEF TypeOK
    <3>3. Advance("ensure", "collect") \in OpType
      BY <1>0, AdvanceType, PcMembers
    <3> QED BY <2>4, <3>1, <3>2, <3>3, CommitTypes DEF RecordIssuance, TypeOK, ghosts, OpType
  <2>5. CASE RecordIssuanceFails
    BY <2>5, <1>0, ChainTypes, CommitTypes, IdleType
       DEF RecordIssuanceFails, CanRecordIssuance, Return, TypeOK, Pc, ghosts, OpType
  <2>6. CASE CollectPersisted
    BY <2>6, <1>0, HandType DEF CollectPersisted, TypeOK, OpType
  <2>7. CASE Consume
    BY <2>7, <1>0, ChainTypes, CommitTypes, HandType DEF Consume, CanConsume, TypeOK, OpType
  <2>8. CASE ConsumeFails
    BY <2>8, <1>0, ChainTypes, CommitTypes, IdleType
       DEF ConsumeFails, CanConsume, Return, TypeOK, Pc, ghosts, OpType
  <2>9. CASE Twin
    <3>1. PICK b \in BOOLEAN : op' = [op EXCEPT !.pc = "execute", !.inWindow = b]
      <4>1. (clock <= 1) \in BOOLEAN
        OBVIOUS
      <4>2. op' = [op EXCEPT !.pc = "execute", !.inWindow = (clock <= 1)]
        BY <2>9 DEF Twin
      <4> QED BY <4>1, <4>2, Zenon
    <3>2. op' \in OpType
      BY <3>1, <1>0 DEF OpType, Pc
    <3> QED BY <2>9, <3>2, <1>0 DEF Twin, TypeOK, ghosts, OpType
  <2>10. CASE RecordExecution
    BY <2>10, <1>0, ChainTypes, CommitTypes
       DEF RecordExecution, CanRecordExecution, TypeOK, Pc, ghosts
  <2>11. CASE RecordExecutionFails
    BY <2>11, <1>0, ChainTypes, CommitTypes, IdleType
       DEF RecordExecutionFails, CanRecordExecution, Return, TypeOK, Pc, ghosts, OpType
  <2>12. CASE Attest
    BY <2>12, <1>0 DEF Attest, TypeOK, Pc, ghosts
  <2>13. CASE SignAttestation
    BY <2>13, <1>0, CountUpType, IdleType, ChainBoundsAssumption
       DEF SignAttestation, TypeOK, Pc, ghosts, Return, Fault, OpType
  <2>14. CASE RecordCertificate
    BY <2>14, <1>0, ChainTypes, CommitTypes, IdleType
       DEF RecordCertificate, CanCertify, Return, TypeOK, Status, Pc, ghosts, OpType
  <2>15. CASE RecordCertificateFails
    BY <2>15, <1>0, ChainTypes, CommitTypes, IdleType
       DEF RecordCertificateFails, CanCertify, Return, TypeOK, Pc, ghosts, OpType
  <2>16. CASE Rejected
    BY <2>16, IdleType DEF Rejected, Return, TypeOK, ghosts, OpType
  <2>17. CASE Refused
    BY <2>17, IdleType, ChainBoundsAssumption DEF Refused, Return, Fault, TypeOK, ghosts, OpType
  <2> QED BY <1>7, <2>1, <2>2, <2>3, <2>4, <2>5, <2>6, <2>7, <2>8, <2>9, <2>10, <2>11,
             <2>12, <2>13, <2>14, <2>15, <2>16, <2>17 DEF Pipeline
<1> QED BY <1>1, <1>2, <1>3, <1>4, <1>5, <1>6, <1>7 DEF Next

\* Type correctness of the chain, the session and the pipeline.
THEOREM TypeCorrect == Spec => []TypeOK
<1>1. Init => TypeInv
  BY IdleType, ChainBoundsAssumption DEF Init, TypeInv, TypeOK, Status, OpType
<1>2. TypeInv => TypeOK
  BY DEF TypeInv
<1> QED BY <1>1, <1>2, TypeInductive, PTL DEF Spec

-----------------------------------------------------------------------------
(* The chain is well-formed and only grows. *)

\* The record each operation writes is well-formed and includes the one before.
LEMMA NextChains ==
    ASSUME ChainInv, handle # NoChain
    PROVE  /\ CanApprove => WellFormed(ApprovedChain) /\ Includes(ApprovedChain, handle)
           /\ CanCancel => WellFormed(CancelledChain) /\ Includes(CancelledChain, handle)
           /\ CanRollback => WellFormed(RolledBackChain) /\ Includes(RolledBackChain, handle)
           /\ CanRecordIssuance => WellFormed(IssuedChain) /\ Includes(IssuedChain, handle)
           /\ CanConsume => WellFormed(ConsumedChain) /\ Includes(ConsumedChain, handle)
           /\ CanRecordExecution => WellFormed(ExecutedChain) /\ Includes(ExecutedChain, handle)
           /\ CanCertify => WellFormed(CertifiedChain) /\ Includes(CertifiedChain, handle)
<1>1. /\ handle \in Chain
      /\ op \in OpType
      /\ op.step \in Steps
      /\ WellFormed(handle)
      /\ Ordered
  BY DEF ChainInv, TypeInv, TypeOK, OpType
<1> USE <1>1 DEF Chain, WellFormed, Includes, Issued, Finished
<1>2. CanApprove => WellFormed(ApprovedChain) /\ Includes(ApprovedChain, handle)
  BY DEF CanApprove, ApprovedChain
<1>3. CanCancel => WellFormed(CancelledChain) /\ Includes(CancelledChain, handle)
  BY DEF CanCancel, CancelledChain
<1>4. CanRollback => WellFormed(RolledBackChain) /\ Includes(RolledBackChain, handle)
  BY DEF CanRollback, RolledBackChain
<1>5. CanRecordIssuance => WellFormed(IssuedChain) /\ Includes(IssuedChain, handle)
  BY DEF CanRecordIssuance, IssuedChain
<1>6. CanConsume => WellFormed(ConsumedChain) /\ Includes(ConsumedChain, handle)
  BY DEF CanConsume, ConsumedChain, Ordered
<1>7. CanRecordExecution => WellFormed(ExecutedChain) /\ Includes(ExecutedChain, handle)
  BY DEF CanRecordExecution, ExecutedChain
<1>8. CanCertify => WellFormed(CertifiedChain) /\ Includes(CertifiedChain, handle)
  BY DEF CanCertify, CertifiedChain, Ordered
<1> QED BY <1>2, <1>3, <1>4, <1>5, <1>6, <1>7, <1>8

\* A commit, also one that reports an error, keeps everything that does not depend
\* on where the command goes on.
LEMMA CommitKeeps ==
    ASSUME ChainInv, handle # NoChain, NEW next \in Chain,
           WellFormed(next), Includes(next, handle),
           Committed(next) \/ CommitFails(next), attested' = attested
    PROVE  /\ disk' # NoChain
           /\ handle' # NoChain
           /\ WellFormed(disk)'
           /\ WellFormed(handle)'
           /\ Includes(disk, handle)'
           /\ Includes(disk', disk)
<1>1. next # NoChain
  BY NoChainAssumption
<1>2. /\ disk' \in {disk, next}
      /\ handle' \in {handle, next}
      /\ \/ disk' = disk /\ handle' = handle
         \/ handle = disk /\ disk' = next
  BY DEF Committed, CommitFails
<1>3. disk # NoChain /\ WellFormed(disk) /\ WellFormed(handle) /\ Includes(disk, handle)
  BY DEF ChainInv
<1>4. Includes(next, next) /\ Includes(disk, disk)
  BY DEF Includes
<1>5. (\A c \in {disk, handle, next} : WellFormed(c)) => WellFormed(disk)' /\ WellFormed(handle)'
  BY <1>2 DEF WellFormed, Issued
<1>6. Includes(disk', disk) /\ Includes(disk', handle')
  BY <1>2, <1>3, <1>4
<1>7. Includes(disk, handle)'
  BY <1>6 DEF Includes
<1> QED BY <1>1, <1>2, <1>3, <1>5, <1>6, <1>7

\* What the executor has been granted stays on a disk that only grows.
LEMMA DurableKept ==
    ASSUME ChainInv, disk # NoChain, disk' # NoChain, Includes(disk', disk)
    PROVE  \A g \in granted : /\ disk' # NoChain
                               /\ g[1] \in disk'.used
                               /\ disk'.token[g[1]] = g[2]
<1> SUFFICES ASSUME NEW g \in granted
             PROVE  g[1] \in disk'.used /\ disk'.token[g[1]] = g[2]
  OBVIOUS
<1>1. g[1] \in disk.used /\ disk.token[g[1]] = g[2]
  BY DEF ChainInv, ReceiptsAreDurable
<1>2. g[1] \in Steps
  BY <1>1 DEF ChainInv, TypeInv, TypeOK, Chain
<1>3. disk.token[g[1]] # 0
  BY <1>1, <1>2 DEF ChainInv, WellFormed, Issued
<1> QED BY <1>1, <1>2, <1>3 DEF Includes

LEMMA ChainInductive ==
    ASSUME ChainInv, [Next]_vars
    PROVE  ChainInv'
<1>0. /\ TypeInv
      /\ TypeInv'
      /\ op \in OpType
      /\ op.step \in Steps
      /\ signed \in [Steps -> Nat]
      /\ handle # NoChain => handle \in Chain
      /\ op.pc # "idle" => handle # NoChain
  BY IdleType, TypeInductive DEF ChainInv, TypeInv, TypeOK, OpType
\* No operation writes the chain.
<1>1. ASSUME UNCHANGED <<disk, handle, granted>>, attested' = attested \/ attested' > 0,
             handle # NoChain => Ordered'
      PROVE  ChainInv'
  <2>1. ReceiptsAreDurable'
    BY <1>1 DEF ChainInv, ReceiptsAreDurable
  <2>2. disk # NoChain => WellFormed(disk)'
    BY <1>1 DEF ChainInv, WellFormed, Issued
  <2>3. handle # NoChain => disk' # NoChain /\ WellFormed(handle)' /\ Includes(disk, handle)'
    BY <1>1 DEF ChainInv, WellFormed, Issued, Includes
  <2> QED BY <1>0, <1>1, <2>1, <2>2, <2>3 DEF ChainInv
\* An operation writes the chain and the executor gets nothing.
<1>2. ASSUME NEW next \in Chain, handle # NoChain, WellFormed(next), Includes(next, handle),
             Committed(next) \/ CommitFails(next), UNCHANGED <<attested, granted>>, Ordered'
      PROVE  ChainInv'
  <2>1. /\ disk' # NoChain /\ handle' # NoChain
        /\ WellFormed(disk)' /\ WellFormed(handle)' /\ Includes(disk, handle)'
        /\ Includes(disk', disk)
    BY <1>2, CommitKeeps
  <2>2. disk # NoChain
    BY <1>2 DEF ChainInv
  <2>3. ReceiptsAreDurable'
    BY <1>2, <2>1, <2>2, DurableKept DEF ReceiptsAreDurable
  <2> QED BY <1>0, <2>1, <2>3, <1>2 DEF ChainInv
\* An idle backend is in order.
<1>3. op' = Idle \/ op'.pc \in {"idle", "attest"} => Ordered'
  BY IdleType DEF Ordered
<1>4. CASE UNCHANGED vars
  BY <1>4, <1>1 DEF ChainInv, Ordered, Issued, vars
<1>5. CASE Recover
  <2>1. op' = Idle /\ disk' = handle' /\ UNCHANGED <<attested, granted>>
    BY <1>5 DEF Recover, Running, ChainInv, TypeInv, ghosts
  <2>2. CASE disk = NoChain
    <3>1. disk' = InitialChain
      BY <1>5, <2>2 DEF Recover
    <3>2. WellFormed(disk)' /\ Includes(disk, handle)'
      BY <2>1, <3>1 DEF WellFormed, Includes, InitialChain, Finished
    <3>3. granted = {}
      BY <2>2 DEF ChainInv, ReceiptsAreDurable
    <3>4. ReceiptsAreDurable'
      BY <2>1, <3>3 DEF ReceiptsAreDurable
    <3>5. WellFormed(handle)'
      BY <2>1, <3>2 DEF WellFormed, Issued
    <3> QED BY <1>0, <1>3, <2>1, <3>1, <3>2, <3>4, <3>5, InitialChainType, NoChainAssumption
            DEF ChainInv
  <2>3. CASE disk # NoChain
    <3>1. disk' = disk /\ handle' = disk
      BY <1>5, <2>3 DEF Recover
    <3>2. WellFormed(disk)' /\ WellFormed(handle)' /\ Includes(disk, handle)'
      BY <2>1, <2>3, <3>1 DEF ChainInv, WellFormed, Issued, Includes
    <3>3. ReceiptsAreDurable'
      BY <2>1, <3>1 DEF ChainInv, ReceiptsAreDurable
    <3> QED BY <1>0, <1>3, <2>1, <2>3, <3>1, <3>2, <3>3 DEF ChainInv
  <2> QED BY <2>2, <2>3
<1>6. CASE Crash \/ Quit
  <2>1. handle' = NoChain /\ UNCHANGED <<disk, attested, granted>>
    BY <1>6 DEF Crash, Quit, Stop, ghosts
  <2>2. ReceiptsAreDurable'
    BY <2>1 DEF ChainInv, ReceiptsAreDurable
  <2>3. disk # NoChain => WellFormed(disk)'
    BY <2>1 DEF ChainInv, WellFormed, Issued
  <2> QED BY <1>0, <2>1, <2>2, <2>3 DEF ChainInv
<1>7. CASE Tick
  BY <1>7, <1>1 DEF Tick, ghosts, ChainInv, Ordered, Issued
<1>8. CASE Command
  <2>1. CASE Approve \/ ApproveFails
    BY <2>1, <1>0, <1>2, <1>3, ChainTypes, NextChains
       DEF Approve, ApproveFails, CanApprove, IsIdle, Running, ghosts
  <2>2. CASE Cancel \/ CancelFails
    BY <2>2, <1>0, <1>2, <1>3, ChainTypes, NextChains
       DEF Cancel, CancelFails, CanCancel, IsIdle, Running, ghosts
  <2>3. CASE Rollback \/ RollbackFails
    BY <2>3, <1>0, <1>2, <1>3, ChainTypes, NextChains
       DEF Rollback, RollbackFails, CanRollback, IsIdle, Running, ghosts
  <2>4. CASE CancelUnapproved
    BY <2>4, <1>1, <1>3 DEF CancelUnapproved, IsIdle, ghosts
  <2>5. CASE Execute
    <3>1. op'.pc = "ensure" /\ op'.step = 1
      BY <2>5, <1>0 DEF Execute, CanExecute, IsIdle, OpType, Idle
    <3>2. Ordered'
      BY <3>1, StepsAssumption DEF Ordered, Steps
    <3> QED BY <2>5, <3>2, <1>1 DEF Execute, ghosts
  <2>6. CASE ResumeAttestation
    BY <2>6, <1>0, <1>1, <1>3 DEF ResumeAttestation, OpType, ghosts
  <2> QED BY <1>8, <2>1, <2>2, <2>3, <2>4, <2>5, <2>6 DEF Command
<1>9. CASE Pipeline
  <2>0. op.pc # "idle" => handle \in Chain /\ Ordered
    BY <1>0 DEF ChainInv
  <2>1. CASE EnsureExisting
    <3>1. op' = Advance("ensure", "collect") /\ op.pc = "ensure" /\ handle.token[op.step] # 0
      BY <2>1 DEF EnsureExisting
    <3>2. CASE op.step < N
      <4>1. op'.pc = "ensure" /\ op'.step = op.step + 1
        BY <3>1, <3>2, <1>0, AdvanceType, PcMembers
      <4>2. \A s \in Steps : s < op.step + 1 => handle.token[s] # 0
        <5> SUFFICES ASSUME NEW s \in Steps, s < op.step + 1
                     PROVE  handle.token[s] # 0
          OBVIOUS
        <5>1. s < op.step \/ s = op.step
          BY <1>0, StepsAssumption DEF Steps
        <5> QED BY <5>1, <3>1, <2>0 DEF Ordered
      <4>3. handle' = handle
        BY <2>1 DEF EnsureExisting
      <4>4. Ordered'
        BY <4>1, <4>2, <4>3 DEF Ordered
      <4> QED BY <4>4, <2>1, <1>1 DEF EnsureExisting, ghosts
    <3>3. CASE op.step = N
      <4>1. op'.pc = "collect"
        BY <3>1, <3>3, <1>0, AdvanceType, PcMembers
      <4>2. Issued(handle)
        BY <3>1, <3>3, <2>0, StepsAssumption DEF Issued, Steps, Ordered
      <4> QED BY <4>1, <4>2, <2>1, <1>1 DEF EnsureExisting, Ordered, Issued, ghosts
    <3> QED BY <3>2, <3>3, <1>0, StepsAssumption DEF Steps
  <2>2. CASE Issue
    BY <2>2, <2>0, <1>0, <1>1 DEF Issue, Ordered, OpType, ghosts
  <2>3. CASE Sign
    <3>1. CASE op' = [op EXCEPT !.pc = "record"]
      BY <2>3, <3>1, <2>0, <1>0, <1>1, CountUpType DEF Sign, Ordered, OpType
    <3>2. CASE op' = Idle
      BY <2>3, <3>2, <1>1, <1>3 DEF Sign
    <3> QED BY <2>3, <3>1, <3>2 DEF Sign, Return
  <2>4. CASE RecordIssuance
    <3>1. /\ op.pc = "record"
          /\ op' = Advance("ensure", "collect")
          /\ handle' = IssuedChain
          /\ handle \in Chain
          /\ handle # NoChain
          /\ UNCHANGED <<attested, granted, signed>>
      BY <2>4, <2>0, <1>0 DEF RecordIssuance, CanRecordIssuance, Committed, ghosts
    <3>2. /\ \A s \in Steps : s < op.step => handle.token[s] # 0
          /\ signed[op.step] # 0
      BY <3>1, <2>0 DEF Ordered
    <3>3. \A s \in Steps : s <= op.step => handle'.token[s] # 0
      <4> SUFFICES ASSUME NEW s \in Steps, s <= op.step
                   PROVE  handle'.token[s] # 0
        OBVIOUS
      <4>1. s = op.step \/ s < op.step
        BY <1>0 DEF Steps
      <4> QED BY <4>1, <3>1, <3>2, <1>0 DEF IssuedChain, Chain
    <3>4. Ordered'
      <4>1. CASE op.step < N
        <5>1. op'.pc = "ensure" /\ op'.step = op.step + 1
          BY <4>1, <3>1, <1>0, AdvanceType, PcMembers
        <5>2. \A s \in Steps : s < op.step + 1 => s <= op.step
          BY <1>0, StepsAssumption DEF Steps
        <5> QED BY <5>1, <5>2, <3>3 DEF Ordered
      <4>2. CASE op.step = N
        <5>1. op'.pc = "collect"
          BY <3>1, <4>2, <1>0, AdvanceType, PcMembers
        <5>2. Issued(handle')
          BY <3>3, <4>2, StepsAssumption DEF Issued, Steps
        <5> QED BY <5>1, <5>2 DEF Ordered, Issued
      <4> QED BY <4>1, <4>2, <1>0, StepsAssumption DEF Steps
    <3>5. IssuedChain \in Chain /\ WellFormed(IssuedChain) /\ Includes(IssuedChain, handle)
      BY <2>4, <3>1, <1>0, ChainTypes, NextChains DEF RecordIssuance
    <3> QED BY <2>4, <3>1, <3>4, <3>5, <1>2 DEF RecordIssuance
  <2>5. CASE RecordIssuanceFails
    BY <2>5, <2>0, <1>0, <1>2, <1>3, ChainTypes, NextChains
       DEF RecordIssuanceFails, CanRecordIssuance, Return, ghosts
  <2>6. ASSUME Hand, handle # NoChain, op.pc = "collect",
               disk' # NoChain, WellFormed(disk)', WellFormed(handle)', Includes(disk, handle)',
               Includes(disk', disk), handle'.token = handle.token,
               op.step \in handle'.used, attested' = attested
        PROVE  ChainInv'
    <3>1. Issued(handle)
      BY <2>6, <2>0 DEF Ordered
    <3>2. disk # NoChain
      BY <2>6 DEF ChainInv
    <3>3. op.step \in disk'.used /\ disk'.token[op.step] = handle.token[op.step]
      BY <2>6, <3>1, <1>0 DEF Includes, Issued
    <3>4. ReceiptsAreDurable'
      BY <2>6, <3>2, <3>3, DurableKept DEF ReceiptsAreDurable, Hand
    <3>5. op'.pc \in {"collect", "twin"}
      <4>1. Advance("collect", "twin") \in OpType /\ Advance("collect", "twin").pc \in {"collect", "twin"}
        BY <1>0, AdvanceType, PcMembers, StepsAssumption DEF Steps
      <4> QED BY <4>1, <2>6 DEF Hand, OpType
    <3>6. Ordered'
      BY <2>6, <3>1, <3>5 DEF Ordered, Issued
    <3> QED BY <1>0, <2>6, <3>4, <3>6 DEF ChainInv
  <2>7. CASE CollectPersisted
    <3>1. /\ UNCHANGED <<disk, handle, attested>>
          /\ Hand
          /\ op.pc = "collect"
          /\ handle # NoChain
          /\ op.step \in handle.used
      BY <2>7, <1>0 DEF CollectPersisted
    <3>2. disk' # NoChain /\ WellFormed(disk)' /\ WellFormed(handle)' /\ Includes(disk, handle)'
      BY <3>1 DEF ChainInv, WellFormed, Issued, Includes
    <3>3. Includes(disk', disk)
      BY <3>1 DEF Includes
    <3> QED BY <3>1, <3>2, <3>3, <2>6
  <2>8. CASE Consume
    <3>1. /\ Committed(ConsumedChain)
          /\ CanConsume
          /\ attested' = attested
          /\ Hand
          /\ op.pc = "collect"
          /\ handle # NoChain
          /\ handle \in Chain
      BY <2>8, <1>0 DEF Consume, CanConsume
    <3>2. ConsumedChain \in Chain /\ WellFormed(ConsumedChain) /\ Includes(ConsumedChain, handle)
      BY <3>1, <1>0, ChainTypes, NextChains
    <3>3. handle'.token = handle.token /\ op.step \in handle'.used
      BY <3>1 DEF Committed, ConsumedChain, Chain
    <3>4. /\ disk' # NoChain
          /\ WellFormed(disk)' /\ WellFormed(handle)' /\ Includes(disk, handle)'
          /\ Includes(disk', disk)
      BY <3>1, <3>2, CommitKeeps
    <3> QED BY <3>1, <3>3, <3>4, <2>6
  <2>9. CASE ConsumeFails
    BY <2>9, <2>0, <1>0, <1>2, <1>3, ChainTypes, NextChains
       DEF ConsumeFails, CanConsume, Return, ghosts
  <2>10. CASE Twin
    <3>1. op'.pc = "execute"
      BY <2>10, <1>0 DEF Twin, OpType
    <3> QED BY <2>10, <3>1, <2>0, <1>1 DEF Twin, Ordered, Issued, ghosts
  <2>11. CASE RecordExecution
    <3>1. op'.pc = "attest"
      BY <2>11, <1>0 DEF RecordExecution, OpType
    <3> QED BY <2>11, <3>1, <2>0, <1>0, <1>2, <1>3, ChainTypes, NextChains
            DEF RecordExecution, CanRecordExecution, ghosts
  <2>12. CASE RecordExecutionFails
    BY <2>12, <2>0, <1>0, <1>2, <1>3, ChainTypes, NextChains
       DEF RecordExecutionFails, CanRecordExecution, Return, ghosts
  <2>13. CASE Attest
    <3>1. op'.pc = "signAttestation"
      BY <2>13, <1>0 DEF Attest, OpType
    <3> QED BY <2>13, <3>1, <1>1 DEF Attest, Ordered, ghosts
  <2>14. CASE SignAttestation
    <3>1. attested' > 0 /\ UNCHANGED <<disk, handle, granted, signed>>
      BY <2>14, CountUpType DEF SignAttestation, ChainInv, TypeInv, TypeOK
    <3>2. CASE op' = [op EXCEPT !.pc = "certify"]
      <4>1. op'.pc = "certify"
        BY <3>2, <1>0 DEF OpType
      <4>2. Ordered'
        BY <4>1, <3>1, <2>0, <2>14 DEF SignAttestation, Ordered
      <4> QED BY <4>2, <3>1, <1>1
    <3>3. CASE op' = Idle
      BY <3>1, <3>3, <1>1, <1>3
    <3> QED BY <2>14, <3>2, <3>3 DEF SignAttestation, Return
  <2>15. CASE RecordCertificate \/ RecordCertificateFails
    BY <2>15, <2>0, <1>0, <1>2, <1>3, ChainTypes, NextChains
       DEF RecordCertificate, RecordCertificateFails, CanCertify, Return, ghosts
  <2>16. CASE Rejected \/ Refused
    BY <2>16, <1>1, <1>3 DEF Rejected, Refused, Return, ghosts
  <2> QED BY <1>9, <2>1, <2>2, <2>3, <2>4, <2>5, <2>7, <2>8, <2>9, <2>10, <2>11,
             <2>12, <2>13, <2>14, <2>15, <2>16 DEF Pipeline
<1> QED BY <1>4, <1>5, <1>6, <1>7, <1>8, <1>9 DEF Next

\* Of a behaviour of the backend, what concerns the desktop job is one of Spec.
LEMMA DesktopBehaviour == BackendSpec => Spec
<1>1. BackendInit => Init
  BY DEF BackendInit
<1>2. [BackendNext]_backendVars => [Next]_vars
  BY DEF BackendNext, Desktop, Product, backendVars
<1> QED BY <1>1, <1>2, PTL DEF BackendSpec, Spec

LEMMA ChainInvariant == BackendSpec => []ChainInv
<1>1. Init => ChainInv
  BY IdleType, ChainBoundsAssumption
     DEF Init, ChainInv, TypeInv, TypeOK, Status, OpType, ReceiptsAreDurable
<1> QED BY <1>1, ChainInductive, DesktopBehaviour, PTL DEF Spec

\* consume_capability persists the receipt before it returns the authorization: the
\* executor never holds a receipt that a restart would not find.
THEOREM ReceiptsDurable == BackendSpec => []ReceiptsAreDurable
<1>1. ChainInv => ReceiptsAreDurable
  BY DEF ChainInv
<1> QED BY <1>1, ChainInvariant, PTL

\* However many tokens crashes and retries have signed for a step, the executor is
\* authorized with one of them at most.
THEOREM OneTokenGranted == BackendSpec => []OneTokenPerStep
<1>1. ChainInv => OneTokenPerStep
  <2> SUFFICES ASSUME ChainInv, NEW g \in granted, NEW h \in granted, g[1] = h[1]
               PROVE  g = h
    BY DEF OneTokenPerStep
  <2>1. g[2] = h[2]
    BY DEF ChainInv, ReceiptsAreDurable
  <2>2. g \in Steps \X Nat /\ h \in Steps \X Nat
    BY DEF ChainInv, TypeInv, TypeOK
  <2> QED BY <2>1, <2>2
<1> QED BY <1>1, ChainInvariant, PTL

\* A chain at CapabilitiesConsumed or behind it has a token and a receipt for every
\* step of the plan, although record_capability_consumption compares with the recorded
\* tokens only.
THEOREM ConsumedCovers == BackendSpec => []ConsumedCoversPlan
<1>1. ChainInv => ConsumedCoversPlan
  BY StepsAssumption DEF ChainInv, WellFormed, Issued, ConsumedCoversPlan, Steps
<1> QED BY <1>1, ChainInvariant, PTL

\* A certificate on disk belongs to an attested execution inside the approval window.
THEOREM CertifiedInside == BackendSpec => []CertifiedInWindow
<1>1. ChainInv => CertifiedInWindow
  BY DEF ChainInv, WellFormed, CertifiedInWindow
<1> QED BY <1>1, ChainInvariant, PTL

-----------------------------------------------------------------------------
(* The user job. *)

\* The files of all kinds, the states of a chain, and what a record holds of them.
JobFiles == UNION {Contents[k] : k \in DOMAIN Contents}
JobRoles == UNION {J!required_input_roles(k) : k \in DOMAIN Contents}
ChainState ==
    [stage : {"None", "Initial", "Approved", "CapabilitiesIssued", "CapabilitiesConsumed",
              "Executed", "Certified", "RolledBack", "Cancelled"}, approval : Nat]
InputMaps == UNION {[S -> JobFiles] : S \in SUBSET JobRoles}

JobRecord ==
    [kind : DOMAIN Contents \cup {None}, phase : J!UserJobPhase \cup {"Absent", "Empty"},
     inputs : InputMaps, intent : BOOLEAN, plan : InputMaps \cup {None},
     approval : Nat \cup {None}, production : ChainState \cup {None},
     evidence : {None, "accepted", "rejected"}, certificate : ChainState \cup {None}]

JobOperation ==
    [pc : {"idle", "blob", "commit", "write"}, next : JobRecord,
     content : JobFiles \cup {None}, then : {"done", "observed", "evidence"}]

JobTyped ==
    /\ jobDisk \in JobRecord
    /\ jobHandle \in {jobDisk, J!NoJob}
    /\ jobOp \in JobOperation
    /\ blobs \in [JobFiles -> {"absent", "pending", "present"}]
    /\ chain \in ChainState
    /\ approvals \in Nat

\* A chain state the record holds as certified is the chain's own, which has gone no
\* further than its rollback.
CertifiedPart(c) ==
    c # None /\ c.stage = "Certified" =>
        chain.stage \in {"Certified", "RolledBack"} /\ c.approval = chain.approval

\* What a record of the job satisfies whether it is on disk or about to be.
Sound(r) ==
    /\ r.phase # "Absent" => r.kind \in DOMAIN Contents
    /\ r.phase = "Absent" => r.production = None
    /\ r.phase \in {"Absent", "Empty", "Draft", "UnresolvedIntent"} => r.approval = None
    /\ r.phase = "Approved" => r.approval # None
    /\ r.approval # None => r.approval <= approvals
    /\ chain.approval > 0 => r.approval # None /\ chain.approval <= r.approval
    /\ CertifiedPart(r.production)
    /\ CertifiedPart(r.certificate)
    /\ r.phase \in {"Accepted", "RecoveryRequired"} =>
          r.evidence = "accepted" /\ r.certificate # None /\ r.certificate.stage = "Certified"

\* What validate_certificate adds before a record is written.
Consistent(r) ==
    r.phase \in {"Accepted", "RecoveryRequired"} => r.certificate = r.production

Stored(inputs, pending) ==
    \A role \in DOMAIN inputs : inputs[role] \in pending \/ blobs[inputs[role]] = "present"

HasCertified(r) == r.production # None /\ r.production.stage = "Certified"

\* The inductive invariant of the user job: the record on disk, and the one the
\* operation in progress is about to write.
JobInv ==
    /\ JobTyped
    /\ Sound(jobDisk) /\ Consistent(jobDisk) /\ Stored(jobDisk.inputs, {})
    /\ jobOp.pc # "idle" => Sound(jobOp.next)
    /\ jobOp.pc = "blob" => Stored(jobOp.next.inputs, {jobOp.content}) /\ jobOp.content \in JobFiles
    /\ jobOp.pc \in {"commit", "write"} => Stored(jobOp.next.inputs, {})
    /\ jobOp.pc = "write" => Consistent(jobOp.next)
    /\ jobOp.pc \in {"commit", "write"} /\ jobOp.then = "evidence" => HasCertified(jobOp.next)

-----------------------------------------------------------------------------
(* The operations on a record. *)

\* A command that finds a job in hand finds the record of the disk there.
LEMMA InHand ==
    ASSUME JobTyped, jobHandle.phase \in J!UserJobPhase
    PROVE  jobHandle = jobDisk
BY DEF JobTyped, J!NoJob, J!UserJobRecord, J!UserJobPhase

\* A record without inputs.
LEMMA EmptyInputs == << >> \in InputMaps
<1>1. << >> \in [{} -> JobFiles]
  OBVIOUS
<1>2. {} \in SUBSET JobRoles
  OBVIOUS
<1> QED BY <1>1, <1>2, Zenon DEF InputMaps

\* What UserJobRecord makes.
LEMMA FreshRecords ==
    ASSUME NEW kind \in DOMAIN Contents \cup {None},
           NEW phase \in J!UserJobPhase \cup {"Absent", "Empty"}
    PROVE  /\ J!UserJobRecord(kind, phase) \in JobRecord
           /\ J!UserJobRecord(kind, phase).phase = phase
           /\ J!UserJobRecord(kind, phase).kind = kind
           /\ J!UserJobRecord(kind, phase).inputs = << >>
           /\ J!UserJobRecord(kind, phase).approval = None
           /\ J!UserJobRecord(kind, phase).production = None
           /\ J!UserJobRecord(kind, phase).certificate = None
BY EmptyInputs DEF J!UserJobRecord, JobRecord

\* No operation in progress.
LEMMA IdleOperation == J!Idle \in JobOperation /\ J!Idle.pc = "idle"
<1>1. J!NoJob \in JobRecord
  BY FreshRecords DEF J!NoJob
<1> QED BY <1>1 DEF J!Idle, JobOperation

\* An operation that goes on to commit r.
LEMMA CommitOperation ==
    ASSUME NEW r \in JobRecord, NEW then \in {"done", "observed", "evidence"}, J!Commit(r, then)
    PROVE  /\ jobOp' \in JobOperation
           /\ jobOp'.pc = "commit" /\ jobOp'.next = r /\ jobOp'.then = then
<1>1. J!NoJob \in JobRecord
  BY FreshRecords DEF J!NoJob
<1> QED BY <1>1 DEF J!Commit, J!Idle, JobOperation

\* The inputs of import_input.
LEMMA ImportedInputs ==
    ASSUME NEW inputs \in InputMaps, NEW role \in JobRoles, NEW content \in JobFiles
    PROVE  /\ J!Imported(inputs, role, content) \in InputMaps
           /\ DOMAIN J!Imported(inputs, role, content) = DOMAIN inputs \cup {role}
           /\ \A x \in DOMAIN inputs \cup {role} :
                 J!Imported(inputs, role, content)[x] = IF x = role THEN content ELSE inputs[x]
<1>1. PICK S \in SUBSET JobRoles : inputs \in [S -> JobFiles]
  BY DEF InputMaps
<1>2. S \cup {role} \in SUBSET JobRoles
  OBVIOUS
<1>3. J!Imported(inputs, role, content) \in [S \cup {role} -> JobFiles]
  BY <1>1 DEF J!Imported
<1> QED BY <1>1, <1>2, <1>3 DEF J!Imported, InputMaps

\* import_input, record_unresolved and record_compiled start over from the inputs.
LEMMA StartedOver ==
    ASSUME NEW r \in JobRecord, NEW s \in JobRecord, Sound(r), r.phase \in {"Draft", "UnresolvedIntent"},
           s.kind = r.kind, s.phase \in {"Draft", "UnresolvedIntent", "PermissionRequired"},
           s.approval = None, s.production = None, s.certificate = None
    PROVE  Sound(s)
BY DEF Sound, CertifiedPart

LEMMA StartOver ==
    ASSUME NEW r \in JobRecord, Sound(r), r.phase \in {"Draft", "UnresolvedIntent"}
    PROVE  /\ \A role, content :
                 J!Imported(r.inputs, role, content) \in InputMaps =>
                    /\ J!import_input(r, role, content) \in JobRecord
                    /\ Sound(J!import_input(r, role, content))
                    /\ J!import_input(r, role, content).inputs = J!Imported(r.inputs, role, content)
           /\ \A s \in {J!record_unresolved(r), J!record_compiled(r)} :
                 s \in JobRecord /\ Sound(s) /\ s.inputs = r.inputs
<1> DEFINE Over(s, inputs) ==
        /\ s \in JobRecord /\ s.inputs = inputs /\ s.kind = r.kind
        /\ s.phase \in {"Draft", "UnresolvedIntent", "PermissionRequired"}
        /\ s.approval = None /\ s.production = None /\ s.certificate = None
<1>1. ASSUME NEW role, NEW content, J!Imported(r.inputs, role, content) \in InputMaps
      PROVE  Over(J!import_input(r, role, content), J!Imported(r.inputs, role, content))
  <2>1. J!clear_derived_material(r).inputs = r.inputs
    BY DEF J!clear_derived_material, J!clear_compiled_material, JobRecord
  <2>2. J!import_input(r, role, content)
          = [J!clear_derived_material(r) EXCEPT !.inputs = J!Imported(r.inputs, role, content), !.phase = "Draft"]
    BY <2>1 DEF J!import_input
  <2> HIDE DEF Over
  <2>3. ASSUME NEW i \in InputMaps
        PROVE  Over([J!clear_derived_material(r) EXCEPT !.inputs = i, !.phase = "Draft"], i)
    BY DEF J!clear_derived_material, J!clear_compiled_material, JobRecord, J!UserJobPhase, Over
  <2> QED BY <1>1, <2>2, <2>3
<1>2. Over(J!record_unresolved(r), r.inputs)
  BY DEF J!record_unresolved, J!clear_compiled_material, JobRecord, J!UserJobPhase
<1>3. Over(J!record_compiled(r), r.inputs)
  BY ZenonT(60) DEF J!record_compiled, J!clear_compiled_material, JobRecord, J!UserJobPhase
<1>4. ASSUME NEW s, NEW inputs, Over(s, inputs)
      PROVE  s \in JobRecord /\ Sound(s) /\ s.inputs = inputs
  BY <1>4, StartedOver
<1> HIDE DEF Over
<1> QED BY <1>1, <1>2, <1>3, <1>4, Zenon

\* The operations that only change the phase.
LEMMA Rephased ==
    ASSUME NEW r \in JobRecord, Sound(r), r.phase # "Absent",
           NEW phase \in J!UserJobPhase \ {"Draft", "UnresolvedIntent"},
           phase = "Approved" => r.approval # None,
           phase \in {"Accepted", "RecoveryRequired"} => r.phase \in {"Accepted", "RecoveryRequired"}
    PROVE  /\ [r EXCEPT !.phase = phase] \in JobRecord
           /\ Sound([r EXCEPT !.phase = phase])
           /\ [r EXCEPT !.phase = phase].inputs = r.inputs
<1> DEFINE s == [r EXCEPT !.phase = phase]
<1>1. /\ s \in JobRecord /\ s.phase = phase /\ s.kind = r.kind /\ s.inputs = r.inputs
      /\ s.approval = r.approval /\ s.production = r.production /\ s.evidence = r.evidence
      /\ s.certificate = r.certificate
  BY DEF JobRecord
<1> HIDE DEF s
<1>2. Sound(s)
  BY <1>1 DEF Sound, CertifiedPart, J!UserJobPhase
<1> QED BY <1>1, <1>2 DEF s

\* approve_product_job: the record of the next approval.
LEMMA ApprovedRecord ==
    ASSUME NEW r \in JobRecord, Sound(r), r.phase \in {"PermissionRequired", "ReadyForApproval", "ApprovalExpired"},
           chain \in ChainState, approvals \in Nat, NEW n, n = approvals + 1
    PROVE  LET s == J!record_canonical_approval(r, n)
           IN  /\ s \in JobRecord /\ s.inputs = r.inputs
               /\ chain' = chain /\ approvals' = n => Sound(s)'
<1> DEFINE s == J!record_canonical_approval(r, n)
<1>0. n \in Nat
  OBVIOUS
<1>1. /\ s \in JobRecord /\ s.phase = "Approved" /\ s.kind = r.kind /\ s.inputs = r.inputs
      /\ s.approval = n /\ s.production = r.production /\ s.certificate = r.certificate
  BY ZenonT(60), <1>0 DEF JobRecord, J!record_canonical_approval, J!UserJobPhase
<1> HIDE DEF s
<1>2. chain.approval \in Nat /\ r.approval \in Nat \cup {None}
  BY DEF JobRecord, ChainState
<1>3. r.approval # None => r.approval \in Nat /\ r.approval <= approvals
  BY <1>2 DEF Sound
<1>4. chain.approval > 0 => chain.approval <= n
  BY <1>2, <1>3 DEF Sound
<1>5. ASSUME chain' = chain, approvals' = n PROVE Sound(s)'
  BY <1>0, <1>1, <1>2, <1>4, <1>5, NoneAssumption DEF Sound, CertifiedPart
<1> QED BY <1>1, <1>5 DEF s

\* The observation of the chain state the step leaves (record_production_observation).
LEMMA ObservedAfter ==
    ASSUME NEW r \in JobRecord, Sound(r)', NEW c \in ChainState, c = chain', r.phase # "Absent"
    PROVE  /\ J!record_production_observation(r, c) \in JobRecord
           /\ Sound(J!record_production_observation(r, c))'
           /\ J!record_production_observation(r, c).inputs = r.inputs
<1> DEFINE s == J!record_production_observation(r, c)
<1>1. PICK phase \in {"RecoveryRequired", "Executing"} :
           s = [r EXCEPT !.production = c, !.phase = phase] /\ (phase = "RecoveryRequired" => r.phase = phase)
  <2>1. CASE r.phase = "RecoveryRequired"
    BY <2>1 DEF J!record_production_observation
  <2>2. CASE r.phase # "RecoveryRequired"
    BY <2>2 DEF J!record_production_observation
  <2> QED BY <2>1, <2>2
<1> HIDE DEF s
<1>2. /\ s \in JobRecord /\ s.phase = phase /\ s.kind = r.kind /\ s.inputs = r.inputs
      /\ s.approval = r.approval /\ s.production = c /\ s.evidence = r.evidence
      /\ s.certificate = r.certificate
  BY ZenonT(60), <1>1 DEF JobRecord, J!UserJobPhase
<1>3. Sound(s)'
  BY <1>1, <1>2 DEF Sound, CertifiedPart
<1> QED BY <1>2, <1>3 DEF s

\* The evidence and the certificate that apply_production_chain commits behind an
\* observation.
LEMMA EvidenceRecord ==
    ASSUME NEW r \in JobRecord, Sound(r), r.phase # "Absent"
    PROVE  /\ J!record_evidence(r, "accepted") \in JobRecord
           /\ Sound(J!record_evidence(r, "accepted"))
           /\ J!record_evidence(r, "accepted").inputs = r.inputs
           /\ J!record_evidence(r, "accepted").production = r.production
<1> DEFINE s == J!record_evidence(r, "accepted")
<1>1. PICK phase \in {"RecoveryRequired", "Executing"} :
           s = [r EXCEPT !.evidence = "accepted", !.phase = phase] /\ (phase = "RecoveryRequired" => r.phase = phase)
  <2>1. CASE r.phase = "RecoveryRequired"
    BY <2>1 DEF J!record_evidence
  <2>2. CASE r.phase # "RecoveryRequired"
    BY <2>2 DEF J!record_evidence
  <2> QED BY <2>1, <2>2
<1> HIDE DEF s
<1>2. /\ s \in JobRecord /\ s.phase = phase /\ s.kind = r.kind /\ s.inputs = r.inputs
      /\ s.approval = r.approval /\ s.production = r.production /\ s.evidence = "accepted"
      /\ s.certificate = r.certificate
  BY <1>1 DEF JobRecord, J!UserJobPhase
<1>3. Sound(s)
  BY <1>1, <1>2 DEF Sound
<1> QED BY <1>2, <1>3 DEF s

LEMMA CertificateRecord ==
    ASSUME NEW r \in JobRecord, Sound(r), r.phase = "Executing", HasCertified(r), r.evidence = "accepted"
    PROVE  /\ J!record_certificate(r, r.production) \in JobRecord
           /\ Sound(J!record_certificate(r, r.production))
           /\ J!record_certificate(r, r.production).inputs = r.inputs
<1> DEFINE s == J!record_certificate(r, r.production)
<1>1. /\ s \in JobRecord /\ s.phase = "Accepted" /\ s.kind = r.kind /\ s.inputs = r.inputs
      /\ s.approval = r.approval /\ s.production = r.production /\ s.evidence = r.evidence
      /\ s.certificate = r.production
  BY DEF JobRecord, J!UserJobPhase, J!record_certificate, HasCertified
<1> HIDE DEF s
<1>2. Sound(s)
  BY <1>1 DEF Sound, HasCertified
<1> QED BY <1>1, <1>2 DEF s

-----------------------------------------------------------------------------
(* What a step does to the parts of the invariant it does not aim at. *)

\* A record stays sound when approvals are added and the chain goes on under the
\* approval it has.
LEMMA SoundKept ==
    ASSUME NEW r \in JobRecord, Sound(r), approvals \in Nat,
           approvals' \in Nat, approvals <= approvals',
           chain'.approval = chain.approval,
           chain.stage \in {"Certified", "RolledBack"} => chain'.stage \in {"Certified", "RolledBack"}
    PROVE  Sound(r)'
BY NoneAssumption DEF Sound, CertifiedPart, JobRecord

\* A step behind which a commit of r is under way.
LEMMA RecordCommitKeeps ==
    ASSUME NEW r \in JobRecord, NEW then \in {"done", "observed", "evidence"},
           J!Commit(r, then), jobDisk' \in JobRecord, jobHandle' \in {jobDisk', J!NoJob},
           blobs' \in [JobFiles -> {"absent", "pending", "present"}],
           chain' \in ChainState, approvals' \in Nat,
           Sound(jobDisk)', Consistent(jobDisk)', Stored(jobDisk.inputs, {})',
           Sound(r)', Stored(r.inputs, {})', then = "evidence" => HasCertified(r)
    PROVE  JobInv'
<1>1. /\ jobOp' \in JobOperation
      /\ jobOp'.pc = "commit" /\ jobOp'.next = r /\ jobOp'.then = then
  BY CommitOperation
<1>2. JobTyped'
  BY <1>1 DEF JobTyped
<1>3. Sound(jobOp.next)' /\ Stored(jobOp.next.inputs, {})'
  BY <1>1 DEF Sound, Stored, CertifiedPart
<1>4. then = "evidence" => HasCertified(jobOp.next)'
  BY <1>1 DEF HasCertified
<1> QED BY <1>1, <1>2, <1>3, <1>4 DEF JobInv

\* A step behind which no operation is in progress.
LEMMA RecordIdleKeeps ==
    ASSUME jobOp' = J!Idle, jobDisk' \in JobRecord, jobHandle' \in {jobDisk', J!NoJob},
           blobs' \in [JobFiles -> {"absent", "pending", "present"}],
           chain' \in ChainState, approvals' \in Nat,
           Sound(jobDisk)', Consistent(jobDisk)', Stored(jobDisk.inputs, {})'
    PROVE  JobInv'
<1>1. jobOp' \in JobOperation /\ jobOp'.pc = "idle"
  BY IdleOperation
<1> QED BY <1>1 DEF JobInv, JobTyped

\* A step that leaves the operation in progress alone.
LEMMA OperationKept ==
    ASSUME JobInv, UNCHANGED <<jobOp, blobs, approvals>>, UNCHANGED jobDisk,
           jobHandle' \in {jobDisk', J!NoJob}, chain' \in ChainState,
           chain'.approval = chain.approval,
           chain.stage \in {"Certified", "RolledBack"} => chain'.stage \in {"Certified", "RolledBack"}
    PROVE  JobInv'
<1>1. JobTyped'
  BY DEF JobInv, JobTyped
<1>2. Sound(jobDisk)' /\ (jobOp.pc # "idle" => Sound(jobOp.next)')
  <2>1. jobOp.next \in JobRecord /\ jobDisk \in JobRecord /\ approvals \in Nat
    BY DEF JobInv, JobTyped, JobOperation
  <2> QED BY <2>1, SoundKept DEF JobInv
<1> QED BY <1>1, <1>2 DEF JobInv, Consistent, Stored, HasCertified

-----------------------------------------------------------------------------
(* The commands. *)

\* What a command may rely on.
CommandMayRely ==
    /\ JobTyped /\ jobDisk \in JobRecord /\ chain \in ChainState /\ approvals \in Nat
    /\ blobs \in [JobFiles -> {"absent", "pending", "present"}]
    /\ Sound(jobDisk) /\ Consistent(jobDisk) /\ Stored(jobDisk.inputs, {})
    /\ J!WithJob => jobHandle = jobDisk /\ jobDisk.phase \in J!UserJobPhase /\ jobDisk.phase # "Absent"

LEMMA Relied == JobInv => CommandMayRely
BY InHand DEF JobInv, JobTyped, CommandMayRely, J!WithJob, J!UserJobPhase

\* A command that commits a record with the inputs of the one in hand, and leaves the
\* chain under its approval.
LEMMA CommandCommits ==
    ASSUME CommandMayRely, J!WithJob, NEW r \in JobRecord, NEW then \in {"done", "observed"},
           J!Commit(r, then), UNCHANGED <<jobDisk, jobHandle, blobs>>, r.inputs = jobDisk.inputs,
           chain' \in ChainState, approvals' \in Nat, Sound(jobDisk)', Sound(r)'
    PROVE  JobInv'
<1>1. Stored(r.inputs, {})' /\ Stored(jobDisk.inputs, {})' /\ Consistent(jobDisk)'
  BY DEF CommandMayRely, Stored, Consistent
<1>2. jobDisk' \in JobRecord /\ jobHandle' \in {jobDisk', J!NoJob}
      /\ blobs' \in [JobFiles -> {"absent", "pending", "present"}]
  BY DEF CommandMayRely
<1> QED BY <1>1, <1>2, RecordCommitKeeps

LEMMA CommandRephases ==
    ASSUME CommandMayRely, J!WithJob, NEW r \in JobRecord, J!Commit(r, "done"),
           UNCHANGED <<jobDisk, jobHandle, blobs, chain, approvals>>, r.inputs = jobDisk.inputs, Sound(r)
    PROVE  JobInv'
<1>1. Sound(jobDisk)' /\ Sound(r)'
  BY SoundKept DEF CommandMayRely
<1> QED BY <1>1, CommandCommits DEF CommandMayRely

LEMMA CreateKeeps == JobInv /\ J!create_product_job => JobInv'
<1> SUFFICES ASSUME JobInv, J!create_product_job PROVE JobInv'
  OBVIOUS
<1>1. PICK kind \in DOMAIN Contents : J!create(kind)
  BY DEF J!create_product_job
<1>2. /\ J!NoJob \in JobRecord /\ J!EmptyDirectory(kind) \in JobRecord /\ J!initial(kind) \in JobRecord
      /\ J!EmptyDirectory(kind).inputs = << >> /\ J!initial(kind).inputs = << >>
      /\ J!EmptyDirectory(kind).approval = None /\ J!initial(kind).approval = None
      /\ J!EmptyDirectory(kind).production = None /\ J!initial(kind).production = None
      /\ J!EmptyDirectory(kind).certificate = None /\ J!initial(kind).certificate = None
      /\ J!EmptyDirectory(kind).phase = "Empty" /\ J!initial(kind).phase = "Draft"
      /\ J!EmptyDirectory(kind).kind = kind /\ J!initial(kind).kind = kind
      /\ J!NoJob.approval = None
  BY FreshRecords DEF J!NoJob, J!EmptyDirectory, J!initial, J!UserJobPhase
<1>3. /\ jobDisk = J!NoJob /\ jobDisk' = J!EmptyDirectory(kind) /\ jobHandle' = jobDisk'
      /\ jobOp' = [J!Idle EXCEPT !.pc = "write", !.next = J!initial(kind)]
      /\ UNCHANGED <<blobs, chain, approvals>>
  BY <1>1 DEF J!create_product_job, J!create, J!prodVars
<1>4. jobOp' \in JobOperation /\ jobOp'.pc = "write" /\ jobOp'.next = J!initial(kind) /\ jobOp'.then = "done"
  BY <1>2, <1>3 DEF J!Idle, JobOperation
<1>5. ~ (chain.approval > 0)
  BY <1>2, <1>3 DEF Sound, JobInv
<1>6. JobTyped'
  BY <1>2, <1>3, <1>4 DEF JobTyped, JobInv
<1>7. Sound(jobDisk)' /\ Sound(jobOp.next)'
  BY <1>2, <1>3, <1>4, <1>5 DEF Sound, CertifiedPart
<1>8. DOMAIN << >> = {}
  OBVIOUS
<1> QED BY <1>2, <1>3, <1>4, <1>6, <1>7, <1>8 DEF JobInv, Consistent, Stored

LEMMA ImportKeeps == JobInv /\ J!import_product_job_input => JobInv'
<1> SUFFICES ASSUME JobInv, J!import_product_job_input PROVE JobInv'
  OBVIOUS
<1>1. CommandMayRely
  BY Relied
<1>2. PICK role \in J!required_input_roles(jobHandle.kind), content \in Contents[jobHandle.kind] :
         /\ J!can_import_input(jobHandle, role)
         /\ J!persist_blob(J!import_input(jobHandle, role, content), content)
  BY DEF J!import_product_job_input
<1>3. jobHandle = jobDisk /\ UNCHANGED <<jobDisk, jobHandle, chain, approvals>>
  BY <1>1 DEF CommandMayRely, J!import_product_job_input, J!prodVars
<1> DEFINE r == J!import_input(jobDisk, role, content)
<1>4. jobDisk.phase \in {"Draft", "UnresolvedIntent"} /\ jobDisk.kind \in DOMAIN Contents
  BY <1>1, <1>2, <1>3 DEF CommandMayRely, J!can_import_input, J!Editable, Sound
<1>5. role \in JobRoles /\ content \in JobFiles
  BY <1>2, <1>3, <1>4 DEF JobRoles, JobFiles
<1>6. jobDisk.inputs \in InputMaps /\ jobDisk \in JobRecord
  BY <1>1 DEF JobRecord, CommandMayRely
<1>7. r \in JobRecord /\ Sound(r) /\ r.inputs = J!Imported(jobDisk.inputs, role, content)
  <2>1. J!Imported(jobDisk.inputs, role, content) \in InputMaps
    BY <1>5, <1>6, ImportedInputs
  <2>2. PICK d, m : d = jobDisk /\ m = J!Imported(jobDisk.inputs, role, content)
    OBVIOUS
  <2>3. d \in JobRecord /\ Sound(d) /\ d.phase \in {"Draft", "UnresolvedIntent"}
    BY <1>1, <1>4, <1>6, <2>2 DEF CommandMayRely
  <2>4. /\ J!import_input(d, role, content) \in JobRecord
        /\ Sound(J!import_input(d, role, content))
        /\ J!import_input(d, role, content).inputs = J!Imported(d.inputs, role, content)
    BY <2>1, <2>2, <2>3, StartOver
  <2> QED BY <2>2, <2>4
<1>8. /\ DOMAIN r.inputs = DOMAIN jobDisk.inputs \cup {role}
      /\ \A x \in DOMAIN r.inputs : r.inputs[x] = IF x = role THEN content ELSE jobDisk.inputs[x]
  <2>1. /\ DOMAIN J!Imported(jobDisk.inputs, role, content) = DOMAIN jobDisk.inputs \cup {role}
        /\ \A x \in DOMAIN jobDisk.inputs \cup {role} :
              J!Imported(jobDisk.inputs, role, content)[x] = IF x = role THEN content ELSE jobDisk.inputs[x]
    <3>1. PICK i : i = jobDisk.inputs
      OBVIOUS
    <3>2. i \in InputMaps
      BY <1>6, <3>1
    <3>3. /\ DOMAIN J!Imported(i, role, content) = DOMAIN i \cup {role}
          /\ \A x \in DOMAIN i \cup {role} :
                J!Imported(i, role, content)[x] = IF x = role THEN content ELSE i[x]
      BY <1>5, <3>2, ImportedInputs
    <3> QED BY <3>1, <3>3
  <2> HIDE DEF r
  <2> QED BY <1>7, <2>1
<1>9. PICK s : s = r
  OBVIOUS
<1> HIDE DEF r
<1>10. Sound(jobDisk)' /\ Sound(s)'
  BY <1>1, <1>3, <1>7, <1>9, SoundKept DEF CommandMayRely
<1>11. CASE blobs[content] = "present"
  <2>1. J!Commit(s, "done") /\ UNCHANGED blobs
    BY <1>2, <1>3, <1>9, <1>11 DEF J!persist_blob, r
  <2>2. Stored(s.inputs, {})' /\ Stored(jobDisk.inputs, {})' /\ Consistent(jobDisk)'
    BY <1>1, <1>3, <1>8, <1>9, <1>11, <2>1 DEF CommandMayRely, Stored, Consistent
  <2>3. jobDisk' \in JobRecord /\ jobHandle' \in {jobDisk', J!NoJob}
      /\ blobs' \in [JobFiles -> {"absent", "pending", "present"}]
      /\ chain' \in ChainState /\ approvals' \in Nat
    BY <1>1, <1>3, <2>1 DEF CommandMayRely
  <2> QED BY <1>7, <1>9, <1>10, <2>1, <2>2, <2>3, RecordCommitKeeps
<1>12. CASE blobs[content] # "present"
  <2>1. /\ blobs[content] = "absent"
        /\ blobs' = [blobs EXCEPT ![content] = "pending"]
        /\ jobOp' = [J!Idle EXCEPT !.pc = "blob", !.next = s, !.content = content]
    BY <1>2, <1>3, <1>9, <1>12 DEF J!persist_blob, r
  <2>2. /\ jobOp' \in JobOperation /\ jobOp'.pc = "blob" /\ jobOp'.next = s /\ jobOp'.content = content
    <3>1. J!NoJob \in JobRecord
      BY FreshRecords DEF J!NoJob
    <3> QED BY <3>1, <2>1, <1>5, <1>7, <1>9 DEF J!Idle, JobOperation
  <2>3. JobTyped'
    BY <1>1, <1>3, <1>5, <2>1, <2>2 DEF CommandMayRely, JobTyped
  <2>4. \A c \in JobFiles : blobs[c] = "present" => blobs'[c] = "present"
    BY <1>1, <1>5, <2>1 DEF CommandMayRely
  <2>5. \A x \in DOMAIN jobDisk.inputs : jobDisk.inputs[x] \in JobFiles
    BY <1>6 DEF InputMaps
  <2>6. Stored(jobDisk.inputs, {})' /\ Consistent(jobDisk)'
    BY <1>1, <1>3, <2>4, <2>5 DEF CommandMayRely, Stored, Consistent
  <2>7. Stored(jobOp.next.inputs, {jobOp.content})'
    BY <1>1, <1>8, <1>9, <2>2, <2>4, <2>5 DEF CommandMayRely, Stored
  <2>8. Sound(jobOp.next)'
    BY <1>10, <2>2 DEF Sound, CertifiedPart
  <2> QED BY <1>5, <1>10, <2>2, <2>3, <2>6, <2>7, <2>8 DEF JobInv
<1> QED BY <1>11, <1>12

LEMMA PrepareKeeps == JobInv /\ J!prepare_product_job => JobInv'
<1> SUFFICES ASSUME JobInv, J!prepare_product_job PROVE JobInv'
  OBVIOUS
<1>1. CommandMayRely /\ J!WithJob
  BY Relied DEF J!prepare_product_job
<1>2. PICK r \in J!prepare_store(jobHandle) : J!Commit(r, "done")
  BY DEF J!prepare_product_job
<1>3. /\ UNCHANGED <<jobDisk, jobHandle, blobs, chain, approvals>>
      /\ jobHandle = jobDisk /\ jobDisk.phase \in {"Draft", "UnresolvedIntent"}
  BY <1>1 DEF CommandMayRely, J!prepare_product_job, J!prodVars, J!Editable
<1>4. jobDisk.kind \in DOMAIN Contents
  BY <1>1, <1>3 DEF Sound, CommandMayRely
<1>5. r \in {J!record_unresolved(jobDisk), J!record_compiled(jobDisk)}
  BY <1>2, <1>3, <1>4, KindsAssumption
     DEF J!prepare_store, J!prepare_static_social, J!prepare_background_cleanup,
         J!prepare_brand_export, J!prepare_print_poster, J!Prepared
<1>6. r \in JobRecord /\ Sound(r) /\ r.inputs = jobDisk.inputs
  BY <1>1, <1>3, <1>5, StartOver DEF CommandMayRely
<1> QED BY <1>1, <1>2, <1>3, <1>6, CommandRephases

LEMMA ApproveKeeps == JobInv /\ J!approve_product_job => JobInv'
<1> SUFFICES ASSUME JobInv, J!approve_product_job PROVE JobInv'
  OBVIOUS
<1>1. CommandMayRely /\ J!WithJob
  BY Relied DEF J!approve_product_job
<1>2. PICK n : n = approvals + 1
  OBVIOUS
<1>3. PICK r : r = J!record_canonical_approval(jobDisk, n)
  OBVIOUS
<1>4. /\ jobHandle = jobDisk /\ J!Commit(r, "done") /\ approvals' = n
      /\ UNCHANGED <<jobDisk, jobHandle, blobs, chain>>
      /\ jobDisk.phase \in {"PermissionRequired", "ReadyForApproval", "ApprovalExpired"}
  BY <1>1, <1>2, <1>3 DEF CommandMayRely, J!approve_product_job, J!can_record_canonical_approval
<1>5. r \in JobRecord /\ r.inputs = jobDisk.inputs /\ Sound(r)'
  <2>1. PICK d : d = jobDisk
    OBVIOUS
  <2> QED BY <1>1, <1>2, <1>3, <1>4, <2>1, ApprovedRecord DEF CommandMayRely
<1>6. approvals' \in Nat /\ approvals <= approvals' /\ chain' \in ChainState
  BY <1>1, <1>2, <1>4 DEF CommandMayRely
<1>7. Sound(jobDisk)'
  BY <1>1, <1>4, <1>6, SoundKept DEF CommandMayRely
<1> QED BY <1>1, <1>4, <1>5, <1>6, <1>7, CommandCommits

LEMMA RephasingKeeps ==
    JobInv /\ (J!StartExpired \/ J!StartWithoutSigner \/ J!cancel_product_job
               \/ J!FailExecution \/ J!VerifyRecovery) => JobInv'
<1> SUFFICES ASSUME JobInv, J!StartExpired \/ J!StartWithoutSigner \/ J!cancel_product_job
                            \/ J!FailExecution \/ J!VerifyRecovery
             PROVE  JobInv'
  OBVIOUS
<1>1. CommandMayRely /\ J!WithJob /\ UNCHANGED <<jobDisk, jobHandle, blobs, chain, approvals>>
  BY Relied DEF J!StartExpired, J!StartWithoutSigner, J!CanStart, J!cancel_product_job,
                J!FailExecution, J!VerifyRecovery, J!prodVars
<1>2. jobHandle = jobDisk /\ jobDisk \in JobRecord /\ jobDisk.phase # "Absent" /\ Sound(jobDisk)
  BY <1>1 DEF CommandMayRely
<1>3. ASSUME NEW phase \in J!UserJobPhase \ {"Draft", "UnresolvedIntent", "Approved"},
             J!Commit([jobDisk EXCEPT !.phase = phase], "done"),
             phase \in {"Accepted", "RecoveryRequired"} => jobDisk.phase \in {"Accepted", "RecoveryRequired"}
      PROVE  JobInv'
  <2>1. PICK r : r = [jobDisk EXCEPT !.phase = phase]
    OBVIOUS
  <2>2. r \in JobRecord /\ Sound(r) /\ r.inputs = jobDisk.inputs
    BY <1>2, <1>3, <2>1, Rephased
  <2> QED BY <1>1, <1>3, <2>1, <2>2, CommandRephases
<1>4. /\ J!StartExpired => J!Commit([jobDisk EXCEPT !.phase = "ApprovalExpired"], "done")
      /\ J!StartWithoutSigner => J!Commit([jobDisk EXCEPT !.phase = "ProductionSignerUnavailable"], "done")
      /\ J!cancel_product_job => J!Commit([jobDisk EXCEPT !.phase = "Cancelled"], "done")
      /\ J!FailExecution => J!Commit([jobDisk EXCEPT !.phase = "ExecutionFailed"], "done")
      /\ J!VerifyRecovery => J!Commit([jobDisk EXCEPT !.phase = "Accepted"], "done")
                             /\ jobDisk.phase = "RecoveryRequired"
  BY <1>2, Zenon DEF J!StartExpired, J!StartWithoutSigner, J!cancel_product_job, J!FailExecution,
              J!VerifyRecovery, J!record_approval_expired, J!record_signer_unavailable,
              J!cancel_before_execution, J!record_execution_failed, J!record_recovery_verified,
              J!can_record_recovery_verified
<1>5. {"ApprovalExpired", "ProductionSignerUnavailable", "Cancelled", "ExecutionFailed", "Accepted"}
         \subseteq J!UserJobPhase \ {"Draft", "UnresolvedIntent", "Approved"}
  BY DEF J!UserJobPhase
<1> QED BY <1>3, <1>4, <1>5

LEMMA StartKeeps == JobInv /\ J!start_product_job_execution => JobInv'
<1> SUFFICES ASSUME JobInv, J!start_product_job_execution PROVE JobInv'
  OBVIOUS
<1>1. CommandMayRely /\ J!WithJob
  BY Relied DEF J!start_product_job_execution, J!CanStart
<1>2. /\ jobHandle = jobDisk /\ jobDisk \in JobRecord /\ jobDisk.phase = "Approved" /\ Sound(jobDisk)
      /\ UNCHANGED <<jobDisk, jobHandle, blobs, approvals>> /\ approvals \in Nat /\ chain \in ChainState
  BY <1>1 DEF CommandMayRely, J!start_product_job_execution, J!CanStart
<1>3. jobDisk.approval \in Nat
  BY <1>2 DEF Sound, JobRecord
<1>4. \/ chain' = chain
      \/ /\ chain.stage \in {"None", "Initial"}
         /\ chain' = [stage |-> "Approved", approval |-> jobDisk.approval]
  BY <1>2 DEF J!start_product_job_execution, J!ChainOfJob, J!Unstarted
<1>5. chain' \in ChainState
  BY <1>2, <1>3, <1>4 DEF ChainState
<1>6. Sound(jobDisk)'
  <2>1. CASE chain' = chain
    BY <1>2, <2>1, SoundKept
  <2>2. CASE /\ chain.stage \in {"None", "Initial"}
             /\ chain' = [stage |-> "Approved", approval |-> jobDisk.approval]
    <3>1. chain'.approval = jobDisk.approval /\ chain'.stage = "Approved" /\ jobDisk.approval <= jobDisk.approval
      BY <2>2, <1>3
    <3>2. ~ (jobDisk.production # None /\ jobDisk.production.stage = "Certified")
          /\ ~ (jobDisk.certificate # None /\ jobDisk.certificate.stage = "Certified")
      BY <1>2, <2>2 DEF Sound, CertifiedPart
    <3> QED BY <1>2, <3>1, <3>2 DEF Sound, CertifiedPart
  <2> QED BY <1>4, <2>1, <2>2
<1>7. PICK c : c = chain'
  OBVIOUS
<1>8. PICK r : r = J!record_production_observation(jobDisk, c)
  OBVIOUS
<1>9. r \in JobRecord /\ Sound(r)' /\ r.inputs = jobDisk.inputs
  BY <1>2, <1>5, <1>6, <1>7, <1>8, ObservedAfter
<1>10. J!Commit(r, "done")
  BY <1>2, <1>7, <1>8 DEF J!start_product_job_execution
<1> QED BY <1>1, <1>2, <1>5, <1>6, <1>9, <1>10, CommandCommits

LEMMA SyncKeeps == JobInv /\ J!sync_product_job_from_production => JobInv'
<1> SUFFICES ASSUME JobInv, J!sync_product_job_from_production PROVE JobInv'
  OBVIOUS
<1>1. CommandMayRely /\ J!WithJob
  BY Relied DEF J!sync_product_job_from_production
<1>2. /\ jobHandle = jobDisk /\ jobDisk \in JobRecord /\ jobDisk.phase # "Absent" /\ Sound(jobDisk)
      /\ UNCHANGED <<jobDisk, jobHandle, blobs, approvals>> /\ approvals \in Nat /\ chain \in ChainState
  BY <1>1 DEF CommandMayRely, J!sync_product_job_from_production
<1>3. \/ chain' = chain
      \/ chain = [stage |-> "None", approval |-> 0] /\ chain' = [stage |-> "Initial", approval |-> 0]
  BY DEF J!sync_product_job_from_production, J!ChainOfJob, J!Unstarted
<1>4. /\ chain' \in ChainState /\ chain'.approval = chain.approval
      /\ chain.stage \in {"Certified", "RolledBack"} => chain'.stage \in {"Certified", "RolledBack"}
  BY <1>2, <1>3 DEF ChainState
<1>5. Sound(jobDisk)'
  BY <1>2, <1>4, SoundKept
<1>6. CASE J!can_record_production_observation(jobHandle)
  <2>1. PICK c : c = chain'
    OBVIOUS
  <2>2. PICK r : r = J!record_production_observation(jobDisk, c)
    OBVIOUS
  <2>3. r \in JobRecord /\ Sound(r)' /\ r.inputs = jobDisk.inputs
    BY <1>2, <1>4, <1>5, <2>1, <2>2, ObservedAfter
  <2>4. J!Commit(r, "observed")
    BY <1>2, <1>6, <2>1, <2>2 DEF J!sync_product_job_from_production
  <2> QED BY <1>1, <1>2, <1>4, <1>5, <2>3, <2>4, CommandCommits
<1>7. CASE ~J!can_record_production_observation(jobHandle)
  <2>1. jobOp' = J!Idle
    BY <1>1, <1>7 DEF J!sync_product_job_from_production, J!WithJob, J!Ready
  <2>2. Stored(jobDisk.inputs, {})' /\ Consistent(jobDisk)'
    BY <1>1, <1>2 DEF CommandMayRely, Stored, Consistent
  <2> QED BY <1>1, <1>2, <1>4, <1>5, <2>1, <2>2, RecordIdleKeeps DEF CommandMayRely
<1> QED BY <1>6, <1>7

LEMMA CommandKeeps == JobInv /\ J!JobCommand => JobInv'
BY CreateKeeps, ImportKeeps, PrepareKeeps, ApproveKeeps, RephasingKeeps, StartKeeps, SyncKeeps
   DEF J!JobCommand

-----------------------------------------------------------------------------
(* The other steps. *)

LEMMA OpenKeeps == JobInv /\ J!initialize_runtime => JobInv'
<1> SUFFICES ASSUME JobInv, J!initialize_runtime PROVE JobInv'
  OBVIOUS
<1>1. CommandMayRely
  BY Relied
<1>2. /\ UNCHANGED <<jobDisk, blobs, chain, approvals>>
      /\ jobHandle' \in {jobDisk', J!NoJob}
      /\ jobDisk' \in JobRecord /\ chain' \in ChainState /\ approvals' \in Nat
      /\ blobs' \in [JobFiles -> {"absent", "pending", "present"}]
  BY <1>1 DEF J!initialize_runtime, CommandMayRely
<1>3. Sound(jobDisk)' /\ Stored(jobDisk.inputs, {})' /\ Consistent(jobDisk)'
  BY <1>1, <1>2, SoundKept DEF CommandMayRely, Stored, Consistent
<1>4. CASE UNCHANGED jobOp
  BY <1>2, <1>3, <1>4, OperationKept
<1>5. CASE ~ UNCHANGED jobOp
  <2>1. J!Reopened(jobDisk) # jobDisk /\ J!Commit(J!Reopened(jobDisk), "done")
    BY <1>5 DEF J!initialize_runtime
  <2>2. PICK r : r = [jobDisk EXCEPT !.phase = "RecoveryRequired"]
    OBVIOUS
  <2>3. jobDisk.phase = "Accepted" /\ J!Commit(r, "done")
    BY <2>1, <2>2 DEF J!Reopened
  <2>4. "RecoveryRequired" \in J!UserJobPhase \ {"Draft", "UnresolvedIntent"}
    BY DEF J!UserJobPhase
  <2>5. r \in JobRecord /\ Sound(r) /\ r.inputs = jobDisk.inputs
    BY <1>1, <2>2, <2>3, <2>4, Rephased DEF CommandMayRely
  <2>6. Sound(r)' /\ Stored(r.inputs, {})'
    BY <1>1, <1>2, <1>3, <2>5, SoundKept DEF CommandMayRely, Stored
  <2> QED BY <1>2, <1>3, <2>3, <2>5, <2>6, RecordCommitKeeps
<1> QED BY <1>4, <1>5

\* A stop of the process, a failed file operation or a refused commit ends the
\* operation and leaves the disk.
LEMMA EndKeeps ==
    JobInv /\ (J!Quit \/ J!Crash \/ J!WriteFails \/ J!Refused) => JobInv'
<1> SUFFICES ASSUME JobInv, J!Quit \/ J!Crash \/ J!WriteFails \/ J!Refused PROVE JobInv'
  OBVIOUS
<1>1. CommandMayRely
  BY Relied
<1>2. /\ UNCHANGED <<jobDisk, blobs, chain, approvals>> /\ jobOp' = J!Idle
      /\ jobHandle' \in {jobHandle, J!NoJob}
  BY DEF J!Quit, J!Crash, J!Stop, J!WriteFails, J!Refused, J!CommitRefused, J!HandleAfterFailure
<1>3. Sound(jobDisk)' /\ Stored(jobDisk.inputs, {})' /\ Consistent(jobDisk)'
  BY <1>1, <1>2, SoundKept DEF CommandMayRely, Stored, Consistent
<1>4. /\ jobHandle' \in {jobDisk', J!NoJob}
      /\ jobDisk' \in JobRecord /\ chain' \in ChainState /\ approvals' \in Nat
      /\ blobs' \in [JobFiles -> {"absent", "pending", "present"}]
  BY <1>1, <1>2 DEF CommandMayRely, JobTyped
<1> QED BY <1>2, <1>3, <1>4, RecordIdleKeeps

LEMMA RenameBlobKeeps == JobInv /\ J!RenameBlob /\ UNCHANGED J!prodVars => JobInv'
<1> SUFFICES ASSUME JobInv, J!RenameBlob, UNCHANGED J!prodVars PROVE JobInv'
  OBVIOUS
<1>1. CommandMayRely
  BY Relied
<1>2. PICK r, content : r = jobOp.next /\ content = jobOp.content
  OBVIOUS
<1>3. /\ jobOp.pc = "blob" /\ r \in JobRecord /\ content \in JobFiles
      /\ Sound(r) /\ Stored(r.inputs, {content})
  BY <1>2 DEF J!RenameBlob, JobInv, JobTyped, JobOperation
<1>4. /\ UNCHANGED <<jobDisk, jobHandle, chain, approvals>> /\ J!Commit(r, "done")
      /\ blobs' = [blobs EXCEPT ![content] = "present"]
  BY <1>2 DEF J!RenameBlob, J!prodVars
<1>5. \A c \in JobFiles : blobs[c] = "present" \/ c = content => blobs'[c] = "present"
  BY <1>1, <1>3, <1>4 DEF CommandMayRely
<1>6. /\ \A x \in DOMAIN r.inputs : r.inputs[x] \in JobFiles
      /\ \A x \in DOMAIN jobDisk.inputs : jobDisk.inputs[x] \in JobFiles
  BY <1>1, <1>3 DEF CommandMayRely, JobRecord, InputMaps
<1>7. Sound(jobDisk)' /\ Stored(jobDisk.inputs, {})' /\ Consistent(jobDisk)'
  <2>1. PICK d : d = jobDisk
    OBVIOUS
  <2>2. Sound(d)'
    BY <1>1, <1>4, <2>1, SoundKept DEF CommandMayRely
  <2>3. Stored(d.inputs, {})'
    BY <1>1, <1>5, <1>6, <2>1 DEF CommandMayRely, Stored
  <2>4. Consistent(d)'
    BY <1>1, <2>1 DEF CommandMayRely, Consistent
  <2> QED BY <1>4, <2>1, <2>2, <2>3, <2>4 DEF Sound, Stored, Consistent
<1>8. Sound(r)' /\ Stored(r.inputs, {})'
  <2>1. Sound(r)'
    BY <1>1, <1>3, <1>4, SoundKept DEF CommandMayRely
  <2>2. Stored(r.inputs, {})'
    BY <1>3, <1>5, <1>6 DEF Stored
  <2> QED BY <2>1, <2>2
<1>9. /\ jobHandle' \in {jobDisk', J!NoJob}
      /\ jobDisk' \in JobRecord /\ chain' \in ChainState /\ approvals' \in Nat
      /\ blobs' \in [JobFiles -> {"absent", "pending", "present"}]
  BY <1>1, <1>4 DEF CommandMayRely, JobTyped
<1> QED BY <1>3, <1>4, <1>7, <1>8, <1>9, RecordCommitKeeps

\* commit checks the record (validate_certificate) before its pending file is written.
LEMMA CommitStepKeeps == JobInv /\ J!commit /\ UNCHANGED J!prodVars => JobInv'
<1> SUFFICES ASSUME JobInv, J!commit, UNCHANGED J!prodVars PROVE JobInv'
  OBVIOUS
<1>1. /\ UNCHANGED <<jobDisk, jobHandle, blobs, chain, approvals>> /\ jobOp \in JobOperation
      /\ jobOp' = [jobOp EXCEPT !.pc = "write"] /\ jobOp.pc = "commit" /\ J!validate_seal(jobOp.next)
  BY DEF J!commit, J!prodVars, JobInv, JobTyped
<1>2. /\ jobOp' \in JobOperation /\ jobOp'.pc = "write" /\ jobOp'.next = jobOp.next
      /\ jobOp'.then = jobOp.then
  BY <1>1 DEF JobOperation
<1>3. Consistent(jobOp.next)
  BY <1>1 DEF J!validate_seal, J!validate_certificate, Consistent
<1>4. JobTyped'
  BY <1>1, <1>2 DEF JobInv, JobTyped
<1>5. Sound(jobDisk)' /\ Consistent(jobDisk)' /\ Stored(jobDisk.inputs, {})'
  BY <1>1 DEF JobInv, Sound, CertifiedPart, Consistent, Stored
<1>6. Sound(jobOp.next)'
  <2>1. Sound(jobOp.next)
    BY <1>1 DEF JobInv
  <2> QED BY <1>1, <1>2, <2>1 DEF Sound, CertifiedPart
<1>7. Stored(jobOp.next.inputs, {})'
  BY <1>1, <1>2 DEF JobInv, Stored
<1>8. Consistent(jobOp.next)'
  BY <1>2, <1>3 DEF Consistent
<1>9. jobOp'.then = "evidence" => HasCertified(jobOp.next)'
  BY <1>1, <1>2 DEF JobInv, HasCertified
<1> QED BY <1>2, <1>4, <1>5, <1>6, <1>7, <1>8, <1>9 DEF JobInv

LEMMA WrittenKeeps == JobInv /\ J!Written => JobInv'
<1> SUFFICES ASSUME JobInv, J!Written PROVE JobInv'
  OBVIOUS
<1>1. CommandMayRely
  BY Relied
<1>2. PICK r : r = jobOp.next
  OBVIOUS
<1>3. /\ jobOp.pc = "write" /\ r \in JobRecord /\ Sound(r) /\ Stored(r.inputs, {}) /\ Consistent(r)
      /\ jobOp.then = "evidence" => HasCertified(r)
  BY <1>2 DEF J!Written, J!write_state, JobInv, JobTyped, JobOperation
<1>4. /\ jobDisk' = r /\ jobHandle' = r /\ UNCHANGED <<blobs, chain, approvals>>
      /\ J!apply_production_chain(r)
  BY <1>2 DEF J!Written, J!write_state
<1>5. /\ jobHandle' \in {jobDisk', J!NoJob}
      /\ jobDisk' \in JobRecord /\ chain' \in ChainState /\ approvals' \in Nat
      /\ blobs' \in [JobFiles -> {"absent", "pending", "present"}]
  BY <1>1, <1>3, <1>4 DEF CommandMayRely
<1>6. Sound(jobDisk)' /\ Stored(jobDisk.inputs, {})' /\ Consistent(jobDisk)'
  <2>1. Sound(r)'
    BY <1>1, <1>3, <1>4, SoundKept DEF CommandMayRely
  <2> QED BY <1>3, <1>4, <2>1 DEF Sound, CertifiedPart, Stored, Consistent
<1>7. ASSUME NEW s \in JobRecord, Sound(s), s.inputs = r.inputs,
             NEW then \in {"done", "evidence"}, J!Commit(s, then), then = "evidence" => HasCertified(s)
      PROVE  JobInv'
  <2>1. Sound(s)' /\ Stored(s.inputs, {})'
    BY <1>1, <1>3, <1>4, <1>7, SoundKept DEF CommandMayRely, Stored
  <2> QED BY <1>5, <1>6, <1>7, <2>1, RecordCommitKeeps
<1>8. CASE /\ J!Certifies(r.production) /\ J!can_record_evidence(r)
           /\ J!Commit(J!record_evidence(r, "accepted"), "evidence")
  <2>1. PICK s : s = J!record_evidence(r, "accepted")
    OBVIOUS
  <2>2. r.phase # "Absent" /\ HasCertified(r)
    BY <1>8 DEF J!can_record_evidence, J!Certifies, HasCertified
  <2>3. s \in JobRecord /\ Sound(s) /\ s.inputs = r.inputs /\ HasCertified(s)
    BY <1>3, <2>1, <2>2, EvidenceRecord DEF HasCertified
  <2> QED BY <1>7, <1>8, <2>1, <2>3
<1>9. CASE J!can_record_rollback_observed(r, r.production) /\ r.production.stage = "RolledBack" /\ jobOp.then = "observed"
           /\ J!Commit(J!record_rollback_observed(r), "done")
  <2>1. PICK s : s = [r EXCEPT !.phase = "RolledBack"]
    OBVIOUS
  <2>2. "RolledBack" \in J!UserJobPhase \ {"Draft", "UnresolvedIntent"}
    BY DEF J!UserJobPhase
  <2>3. s \in JobRecord /\ Sound(s) /\ s.inputs = r.inputs
    BY ZenonT(60), <1>3, <1>9, <2>1, <2>2, Rephased DEF Sound, J!can_record_rollback_observed
  <2> QED BY <1>7, <1>9, <2>1, <2>3 DEF J!record_rollback_observed
<1>10. CASE /\ jobOp.then = "evidence" /\ J!can_record_certificate(r, r.production)
            /\ J!Commit(J!record_certificate(r, r.production), "done")
  <2>1. PICK s : s = J!record_certificate(r, r.production)
    OBVIOUS
  <2>2. s \in JobRecord /\ Sound(s) /\ s.inputs = r.inputs
    BY <1>3, <1>10, <2>1, CertificateRecord DEF J!can_record_certificate
  <2> QED BY <1>7, <1>10, <2>1, <2>2
<1>11. CASE jobOp' = J!Idle
  BY <1>5, <1>6, <1>11, RecordIdleKeeps
<1> QED BY <1>4, <1>8, <1>9, <1>10, <1>11 DEF J!apply_production_chain

\* The chain goes on under its approval; a certified one only to its rollback.
LEMMA ChainKeeps == JobInv /\ (J!ChainMoves \/ J!Lapse) => JobInv'
<1> SUFFICES ASSUME JobInv, J!ChainMoves \/ J!Lapse PROVE JobInv'
  OBVIOUS
<1>1. CommandMayRely
  BY Relied
<1>2. /\ UNCHANGED <<jobDisk, jobHandle, blobs, jobOp, approvals>>
      /\ chain' \in ChainState /\ chain'.approval = chain.approval
      /\ chain.stage \in {"Certified", "RolledBack"} => chain'.stage \in {"Certified", "RolledBack"}
  BY <1>1 DEF J!ChainMoves, J!Lapse, J!storeVars, J!Stages, ChainState, CommandMayRely
<1>3. Sound(jobDisk)' /\ Stored(jobDisk.inputs, {})' /\ Consistent(jobDisk)'
  BY <1>1, <1>2, SoundKept DEF CommandMayRely, Stored, Consistent
<1> QED BY <1>1, <1>2, <1>3, OperationKept DEF CommandMayRely, JobTyped

LEMMA JobStep == JobInv /\ J!JobNext => JobInv'
BY OpenKeeps, EndKeeps, CommandKeeps, RenameBlobKeeps, CommitStepKeeps, WrittenKeeps, ChainKeeps
   DEF J!JobNext, J!Progress

LEMMA JobBegins == J!JobInit => JobInv
<1> SUFFICES ASSUME J!JobInit PROVE JobInv
  OBVIOUS
<1>1. /\ jobDisk = J!NoJob /\ jobHandle = J!NoJob /\ jobOp = J!Idle /\ approvals = 0
      /\ chain = [stage |-> "None", approval |-> 0]
      /\ blobs = [c \in JobFiles |-> "absent"]
  BY DEF J!JobInit, J!StoreInit, J!Unstarted, JobFiles
<1>2. /\ J!NoJob \in JobRecord /\ J!NoJob.phase = "Absent" /\ J!NoJob.inputs = << >>
      /\ J!NoJob.approval = None /\ J!NoJob.production = None /\ J!NoJob.certificate = None
  BY FreshRecords DEF J!NoJob
<1>3. JobTyped /\ jobOp.pc = "idle"
  BY <1>1, <1>2, IdleOperation DEF JobTyped, ChainState
<1>4. Sound(jobDisk) /\ Consistent(jobDisk) /\ Stored(jobDisk.inputs, {})
  <2>1. DOMAIN << >> = {}
    OBVIOUS
  <2> QED BY <1>1, <1>2, <2>1 DEF Sound, CertifiedPart, Consistent, Stored
<1> QED BY <1>3, <1>4 DEF JobInv

LEMMA JobProperties == JobInv => AcceptedIsCertified /\ InputsAreStored /\ ChainApprovalIsJobs
BY DEF JobInv, Sound, CertifiedPart, Consistent, Stored, AcceptedIsCertified, InputsAreStored, ChainApprovalIsJobs,
       J!AcceptedIsCertified, J!InputsAreStored, J!ChainApprovalIsJobs

LEMMA JobInvariant == BackendSpec => []JobInv
<1>1. BackendInit => JobInv
  BY JobBegins DEF BackendInit
<1>2. JobInv /\ [BackendNext]_backendVars => JobInv'
  <2> SUFFICES ASSUME JobInv, [BackendNext]_backendVars PROVE JobInv'
    OBVIOUS
  <2>1. CASE Product(J!JobNext)
    BY <2>1, JobStep DEF Product
  <2>2. CASE UNCHANGED userVars
    <3>1. /\ UNCHANGED <<jobDisk, jobHandle, jobOp, blobs, chain, approvals>>
          /\ jobHandle \in {jobDisk, J!NoJob} /\ chain \in ChainState
      BY <2>2 DEF userVars, JobInv, JobTyped
    <3> QED BY <3>1, OperationKept
  <2>3. Product(J!JobNext) \/ UNCHANGED userVars
    BY DEF BackendNext, Desktop, backendVars
  <2> QED BY <2>1, <2>2, <2>3
<1> QED BY <1>1, <1>2, PTL DEF BackendSpec

\* An accepted user job, or one whose acceptance awaits its verification after a
\* restart, has the certificate of the chain state it observed, and the chain has gone
\* no further than that state's rollback: record_certificate commits behind a
\* validate_certificate that compares the certificate with the observation, and a
\* certified chain only moves to its rollback.
THEOREM AcceptanceCertified == BackendSpec => []AcceptedIsCertified
BY JobInvariant, JobProperties, PTL

\* Every input a record on disk names has its bytes on disk: persist_blob publishes the
\* content before import_input commits the record, wherever the import is cut short.
THEOREM InputsStored == BackendSpec => []InputsAreStored
BY JobInvariant, JobProperties, PTL

\* The chain on disk carries no approval the job on disk lacks: only
\* start_product_job_execution puts one there, and it takes the approval of a record
\* that write_state has made durable.
THEOREM ChainApprovalFromJob == BackendSpec => []ChainApprovalIsJobs
BY JobInvariant, JobProperties, PTL
=============================================================================
