------------------------ MODULE IssuancePolicyProofs ------------------------
(***************************************************************************)
(* Proofs about IssuancePolicy.  About the store, for any authorities,     *)
(* processes, intents and bounds: what is signed is durable, and, with one *)
(* backend process, the store implements AtMostOnceIssuance.  About the    *)
(* policy in memory, for any jobs: the signer is asked only for what was   *)
(* approved, as the records of the desktop agree with each other and a     *)
(* scope is registered once.                                               *)
(***************************************************************************)
EXTENDS IssuancePolicy, TLAPS

\* A leaf is tried with Zenon, then with SMT, then with each again for longer.
USE ZenonT(3), SMTT(20), ZenonT(60), SMTT(120)

USE DEF Pc

-----------------------------------------------------------------------------
(* Facts about records. *)

\* The initial record is a record.
LEMMA InitialStateType == InitialState \in Record
BY DEF InitialState, Record

\* Committing a policy over a record yields a record that is one longer and carries it.
LEMMA NextStateType ==
    ASSUME NEW s \in Record, NEW p \in SUBSET Intent
    PROVE  /\ NextState(s, p) \in Record
           /\ Len(NextState(s, p)) = Len(s) + 1
           /\ PolicyOf(NextState(s, p)) = p
           /\ SubSeq(NextState(s, p), 1, Len(s)) = s
BY DEF NextState, PolicyOf, Record

\* The policy of a record is a set of intents.
LEMMA PolicyOfType ==
    ASSUME NEW s \in Record
    PROVE  PolicyOf(s) \in SUBSET Intent
BY DEF PolicyOf, Record

-----------------------------------------------------------------------------
\* Every reachable state of the store and its authorities is well-typed.
THEOREM TypeCorrect == Spec => []TypeOK
<1>1. Init => TypeOK
  BY InitialStateType, BoundsAssumption DEF Init, TypeOK, Idle
<1>2. TypeOK /\ [Next]_vars => TypeOK'
  <2> SUFFICES ASSUME TypeOK, [Next]_vars PROVE TypeOK'
    OBVIOUS
  <2> USE DEF TypeOK
  <2>1. ASSUME NEW a \in Authority, LoadExisting(a) PROVE TypeOK'
    <3>1. PICK s \in published :
              /\ current' = [current EXCEPT ![a] = s]
              /\ policy' = [policy EXCEPT ![a] = PolicyOf(s)]
      BY <2>1 DEF LoadExisting
    <3>2. s \in Record /\ PolicyOf(s) \in SUBSET Intent
      BY PolicyOfType
    <3> QED
      BY <2>1, <3>1, <3>2 DEF LoadExisting
  <2>2. ASSUME NEW a \in Authority, LoadEmpty(a) PROVE TypeOK'
    BY <2>2, InitialStateType DEF LoadEmpty
  <2>3. ASSUME NEW a \in Authority, NEW i \in Intent, Authorize(a, i) PROVE TypeOK'
    BY <2>3, InitialStateType DEF Authorize
  <2>4. ASSUME NEW a \in Authority, CommitScan(a) PROVE TypeOK'
    <3>1. NextState(current[a], policy[a]) \in Record
      BY <2>4, NextStateType DEF CommitScan, IsTip
    <3> DEFINE call == [op[a] EXCEPT !.pc = "create",
                                     !.target = NextState(current[a], policy[a])]
    <3>2. call \in [pc : Pc, intent : Intent \cup {None}, target : Record]
      BY <3>1 DEF Pc
    <3>3. op' = [op EXCEPT ![a] = call]
      BY <2>4 DEF CommitScan
    <3> HIDE DEF call
    <3>4. op' \in [Authority -> [pc : Pc, intent : Intent \cup {None}, target : Record]]
      BY <3>2, <3>3
    <3> QED
      BY <2>4, <3>4 DEF CommitScan
  <2>5. ASSUME NEW a \in Authority, CommitScanFails(a) PROVE TypeOK'
    BY <2>5, InitialStateType DEF CommitScanFails, Return, Idle
  <2>6. ASSUME NEW a \in Authority, CreatePending(a) PROVE TypeOK'
    BY ZenonT(60), <2>6 DEF CreatePending, Goto
  <2>7. ASSUME NEW a \in Authority, NameTaken(a) PROVE TypeOK'
    BY <2>7, InitialStateType DEF NameTaken, Return, Idle
  <2>8. ASSUME NEW a \in Authority, Publish(a) PROVE TypeOK'
    BY <2>8 DEF Publish, Goto
  <2>10. ASSUME NEW a \in Authority, RemovePending(a) PROVE TypeOK'
    <3>1. PolicyOf(op[a].target) \in SUBSET Intent
      BY PolicyOfType
    <3> QED
      BY <2>10, <3>1, InitialStateType DEF RemovePending, Return, Goto, Idle
  <2>11. ASSUME NEW a \in Authority, Sign(a) PROVE TypeOK'
    <3>1. signed' \in [Intent -> Nat]
      <4>1. signed' = [i \in Intent |-> IF i = op[a].intent THEN signed[i] + 1 ELSE signed[i]]
        BY <2>11 DEF Sign
      <4> QED
        BY <4>1
    <3> QED
      BY <2>11, <3>1, InitialStateType DEF Sign, Return, Idle
  <2>12. ASSUME NEW a \in Authority, IoError(a) PROVE TypeOK'
    BY <2>12, InitialStateType, BoundsAssumption DEF IoError, Return, Idle
  <2>13. ASSUME NEW p \in Process, Crash(p) PROVE TypeOK'
    BY <2>13, InitialStateType, BoundsAssumption DEF Crash, Idle
  <2>14. CASE UNCHANGED vars
    BY <2>14 DEF vars
  <2> QED
    BY <2>1, <2>2, <2>3, <2>4, <2>5, <2>6, <2>7, <2>8, <2>10, <2>11, <2>12,
       <2>13, <2>14 DEF Next, Load, Step
<1> QED
  BY <1>1, <1>2, PTL DEF Spec

-----------------------------------------------------------------------------
(* Persist before signing: any number of processes. *)

\* An intent on its way to the signer is in the policy being written, then on disk.
InFlight(a) ==
    /\ op[a].pc = "scan" => op[a].intent \in policy[a]
    /\ op[a].pc \in {"create", "link", "remove"} /\ op[a].intent # None
          => op[a].intent \in PolicyOf(op[a].target)
    /\ op[a].pc = "remove" => op[a].target \in published
    /\ op[a].pc = "sign" => Durable(op[a].intent)

DurInv == SignedIsDurable /\ \A a \in Authority : InFlight(a)

\* DurInv is inductive relative to the types.
LEMMA DurInvInductive ==
    ASSUME TypeOK, DurInv, [Next]_vars
    PROVE  DurInv'
<1> USE DEF TypeOK, DurInv, SignedIsDurable
<1>1. published \subseteq published'
  BY DEF Next, Load, Step, LoadExisting, LoadEmpty, Authorize, CommitScan,
         CommitScanFails, CreatePending, NameTaken, Publish,
         RemovePending, Sign, IoError, Crash, vars
<1>2. ASSUME NEW i, Durable(i) PROVE Durable(i)'
  BY <1>1, <1>2 DEF Durable
<1>3. ASSUME UNCHANGED signed PROVE SignedIsDurable'
  BY <1>2, <1>3
<1>4. ASSUME NEW b \in Authority, op'[b] = op[b], policy'[b] = policy[b]
      PROVE  InFlight(b)'
  BY <1>1, <1>2, <1>4 DEF InFlight
<1>5. ASSUME NEW b \in Authority, op'[b] = Idle
      PROVE  InFlight(b)'
  BY <1>5 DEF InFlight, Idle
<1>6. ASSUME NEW a \in Authority, LoadExisting(a) PROVE DurInv'
  <2>1. op[a].pc = "idle"
    BY <1>6 DEF LoadExisting, MutexFree
  <2>2. InFlight(a)'
    BY <1>6, <2>1 DEF LoadExisting, InFlight
  <2> QED
    BY <1>3, <1>4, <1>6, <2>2 DEF LoadExisting
<1>7. ASSUME NEW a \in Authority, LoadEmpty(a) PROVE DurInv'
  <2>1. InFlight(a)'
    BY <1>7 DEF LoadEmpty, InFlight
  <2> QED
    BY <1>3, <1>4, <1>7, <2>1 DEF LoadEmpty
<1>8. ASSUME NEW a \in Authority, NEW i \in Intent, Authorize(a, i) PROVE DurInv'
  <2>1. InFlight(a)'
    BY <1>8 DEF Authorize, InFlight
  <2> QED
    BY <1>3, <1>4, <1>8, <2>1 DEF Authorize
<1>9. ASSUME NEW a \in Authority, CommitScan(a) PROVE DurInv'
  <2>1. PolicyOf(NextState(current[a], policy[a])) = policy[a]
    BY <1>9, NextStateType DEF CommitScan, IsTip
  <2>2. InFlight(a)'
    BY <1>9, <2>1 DEF CommitScan, InFlight
  <2> QED
    BY <1>3, <1>4, <1>9, <2>2 DEF CommitScan
<1>10. ASSUME NEW a \in Authority,
              CommitScanFails(a) \/ NameTaken(a) \/ IoError(a)
       PROVE  DurInv'
  BY <1>3, <1>4, <1>5, <1>10
     DEF CommitScanFails, NameTaken, IoError, Return
<1>11. ASSUME NEW a \in Authority, CreatePending(a) PROVE DurInv'
  <2>1. InFlight(a)'
    BY <1>11 DEF CreatePending, InFlight, Goto
  <2> QED
    BY <1>3, <1>4, <1>11, <2>1 DEF CreatePending, Goto
<1>12. ASSUME NEW a \in Authority, Publish(a) PROVE DurInv'
  <2>1. InFlight(a)'
    BY <1>12 DEF Publish, InFlight, Goto
  <2> QED
    BY <1>3, <1>4, <1>12, <2>1 DEF Publish, Goto
<1>13. ASSUME NEW a \in Authority, RemovePending(a) PROVE DurInv'
  <2>1. CASE op[a].intent = None
    BY <1>3, <1>4, <1>5, <1>13, <2>1 DEF RemovePending, Return
  <2>2. CASE op[a].intent # None
    <3>1. op[a].intent \in PolicyOf(op[a].target) /\ op[a].target \in published
      BY <1>13, <2>2 DEF RemovePending, InFlight
    <3>2. InFlight(a)'
      BY <1>13, <2>2, <3>1 DEF RemovePending, InFlight, Goto, Durable
    <3> QED
      BY <1>3, <1>4, <1>13, <2>2, <3>2 DEF RemovePending, Goto
  <2> QED
    BY <2>1, <2>2
<1>14. ASSUME NEW a \in Authority, Sign(a) PROVE DurInv'
  <2>1. Durable(op[a].intent)
    BY <1>14 DEF Sign, InFlight
  <2>2. SignedIsDurable'
    BY <1>2, <1>14, <2>1 DEF Sign
  <2> QED
    BY <1>4, <1>5, <1>14, <2>2 DEF Sign, Return
<1>15. ASSUME NEW p \in Process, Crash(p) PROVE DurInv'
  BY <1>3, <1>4, <1>5, <1>15 DEF Crash
<1>16. CASE UNCHANGED vars
  BY <1>3, <1>4, <1>16 DEF vars
<1> QED
  BY <1>6, <1>7, <1>8, <1>9, <1>10, <1>11, <1>12, <1>13, <1>14, <1>15, <1>16
     DEF Next, Load, Step

\* Of a behaviour of the backend's policies, what concerns the store is one of Spec.
LEMMA StoreBehaviour == PolicySpec => Spec
<1>1. PolicyInit => Init
  BY DEF PolicyInit
<1>2. [PolicyNext]_<<part, vars, memoryVars>> => [Next]_vars
  BY DEF PolicyNext
<1> QED
  BY <1>1, <1>2, PTL DEF PolicySpec, Spec

\* Whatever processes share the root, crash or fail, the signer is asked only for
\* intents whose consumption is on disk.
THEOREM DurableBeforeSign == PolicySpec => []SignedIsDurable
<1>1. Init => DurInv
  BY DEF Init, DurInv, SignedIsDurable, InFlight, Idle
<1>2. TypeOK /\ DurInv /\ [Next]_vars => DurInv'
  BY DurInvInductive
<1>3. DurInv => SignedIsDurable
  BY DEF DurInv
<1> QED
  BY <1>1, <1>2, <1>3, TypeCorrect, StoreBehaviour, PTL DEF Spec

-----------------------------------------------------------------------------
(* One backend process: its mutex serialises the calls of all authorities. *)

SingleProcess == \A a, b \in Authority : host[a] = host[b]

Mutex == \A a, b \in Authority : a # b => op[a].pc = "idle" \/ op[b].pc = "idle"

\* The directory is one chain with growing policies.
ChainInv ==
    /\ \A s, t \in published : Len(s) = Len(t) => s = t
    /\ HistoryKeepsIntents
    /\ ~Orphaned(published)

\* A handle holds a published record, and its memory at least that record's policy.
HandleInv ==
    \A a \in Authority :
        current[a] # None => /\ current[a] \in published
                             /\ PolicyOf(current[a]) \subseteq policy[a]

\* The call in progress: what it writes, over what, and that its intent is new.
WriteInv(a) ==
    /\ op[a].pc = "scan" =>
          /\ current[a] # None
          /\ op[a].intent \in Intent
          /\ op[a].intent \notin PolicyOf(current[a])
    /\ op[a].pc \in {"create", "link"} /\ op[a].intent = None =>
          published = {} /\ op[a].target = InitialState
    /\ op[a].pc \in {"create", "link"} /\ op[a].intent # None =>
          /\ current[a] # None
          /\ IsTip(current[a], published)
          /\ op[a].target = NextState(current[a], policy[a])
          /\ op[a].intent \notin PolicyOf(current[a])
    /\ op[a].pc = "remove" => IsTip(op[a].target, published)
    /\ op[a].pc = "remove" /\ op[a].intent # None =>
          PolicyOf(op[a].target) = policy[a] /\ signed[op[a].intent] = 0
    /\ op[a].pc = "sign" =>
          /\ op[a].intent \in Intent
          /\ signed[op[a].intent] = 0
          /\ IsTip(current[a], published)

OneInv ==
    /\ Mutex
    /\ ChainInv
    /\ HandleInv
    /\ \A a \in Authority : WriteInv(a)
    /\ SignedAtMostOnce

\* A record never shorter than the others holds every durable intent.
LEMMA TipHoldsAll ==
    ASSUME HistoryKeepsIntents, NEW s \in published, IsTip(s, published),
           NEW i, Durable(i)
    PROVE  i \in PolicyOf(s)
BY DEF HistoryKeepsIntents, IsTip, Durable

\* Equal predecessors mean equal lengths.
LEMMA PredecessorLength ==
    ASSUME NEW s \in Record, NEW t \in Record, Len(s) > 1, Len(t) > 1,
           SubSeq(s, 1, Len(s) - 1) = SubSeq(t, 1, Len(t) - 1)
    PROVE  Len(s) = Len(t)
<1>1. Len(SubSeq(s, 1, Len(s) - 1)) = Len(s) - 1
  BY DEF Record
<1>2. Len(SubSeq(t, 1, Len(t) - 1)) = Len(t) - 1
  BY DEF Record
<1> QED
  BY <1>1, <1>2 DEF Record

\* Publishing over the tip keeps the directory one growing chain.
LEMMA PublishKeepsChain ==
    ASSUME NEW P \in SUBSET Record, NEW t \in Record,
           \A s, u \in P : Len(s) = Len(u) => s = u,
           \A s, u \in P : Len(s) <= Len(u) => PolicyOf(s) \subseteq PolicyOf(u),
           ~Orphaned(P),
           \/ P = {} /\ t = InitialState
           \/ \E c \in P, p \in SUBSET Intent :
                 IsTip(c, P) /\ t = NextState(c, p) /\ PolicyOf(c) \subseteq p
    PROVE  /\ \A s, u \in P \cup {t} : Len(s) = Len(u) => s = u
           /\ \A s, u \in P \cup {t} : Len(s) <= Len(u) => PolicyOf(s) \subseteq PolicyOf(u)
           /\ ~Orphaned(P \cup {t})
           /\ IsTip(t, P \cup {t})
<1>0. \A s \in Record : Len(s) \in Nat
  BY DEF Record
<1>1. CASE P = {} /\ t = InitialState
  BY <1>0, <1>1 DEF InitialState, Orphaned, IsTip
<1>2. CASE \E c \in P, p \in SUBSET Intent :
              IsTip(c, P) /\ t = NextState(c, p) /\ PolicyOf(c) \subseteq p
  <2>1. PICK c \in P, p \in SUBSET Intent :
              IsTip(c, P) /\ t = NextState(c, p) /\ PolicyOf(c) \subseteq p
    BY <1>2
  <2>2. /\ Len(t) = Len(c) + 1
        /\ PolicyOf(t) = p
        /\ SubSeq(t, 1, Len(c)) = c
    BY <2>1, NextStateType
  <2>3. \A s \in P : Len(s) < Len(t) /\ PolicyOf(s) \subseteq PolicyOf(t)
    BY <1>0, <2>1, <2>2 DEF IsTip
  <2>4. ~Orphaned(P \cup {t})
    <3>1. Len(t) - 1 = Len(c)
      BY <1>0, <2>2
    <3> QED
      BY <2>2, <3>1 DEF Orphaned
  <2>5. IsTip(t, P \cup {t})
    BY <1>0, <2>3 DEF IsTip
  <2>6. \A s, u \in P \cup {t} : Len(s) = Len(u) => s = u
    BY <1>0, <2>3
  <2>7. \A s, u \in P \cup {t} : Len(s) <= Len(u) => PolicyOf(s) \subseteq PolicyOf(u)
    BY <1>0, <2>3
  <2> QED
    BY <2>4, <2>5, <2>6, <2>7
<1> QED
  BY <1>1, <1>2

\* OneInv is inductive relative to the types and DurInv.
LEMMA OneInvInductive ==
    ASSUME SingleProcess, TypeOK, DurInv, OneInv, [Next]_vars
    PROVE  OneInv'
<1> USE DEF TypeOK
<1>1. ASSUME NEW a \in Authority, MutexFree(a)
      PROVE  \A b \in Authority : op[b].pc = "idle"
  BY <1>1 DEF MutexFree, SingleProcess
<1>2. ASSUME NEW a \in Authority, op[a].pc # "idle"
      PROVE  \A b \in Authority \ {a} : op[b].pc = "idle"
  BY <1>2 DEF OneInv, Mutex
<1>3. ASSUME NEW b \in Authority, op'[b].pc = "idle" PROVE WriteInv(b)'
  BY <1>3 DEF WriteInv
<1>4. ASSUME UNCHANGED published PROVE ChainInv'
  BY <1>4 DEF OneInv, ChainInv, HistoryKeepsIntents
<1>5. ASSUME UNCHANGED signed PROVE SignedAtMostOnce'
  BY <1>5 DEF OneInv, SignedAtMostOnce
<1>6. ASSUME UNCHANGED <<published, current, policy>> PROVE HandleInv'
  BY <1>6 DEF OneInv, HandleInv
\* A step of authority a that leaves the others alone keeps the mutex and their calls.
<1>7. ASSUME NEW a \in Authority, \A b \in Authority \ {a} : op'[b].pc = "idle"
      PROVE  Mutex' /\ \A b \in Authority \ {a} : WriteInv(b)'
  BY <1>3, <1>7 DEF Mutex
<1>8. ASSUME NEW a \in Authority, LoadExisting(a) PROVE OneInv'
  <2>1. \A b \in Authority : op'[b].pc = "idle"
    BY <1>1, <1>8 DEF LoadExisting
  <2>2. HandleInv'
    BY <1>8 DEF OneInv, HandleInv, LoadExisting
  <2> QED
    BY <1>3, <1>4, <1>5, <1>8, <2>1, <2>2 DEF LoadExisting, OneInv, Mutex
<1>9. ASSUME NEW a \in Authority, LoadEmpty(a) PROVE OneInv'
  <2>1. \A b \in Authority \ {a} : op'[b].pc = "idle"
    BY <1>1, <1>9 DEF LoadEmpty
  <2>2. WriteInv(a)'
    BY <1>9 DEF LoadEmpty, WriteInv
  <2> QED
    BY <1>4, <1>5, <1>6, <1>7, <1>9, <2>1, <2>2 DEF LoadEmpty, OneInv
<1>10. ASSUME NEW a \in Authority, NEW i \in Intent, Authorize(a, i) PROVE OneInv'
  <2>1. \A b \in Authority \ {a} : op'[b].pc = "idle"
    BY <1>1, <1>10 DEF Authorize
  <2>2. i \notin PolicyOf(current[a])
    BY <1>10 DEF Authorize, OneInv, HandleInv
  <2>3. WriteInv(a)'
    BY <1>10, <2>2 DEF Authorize, WriteInv
  <2>4. HandleInv'
    BY <1>10 DEF Authorize, OneInv, HandleInv
  <2> QED
    BY <1>4, <1>5, <1>7, <1>10, <2>1, <2>3, <2>4 DEF Authorize, OneInv
<1>11. ASSUME NEW a \in Authority, CommitScan(a) PROVE OneInv'
  <2>1. \A b \in Authority \ {a} : op'[b].pc = "idle"
    BY <1>2, <1>11 DEF CommitScan
  <2>2. /\ op'[a].pc = "create"
        /\ op'[a].intent = op[a].intent
        /\ op'[a].target = NextState(current[a], policy[a])
    BY <1>11 DEF CommitScan
  <2>3. /\ current[a] # None
        /\ op[a].intent \in Intent
        /\ op[a].intent \notin PolicyOf(current[a])
    BY <1>11 DEF CommitScan, OneInv, WriteInv
  <2>4. WriteInv(a)'
    BY <1>11, <2>2, <2>3, NoneAssumption DEF CommitScan, WriteInv, IsTip
  <2> QED
    BY <1>4, <1>5, <1>6, <1>7, <1>11, <2>1, <2>4 DEF CommitScan, OneInv
<1>12. ASSUME NEW a \in Authority,
              CommitScanFails(a) \/ NameTaken(a) \/ IoError(a)
       PROVE  OneInv'
  <2>1. op[a].pc # "idle" /\ op' = [op EXCEPT ![a] = Idle]
    BY <1>12 DEF CommitScanFails, NameTaken, IoError, Return
  <2>2. \A b \in Authority : op'[b].pc = "idle"
    BY <1>2, <2>1 DEF Idle
  <2>3. UNCHANGED <<published, current, policy, signed>>
    BY <1>12 DEF CommitScanFails, NameTaken, IoError
  <2> QED
    BY <1>3, <1>4, <1>5, <1>6, <2>2, <2>3 DEF OneInv, Mutex
<1>13. ASSUME NEW a \in Authority, CreatePending(a) PROVE OneInv'
  <2>1. \A b \in Authority \ {a} : op'[b].pc = "idle"
    BY <1>2, <1>13 DEF CreatePending, Goto
  <2>2. WriteInv(a)'
    BY ZenonT(60), <1>13 DEF CreatePending, Goto, OneInv, WriteInv, IsTip
  <2> QED
    BY <1>4, <1>5, <1>6, <1>7, <1>13, <2>1, <2>2 DEF CreatePending, OneInv
<1>14. ASSUME NEW a \in Authority, Publish(a) PROVE OneInv'
  <2> DEFINE t == op[a].target
  <2>1. \A b \in Authority \ {a} : op'[b].pc = "idle"
    BY <1>2, <1>14 DEF Publish, Goto
  <2>2. /\ op[a].pc = "link" /\ t \in Record
        /\ published' = published \cup {t}
        /\ op'[a].pc = "remove" /\ op'[a].target = t /\ op'[a].intent = op[a].intent
    BY <1>14 DEF Publish, Goto
  <2>3. \/ published = {} /\ t = InitialState
        \/ \E c \in published, p \in SUBSET Intent :
              IsTip(c, published) /\ t = NextState(c, p) /\ PolicyOf(c) \subseteq p
    BY ZenonT(60), <2>2 DEF OneInv, WriteInv, HandleInv
  <2>4. /\ \A s, u \in published' : Len(s) = Len(u) => s = u
        /\ \A s, u \in published' : Len(s) <= Len(u) => PolicyOf(s) \subseteq PolicyOf(u)
        /\ ~Orphaned(published')
        /\ IsTip(t, published')
    <3> HIDE DEF t
    <3>1. published \in SUBSET Record /\ t \in Record
      BY <2>2
    <3>2. /\ \A s, u \in published : Len(s) = Len(u) => s = u
          /\ \A s, u \in published : Len(s) <= Len(u) => PolicyOf(s) \subseteq PolicyOf(u)
          /\ ~Orphaned(published)
      BY DEF OneInv, ChainInv, HistoryKeepsIntents
    <3>3. published' = published \cup {t}
      BY <2>2
    <3>4. /\ \A s, u \in published \cup {t} : Len(s) = Len(u) => s = u
          /\ \A s, u \in published \cup {t} :
                Len(s) <= Len(u) => PolicyOf(s) \subseteq PolicyOf(u)
          /\ ~Orphaned(published \cup {t})
          /\ IsTip(t, published \cup {t})
      BY <2>3, <3>1, <3>2, PublishKeepsChain
    <3> QED
      BY <3>3, <3>4
  <2>5. ChainInv'
    BY <2>4 DEF ChainInv, HistoryKeepsIntents
  <2>6. op[a].intent # None => PolicyOf(t) = policy[a] /\ signed[op[a].intent] = 0
    <3> SUFFICES ASSUME op[a].intent # None
                 PROVE  PolicyOf(t) = policy[a] /\ signed[op[a].intent] = 0
      OBVIOUS
    <3>1. /\ current[a] # None
          /\ IsTip(current[a], published)
          /\ t = NextState(current[a], policy[a])
          /\ op[a].intent \notin PolicyOf(current[a])
      BY <2>2 DEF OneInv, WriteInv
    <3>2. current[a] \in published
      BY <3>1 DEF IsTip
    <3>3. PolicyOf(t) = policy[a]
      BY ZenonT(60), <3>1, <3>2, NextStateType
    <3>4. ~Durable(op[a].intent)
      BY <3>1, <3>2, TipHoldsAll DEF OneInv, ChainInv
    <3> QED
      BY <3>3, <3>4 DEF DurInv, SignedIsDurable
  <2>7. WriteInv(a)'
    BY <1>14, <2>2, <2>4, <2>6 DEF Publish, WriteInv
  <2>8. HandleInv'
    BY <1>14, <2>2 DEF Publish, OneInv, HandleInv
  <2> QED
    BY <1>5, <1>7, <1>14, <2>1, <2>5, <2>7, <2>8 DEF Publish, OneInv
<1>15. ASSUME NEW a \in Authority, RemovePending(a) PROVE OneInv'
  <2>1. \A b \in Authority \ {a} : op'[b].pc = "idle"
    BY <1>2, <1>15 DEF RemovePending, Goto, Return
  <2>2. op[a].target \in published /\ IsTip(op[a].target, published)
    BY <1>15 DEF RemovePending, OneInv, WriteInv, IsTip
  <2>3. CASE op[a].intent = None
    <3>1. op'[a].pc = "idle"
      <4>1. op' = [op EXCEPT ![a] = Idle]
        BY <1>15, <2>3 DEF RemovePending, Return
      <4> QED
        BY <4>1 DEF Idle
    <3>2. HandleInv'
      BY <1>15, <2>2, <2>3 DEF RemovePending, OneInv, HandleInv
    <3> QED
      BY <1>3, <1>4, <1>5, <1>7, <1>15, <2>1, <3>1, <3>2 DEF RemovePending, OneInv
  <2>4. CASE op[a].intent # None
    <3>1. PolicyOf(op[a].target) = policy[a] /\ signed[op[a].intent] = 0
      BY <1>15, <2>4 DEF RemovePending, OneInv, WriteInv
    <3>2. op'[a].pc = "sign" /\ op'[a].intent = op[a].intent
          /\ current'[a] = op[a].target
      BY <1>15, <2>4 DEF RemovePending, Goto
    <3>3. WriteInv(a)'
      BY <1>15, <2>2, <2>4, <3>1, <3>2 DEF RemovePending, WriteInv, IsTip
    <3>4. HandleInv'
      BY <1>15, <2>2, <2>4, <3>1 DEF RemovePending, OneInv, HandleInv
    <3> QED
      BY <1>4, <1>5, <1>7, <1>15, <2>1, <3>3, <3>4 DEF RemovePending, OneInv
  <2> QED
    BY <2>3, <2>4
<1>16. ASSUME NEW a \in Authority, Sign(a) PROVE OneInv'
  <2>1. \A b \in Authority : op'[b].pc = "idle"
    BY <1>2, <1>16 DEF Sign, Return, Idle
  <2>2. SignedAtMostOnce'
    BY <1>16 DEF Sign, OneInv, WriteInv, SignedAtMostOnce
  <2> QED
    BY <1>3, <1>4, <1>6, <1>16, <2>1, <2>2 DEF Sign, OneInv, Mutex
<1>17. ASSUME NEW p \in Process, Crash(p) PROVE OneInv'
  <2>1. \A b \in Authority : op'[b] = op[b] \/ op'[b].pc = "idle"
    BY <1>17 DEF Crash, Idle
  <2>2. Mutex'
    BY <2>1 DEF OneInv, Mutex
  <2>3. HandleInv'
    BY <1>17 DEF Crash, OneInv, HandleInv
  <2>4. ASSUME NEW b \in Authority PROVE WriteInv(b)'
    <3>1. CASE host[b] = p
      BY <1>3, <1>17, <3>1 DEF Crash, Idle
    <3>2. CASE host[b] # p
      <4>1. UNCHANGED <<op[b], current[b], policy[b], published, signed>>
        BY <1>17, <3>2 DEF Crash
      <4> QED
        BY <4>1 DEF OneInv, WriteInv, IsTip
    <3> QED
      BY <3>1, <3>2
  <2> QED
    BY <1>4, <1>5, <1>17, <2>2, <2>3, <2>4 DEF Crash, OneInv
<1>18. CASE UNCHANGED vars
  <2>1. Mutex' /\ HandleInv' /\ \A a \in Authority : WriteInv(a)'
    BY ZenonT(60), <1>18 DEF vars, OneInv, Mutex, HandleInv, WriteInv, IsTip
  <2> QED
    BY <1>4, <1>5, <1>18, <2>1 DEF vars, OneInv
<1> QED
  BY <1>8, <1>9, <1>10, <1>11, <1>12, <1>13, <1>14, <1>15, <1>16, <1>17, <1>18
     DEF Next, Load, Step

\* The inductive invariant of one backend process.
LEMMA OneProcessInvariant ==
    ASSUME SingleProcess
    PROVE  Spec => [](TypeOK /\ DurInv /\ OneInv)
<1>1. Init => TypeOK /\ DurInv /\ OneInv
  <2> SUFFICES ASSUME Init PROVE TypeOK /\ DurInv /\ OneInv
    OBVIOUS
  <2>1. TypeOK
    BY InitialStateType, BoundsAssumption DEF Init, TypeOK, Idle
  <2>2. DurInv
    BY DEF Init, DurInv, SignedIsDurable, InFlight, Idle
  <2>3. OneInv
    BY DEF Init, OneInv, Mutex, ChainInv, HistoryKeepsIntents, Orphaned, HandleInv,
           WriteInv, SignedAtMostOnce, Idle
  <2> QED
    BY <2>1, <2>2, <2>3
<1>2. TypeOK /\ DurInv /\ [Next]_vars => DurInv'
  BY DurInvInductive
<1>3. TypeOK /\ DurInv /\ OneInv /\ [Next]_vars => OneInv'
  BY OneInvInductive
<1> QED
  BY <1>1, <1>2, <1>3, TypeCorrect, PTL DEF Spec

\* In one backend process the signer is asked at most once for an intent, whatever
\* crashes, restarts and I/O errors happen and however many authorities share the root.
THEOREM AtMostOnce ==
    ASSUME SingleProcess
    PROVE  PolicySpec => []SignedAtMostOnce
<1>1. OneInv => SignedAtMostOnce
  BY DEF OneInv
<1> QED
  BY <1>1, OneProcessInvariant, StoreBehaviour, PTL

\* In one backend process the published records stay one chain: no scan ever meets a
\* fork or an orphan.
THEOREM LinearHistoryHolds ==
    ASSUME SingleProcess
    PROVE  PolicySpec => []LinearHistory
<1>1. TypeOK /\ OneInv => LinearHistory
  <2> SUFFICES ASSUME TypeOK, OneInv PROVE ~Divergent(published)
    BY DEF LinearHistory, OneInv, ChainInv
  <2>1. \A s, t \in published : Len(s) = Len(t) => s = t
    BY DEF OneInv, ChainInv
  <2> QED
    BY <2>1, PredecessorLength DEF Divergent, TypeOK
<1> QED
  BY <1>1, OneProcessInvariant, StoreBehaviour, PTL

\* In one backend process an authority asks the signer only while its own record is the
\* tip of the directory.
THEOREM OnlyTipSignsHolds ==
    ASSUME SingleProcess
    PROVE  PolicySpec => OnlyTipSigns
<1>1. OneInv => \A a \in Authority : Sign(a) => IsTip(current[a], published)
  BY DEF OneInv, WriteInv, Sign
<1>2. OneInv => [\A a \in Authority : Sign(a) => IsTip(current[a], published)]_vars
  BY <1>1
<1> QED
  BY <1>2, OneProcessInvariant, StoreBehaviour, PTL DEF OnlyTipSigns

\* One backend process implements AtMostOnceIssuance: publishing a record consumes its
\* intents, asking the signer is a first call for a consumed intent, and every other
\* step, crashes and failures included, leaves the promise's state alone.
THEOREM Refinement ==
    ASSUME SingleProcess
    PROVE  PolicySpec => ImplementsAtMostOnce
<1>1. Init => Abstract!Init
  BY DEF Init, Abstract!Init, Consumed
<1>2. ASSUME TypeOK, DurInv, OneInv, [Next]_vars
      PROVE  [Abstract!Next]_(Abstract!vars)
  <2>1. ASSUME NEW a \in Authority, Publish(a) PROVE Abstract!Next
    <3>1. PolicyOf(op[a].target) \in SUBSET Intent
      BY <1>2, PolicyOfType DEF TypeOK
    <3>2. Consumed' = Consumed \cup PolicyOf(op[a].target)
      BY <2>1 DEF Publish, Consumed
    <3>3. signed' = signed
      BY <2>1 DEF Publish
    <3> QED
      BY <3>1, <3>2, <3>3 DEF Abstract!Next, Abstract!Consume
  <2>2. ASSUME NEW a \in Authority, Sign(a) PROVE Abstract!Next
    <3>1. op[a].intent \in Intent /\ signed[op[a].intent] = 0
      BY <1>2, <2>2 DEF Sign, OneInv, WriteInv
    <3>2. op[a].intent \in Consumed
      BY <1>2, <2>2 DEF Sign, DurInv, InFlight, Durable, Consumed
    <3>3. signed' = [signed EXCEPT ![op[a].intent] = 1]
      <4>1. signed' = [signed EXCEPT ![op[a].intent] = signed[op[a].intent] + 1]
        BY <2>2 DEF Sign
      <4> QED
        BY <3>1, <4>1
    <3>4. Consumed' = Consumed
      BY <2>2 DEF Sign, Consumed
    <3> QED
      BY <3>1, <3>2, <3>3, <3>4 DEF Abstract!Next, Abstract!Ask
  <2>3. ASSUME UNCHANGED <<published, signed>> PROVE UNCHANGED Abstract!vars
    BY <2>3 DEF Abstract!vars, Consumed
  <2>4. \/ \E a \in Authority : Publish(a) \/ Sign(a)
        \/ UNCHANGED <<published, signed>>
    BY <1>2 DEF Next, Load, Step, LoadExisting, LoadEmpty, Authorize, CommitScan,
         CommitScanFails, CreatePending, NameTaken,
         RemovePending, IoError, Crash, vars
  <2> QED
    BY <2>1, <2>2, <2>3, <2>4
<1> QED
  BY <1>1, <1>2, OneProcessInvariant, StoreBehaviour, PTL
     DEF Spec, ImplementsAtMostOnce, Abstract!Spec

-----------------------------------------------------------------------------
(* The policy in memory *)

\* Every snapshot is one the desktop builds for a job.
Built(s) ==
    \E j \in Jobs : \E status, approval_status, approval, evidence, replay, certified :
        s = Memory!DesktopShellSnapshot(j, status, approval_status, approval, evidence, replay,
                                          certified)

\* What the records of the desktop and of the policy say of each other.
RecordsInv ==
    /\ session = [j \in Jobs |-> session[j]]
    /\ \A j \in Jobs : session[j] \in shown
    /\ \A s \in shown : Built(s)
    /\ \A j \in Jobs : session[j].control_status = "approved" => session[j].approval_digest \in approvals
    /\ \A j \in running : j \in Jobs /\ session[j].control_status = "approved"
    /\ \A a \in approvals : a.job \in Jobs
    /\ \A r \in receipts : r.action = "approve" => r.issued_at = r.approval.issued_at

Scope(e) == <<e.approval, e.intent, e.kind>>

\* Policies an authority can have; only the registered scopes matter here.
Policies(p) == p = [pending |-> p.pending, consumed |-> p.consumed,
                    authorized_intents |-> p.authorized_intents]

PolicyInv ==
    /\ \E S : asked \in Seq(S)
    /\ \A i \in DOMAIN asked : Scope(asked[i]) \in memory.authorized_intents
    /\ Policies(memory)

IssuanceInv == RecordsInv /\ PolicyInv /\ IssuedUnderApproval

LEMMA BuiltFields ==
    ASSUME NEW s, Built(s)
    PROVE  /\ s.job \in Jobs /\ s.contract = JobContract[s.job].digest
           /\ s.plan = JobPlan[s.job].digest
           /\ \A v : Built(Memory!terminal_snapshot(s, v))
           /\ Built(Memory!build_final_snapshot(s))
           /\ Memory!build_final_snapshot(s).control_status = s.control_status
           /\ \A v : Memory!terminal_snapshot(s, v).control_status = v
<1>1. PICK j \in Jobs : \E x1, x2, x3, x4, x5, x6 :
        s = Memory!DesktopShellSnapshot(j, x1, x2, x3, x4, x5, x6)
  BY DEF Built
<1>2. PICK x1, x2, x3, x4, x5, x6 : s = Memory!DesktopShellSnapshot(j, x1, x2, x3, x4, x5, x6)
  BY <1>1
<1>3. s.job = j /\ s.contract = JobContract[j].digest /\ s.plan = JobPlan[j].digest
  BY <1>2 DEF Memory!DesktopShellSnapshot
<1>4. \A v : /\ Memory!terminal_snapshot(s, v)
                  = Memory!DesktopShellSnapshot(j, v, x2, x3, x4, x5, x6)
             /\ Memory!terminal_snapshot(s, v).control_status = v
  BY <1>2 DEF Memory!DesktopShellSnapshot, Memory!terminal_snapshot
<1>5. /\ Memory!build_final_snapshot(s)
           = Memory!DesktopShellSnapshot(j, x1, x2, x3, x4, x5, TRUE)
      /\ Memory!build_final_snapshot(s).control_status = s.control_status
  <2>1. \A v : /\ [s EXCEPT !.certificate = v]
                    = Memory!DesktopShellSnapshot(j, x1, x2, x3, x4, x5, v)
               /\ [s EXCEPT !.certificate = v].control_status = s.control_status
    BY <1>2 DEF Memory!DesktopShellSnapshot
  <2> QED BY <2>1 DEF Memory!build_final_snapshot
<1>6. \A v : Built(Memory!terminal_snapshot(s, v))
  BY <1>4 DEF Built
<1>7. Built(Memory!build_final_snapshot(s))
  BY <1>5 DEF Built
<1> QED BY <1>3, <1>4, <1>5, <1>6, <1>7

LEMMA PipelineBuilt ==
    ASSUME NEW j \in Jobs, NEW status, NEW a
    PROVE  /\ Built(Memory!build_pipeline_snapshot(j, status, a))
           /\ Memory!build_pipeline_snapshot(j, status, a).control_status = status
           /\ Memory!build_pipeline_snapshot(j, status, a).approval_digest = a
<1>1. Built(Memory!build_pipeline_snapshot(j, status, a))
  BY DEF Built, Memory!build_pipeline_snapshot
<1> QED BY <1>1 DEF Memory!build_pipeline_snapshot, Memory!DesktopShellSnapshot

LEMMA ExecutedBuilt ==
    ASSUME NEW a, a.job \in Jobs, NEW bundle
    PROVE  /\ Built(Memory!build_executed_snapshot(a, bundle))
           /\ Memory!build_executed_snapshot(a, bundle).control_status = "executed"
<1>1. Built(Memory!build_executed_snapshot(a, bundle))
  BY DEF Built, Memory!build_executed_snapshot
<1> QED BY <1>1 DEF Memory!build_executed_snapshot, Memory!DesktopShellSnapshot

LEMMA RecordsInit ==
    Memory!Init => IssuanceInv
<1> SUFFICES ASSUME Memory!Init PROVE IssuanceInv
  OBVIOUS
<1>1. \A j \in Jobs : /\ session[j] = Memory!build_pipeline_snapshot(j, "awaiting_approval", None)
                      /\ session[j] \in shown /\ Built(session[j])
                      /\ session[j].control_status = "awaiting_approval"
  BY PipelineBuilt DEF Memory!Init
<1>2. \A s \in shown : Built(s)
  BY <1>1 DEF Memory!Init
<1>3. RecordsInv
  BY <1>1, <1>2 DEF RecordsInv, Memory!Init
<1>4. asked = << >> /\ Policies(memory)
  BY DEF Memory!Init, Policies
<1>5. asked \in Seq({}) /\ DOMAIN asked = {}
  BY <1>4
<1>6. PolicyInv
  BY <1>4, <1>5 DEF PolicyInv
<1> QED BY <1>3, <1>5, <1>6 DEF IssuanceInv, IssuedUnderApproval, Memory!IssuedUnderApproval

\* A command's move keeps the records.
LEMMA MovesKeep ==
    ASSUME RecordsInv, NEW j \in Jobs, NEW action, NEW post, NEW a,
           Memory!Moves(j, action, post, a),
           Built(post),
           approvals \subseteq approvals', \A x \in approvals' : x.job \in Jobs,
           post.control_status = "approved" => post.approval_digest \in approvals',
           \A i \in running' : i \in running /\ i # j,
           action = "approve" => a.issued_at = now
    PROVE  RecordsInv'
<1>1. /\ session' = [session EXCEPT ![j] = post]
      /\ shown' = shown \cup {post}
      /\ receipts' = receipts \cup
            {Memory!issue_desktop_command_receipt(action, session[j], post, a, now)}
  BY DEF Memory!Moves
<1>2. /\ session'[j] = post
      /\ \A i \in Jobs \ {j} : session'[i] = session[i]
      /\ session' = [i \in Jobs |-> session'[i]]
  BY <1>1 DEF RecordsInv
<1>3. \A i \in Jobs : session'[i] \in shown'
  BY <1>1, <1>2 DEF RecordsInv
<1>4. \A s \in shown' : Built(s)
  BY <1>1 DEF RecordsInv
<1>5. \A i \in Jobs : session'[i].control_status = "approved" => session'[i].approval_digest \in approvals'
  BY <1>2 DEF RecordsInv
<1>6. \A i \in running' : i \in Jobs /\ session'[i].control_status = "approved"
  BY <1>2 DEF RecordsInv
<1>7. \A r \in receipts' : r.action = "approve" => r.issued_at = r.approval.issued_at
  BY <1>1 DEF RecordsInv, Memory!issue_desktop_command_receipt
<1>8. \A s \in shown' : Built(s)'
  BY <1>4 DEF Built, Memory!DesktopShellSnapshot
<1> QED BY <1>2, <1>3, <1>8, <1>5, <1>6, <1>7 DEF RecordsInv

\* The policy's part depends on the records only through what they keep.
LEMMA CoverageKept ==
    ASSUME PolicyInv, IssuedUnderApproval, UNCHANGED <<memory, asked>>,
           approvals \subseteq approvals', receipts \subseteq receipts'
    PROVE  PolicyInv' /\ IssuedUnderApproval'
<1>1. PolicyInv'
  BY DEF PolicyInv, Scope, Policies
<1>2. \A e : Memory!TokenCovered(e) => Memory!TokenCovered(e)'
  BY DEF Memory!TokenCovered
<1>3. \A e : Memory!CertificateCovered(e) => Memory!CertificateCovered(e)'
  BY DEF Memory!CertificateCovered
<1> QED BY ZenonT(60), <1>1, <1>2, <1>3 DEF IssuedUnderApproval, Memory!IssuedUnderApproval

LEMMA ConsumedScope ==
    ASSUME NEW kind, NEW s, NEW a, NEW r, NEW intent, NEW ttl, Policies(memory),
           Memory!Consumed(memory, kind, s, a, r, intent, ttl).ok
    PROVE  LET p == Memory!Consumed(memory, kind, s, a, r, intent, ttl).policy
           IN  /\ <<a, intent, kind>> \notin memory.authorized_intents
               /\ p.authorized_intents = memory.authorized_intents \cup {<<a, intent, kind>>}
               /\ Policies(p)
<1>0. PICK c : c = Memory!Consumed(memory, kind, s, a, r, intent, ttl)
  OBVIOUS
<1>1. PICK g : g = Memory!register_authorization(memory, kind, s, a, r, intent, now, ttl)
  OBVIOUS
<1>2. c = IF g.ok THEN Memory!consume_authorization(g.policy, g.authorization, kind, now)
                  ELSE [ok |-> FALSE]
  BY <1>0, <1>1 DEF Memory!Consumed
<1>3. g.ok
  BY <1>0, <1>2
<1>4. PICK z : /\ <<a, intent, kind>> \notin memory.authorized_intents
               /\ g = [ok |-> TRUE, authorization |-> z,
                       policy |-> [memory EXCEPT
                          !.authorized_intents = @ \cup {<<a, intent, kind>>},
                          !.pending = @ \cup {<<z.id, Memory!authorization_digest(z)>>}]]
  BY <1>1, <1>3 DEF Memory!register_authorization
<1>5. /\ g.policy.authorized_intents = memory.authorized_intents \cup {<<a, intent, kind>>}
      /\ Policies(g.policy)
  BY <1>4 DEF Policies
<1>6. PICK y : y = <<g.authorization.id, Memory!authorization_digest(g.authorization)>>
  OBVIOUS
<1>7. c.policy = [g.policy EXCEPT !.pending = @ \ {y},
                                  !.consumed = @ \cup {g.authorization.id}]
  BY <1>0, <1>2, <1>3, <1>6 DEF Memory!consume_authorization
<1>8. c.policy.authorized_intents = g.policy.authorized_intents /\ Policies(c.policy)
  BY <1>5, <1>7 DEF Policies
<1> QED BY <1>0, <1>4, <1>5, <1>8

LEMMA AppendFacts ==
    ASSUME NEW S, NEW q \in Seq(S), NEW e, NEW qe, qe = Append(q, e)
    PROVE  /\ qe \in Seq(S \cup {e})
           /\ \A i \in DOMAIN q : qe[i] = q[i] /\ i # Len(q) + 1
           /\ qe[Len(q) + 1] = e
           /\ DOMAIN qe = DOMAIN q \cup {Len(q) + 1}
<1>1. q \in Seq(S \cup {e}) /\ e \in S \cup {e}
  OBVIOUS
<1> QED BY <1>1

\* An authority's request keeps the invariant when what it asks for is covered.
LEMMA SpendsKeep ==
    ASSUME IssuanceInv, NEW kind, NEW s, NEW a, NEW r, NEW intent, NEW ttl, NEW outcome,
           NEW e, e = [kind |-> kind, approval |-> a, intent |-> intent, ok |-> outcome.ok],
           Memory!Spends(kind, a, intent,
                           Memory!Consumed(memory, kind, s, a, r, intent, ttl), outcome),
           kind = "capability" => Memory!TokenCovered(e),
           kind = "attestation" => Memory!CertificateCovered(e)
    PROVE  IssuanceInv'
<1>1. PICK c : c = Memory!Consumed(memory, kind, s, a, r, intent, ttl)
  OBVIOUS
<1>2. /\ c.ok /\ memory' = c.policy
      /\ asked' = IF outcome.asked THEN Append(asked, e) ELSE asked
      /\ UNCHANGED <<now, session, running, shown, approvals, receipts>>
  BY <1>1 DEF Memory!Spends
<1>3. /\ Scope(e) \notin memory.authorized_intents
      /\ memory'.authorized_intents = memory.authorized_intents \cup {Scope(e)}
      /\ Policies(memory)'
  <2>1. Policies(memory)
    BY DEF IssuanceInv, PolicyInv
  <2>2. /\ <<a, intent, kind>> \notin memory.authorized_intents
        /\ c.policy.authorized_intents = memory.authorized_intents \cup {<<a, intent, kind>>}
        /\ Policies(c.policy)
    <3> DEFINE q == Memory!Consumed(memory, kind, s, a, r, intent, ttl)
    <3>1. q.ok
      BY <1>1, <1>2
    <3>2. /\ <<a, intent, kind>> \notin memory.authorized_intents
          /\ q.policy.authorized_intents = memory.authorized_intents \cup {<<a, intent, kind>>}
          /\ Policies(q.policy)
      BY <2>1, <3>1, ConsumedScope
    <3> QED BY <1>1, <3>2
  <2>3. Scope(e) = <<a, intent, kind>>
    BY DEF Scope
  <2>4. Policies(memory)'
    BY <1>2, <2>2 DEF Policies
  <2> QED BY <1>2, <2>2, <2>3, <2>4
<1>4. RecordsInv'
  BY <1>2 DEF IssuanceInv, RecordsInv, Built, Memory!DesktopShellSnapshot
<1>5. \A x : /\ Memory!TokenCovered(x) => Memory!TokenCovered(x)'
             /\ Memory!CertificateCovered(x) => Memory!CertificateCovered(x)'
  BY <1>2 DEF Memory!TokenCovered, Memory!CertificateCovered
<1>6. CASE ~ outcome.asked
  <2>1. asked' = asked
    BY <1>2, <1>6
  <2>2. PolicyInv'
    BY <1>3, <2>1 DEF IssuanceInv, PolicyInv, Scope, Policies
  <2>3. IssuedUnderApproval'
    BY ZenonT(60), <1>5, <2>1 DEF IssuanceInv, IssuedUnderApproval, Memory!IssuedUnderApproval
  <2> QED BY <1>4, <2>2, <2>3 DEF IssuanceInv
<1>7. CASE outcome.asked
  <2>1. asked' = Append(asked, e)
    BY <1>2, <1>7
  <2>2. PICK S : asked \in Seq(S)
    BY DEF IssuanceInv, PolicyInv
  <2>3. PICK q : q = asked'
    OBVIOUS
  <2>4. /\ q \in Seq(S \cup {e})
        /\ \A i \in DOMAIN asked : q[i] = asked[i] /\ i # Len(asked) + 1
        /\ q[Len(asked) + 1] = e
        /\ DOMAIN q = DOMAIN asked \cup {Len(asked) + 1}
    BY <2>1, <2>2, <2>3, AppendFacts
  <2>5. \A i \in DOMAIN asked : Scope(asked[i]) \in memory.authorized_intents
    BY DEF IssuanceInv, PolicyInv
  <2>6. \A i \in DOMAIN q : Scope(q[i]) \in memory'.authorized_intents
    BY <1>3, <2>4, <2>5
  <2>7. PolicyInv'
    BY <1>3, <2>3, <2>4, <2>6 DEF PolicyInv, Scope, Policies
  <2>8. \A i \in DOMAIN asked : Scope(asked[i]) # Scope(e)
    BY <1>3, <2>5
  <2>9. ASSUME NEW i \in DOMAIN q
        PROVE  /\ q[i].kind = "capability" => Memory!TokenCovered(q[i])'
               /\ q[i].kind = "attestation" => Memory!CertificateCovered(q[i])'
    <3>1. CASE i \in DOMAIN asked
      <4>1. q[i] = asked[i]
        BY <3>1, <2>4
      <4>2. /\ q[i].kind = "capability" => Memory!TokenCovered(q[i])
            /\ q[i].kind = "attestation" => Memory!CertificateCovered(q[i])
        BY <3>1, <4>1 DEF IssuanceInv, IssuedUnderApproval, Memory!IssuedUnderApproval
      <4> QED BY <4>2, <1>5
    <3>2. CASE i = Len(asked) + 1
      <4>1. q[i] = e /\ e.kind = kind
        BY <3>2, <2>4
      <4> QED BY <4>1, <1>5
    <3> QED BY <3>1, <3>2, <2>4
  <2>10. ASSUME NEW i \in DOMAIN q, NEW k \in DOMAIN q \ {i}, q[k].approval = q[i].approval
         PROVE  q[k].kind # q[i].kind \/ q[k].intent # q[i].intent
    <3>1. CASE i \in DOMAIN asked /\ k \in DOMAIN asked
      <4>1. q[i] = asked[i] /\ q[k] = asked[k]
        BY <2>4, <3>1
      <4> QED BY <2>10, <3>1, <4>1 DEF IssuanceInv, IssuedUnderApproval, Memory!IssuedUnderApproval
    <3>2. CASE i = Len(asked) + 1 /\ k \in DOMAIN asked
      BY <2>4, <2>8, <2>10, <3>2 DEF Scope
    <3>3. CASE k = Len(asked) + 1 /\ i \in DOMAIN asked
      BY <2>4, <2>8, <2>10, <3>3 DEF Scope
    <3> QED BY <2>4, <2>10, <3>1, <3>2, <3>3
  <2>11. IssuedUnderApproval'
    <3>1. ASSUME NEW i \in DOMAIN asked'
          PROVE  /\ (asked[i].kind = "capability" => Memory!TokenCovered(asked[i]))'
                 /\ (asked[i].kind = "attestation" => Memory!CertificateCovered(asked[i]))'
      <4>1. PICK x : x = q[i] /\ x = asked'[i]
        BY <2>3
      <4>2. /\ x.kind = "capability" => Memory!TokenCovered(x)'
            /\ x.kind = "attestation" => Memory!CertificateCovered(x)'
        BY <2>3, <2>9, <3>1, <4>1
      <4>3. (asked[i].kind = "capability" => Memory!TokenCovered(asked[i]))'
        BY ZenonT(60), <4>1, <4>2 DEF Memory!TokenCovered
      <4>4. (asked[i].kind = "attestation" => Memory!CertificateCovered(asked[i]))'
        BY ZenonT(60), <4>1, <4>2 DEF Memory!CertificateCovered
      <4> QED BY <4>3, <4>4
    <3>2. \A i \in DOMAIN asked' : \A k \in DOMAIN asked' \ {i} :
              asked'[k].approval = asked'[i].approval
                => asked'[k].kind # asked'[i].kind \/ asked'[k].intent # asked'[i].intent
      BY <2>3, <2>10
    <3> QED BY <3>1, <3>2 DEF IssuedUnderApproval, Memory!IssuedUnderApproval
  <2> QED BY <1>4, <2>7, <2>11 DEF IssuanceInv
<1> QED BY <1>6, <1>7

\* A capability that authorize_capability lets through is covered.
LEMMA CapabilityCovered ==
    ASSUME RecordsInv, NEW s \in shown, NEW a \in approvals, NEW r \in receipts,
           NEW c \in Jobs, NEW p \in Jobs, NEW draft, NEW ok,
           Memory!authorize_capability(s, a, r, JobContract[c], JobPlan[p], draft, now)
    PROVE  Memory!TokenCovered([kind |-> "capability", approval |-> a, intent |-> draft,
                                  ok |-> ok])
<1>1. s.job \in Jobs /\ s.contract = JobContract[s.job].digest
  BY BuiltFields DEF RecordsInv
<1>2. /\ r.action = "approve" /\ r.issued_at <= now /\ r.approval = a
      /\ s.job = a.job
      /\ s.contract = JobContract[c].digest
      /\ a.contract = JobContract[c].digest /\ a.plan = JobPlan[p].digest
  BY DEF Memory!authorize_capability, Memory!validate_common_bindings,
         Memory!verify_desktop_approval_binding
<1>3. /\ draft.issued_at = now /\ draft.expires_at <= a.expires_at /\ draft.max_uses = 1
      /\ draft.contract = JobContract[c].digest /\ draft.plan = JobPlan[p].digest
      /\ draft.grant \in JobContract[c].permissions
  BY DEF Memory!authorize_capability, Memory!validate_capability_intent
<1>4. a.issued_at <= draft.issued_at
  BY <1>2, <1>3 DEF RecordsInv
<1>5. JobContract[a.job] = JobContract[c]
  BY <1>1, <1>2, DigestAssumption
<1> QED BY <1>2, <1>3, <1>4, <1>5 DEF Memory!TokenCovered

\* A certificate that authorize_attestation lets through is covered.
LEMMA AttestationCovered ==
    ASSUME RecordsInv, NEW s \in shown, NEW a \in approvals, NEW r \in receipts,
           NEW c \in Jobs, NEW p \in Jobs, NEW bundle, NEW draft, NEW ok,
           Memory!authorize_attestation(s, a, r, JobContract[c], JobPlan[p], bundle, draft, now)
    PROVE  Memory!CertificateCovered(
             [kind |-> "attestation", approval |-> a,
              intent |-> Memory!AttestationIntent(draft, JobPlan[p], bundle), ok |-> ok])
<1>1. s.job \in Jobs /\ s.plan = JobPlan[s.job].digest
  BY BuiltFields DEF RecordsInv
<1>2. /\ r.action = "execute" /\ r.issued_at <= now /\ r.approval = a
      /\ r.job = s.job /\ r.post = s /\ s.plan = JobPlan[p].digest
  BY DEF Memory!authorize_attestation, Memory!validate_common_bindings
<1>3. /\ r.issued_at <= a.expires_at /\ draft.issued_at = now
      /\ s.evidence_bundle = bundle /\ bundle.plan = JobPlan[p].digest /\ bundle.accepted
  BY DEF Memory!authorize_attestation, Memory!assess_bundle
<1> QED BY <1>1, <1>2, <1>3 DEF Memory!CertificateCovered, Memory!AttestationIntent

LEMMA IssuanceStep ==
    ASSUME IssuanceInv, [Memory!Next]_memoryVars
    PROVE  IssuanceInv'
<1>0. /\ RecordsInv /\ PolicyInv /\ IssuedUnderApproval
  BY DEF IssuanceInv
<1>1. ASSUME NEW j \in Jobs, NEW quoted \in shown, Memory!approve(j, quoted)
      PROVE  IssuanceInv'
  <2>1. PICK request : request = [expected_snapshot |-> quoted, contract |-> quoted.contract,
                                  plan |-> quoted.plan, permission |-> quoted.permission]
    OBVIOUS
  <2>2. PICK a : a = Memory!issue_desktop_approval(session[j], request, now, ApprovalTtl)
    OBVIOUS
  <2>3. PICK post : post = Memory!build_pipeline_snapshot(j, "approved", a)
    OBVIOUS
  <2>4. /\ a # None /\ Memory!Moves(j, "approve", post, a)
        /\ approvals' = approvals \cup {a}
        /\ UNCHANGED <<now, running, memory, asked>>
    BY <1>1, <2>1, <2>2, <2>3 DEF Memory!approve
  <2>5. /\ session[j].control_status = "awaiting_approval"
        /\ a.job = session[j].job /\ a.issued_at = now
    BY <2>2, <2>4 DEF Memory!issue_desktop_approval
  <2>6. a.job \in Jobs
    BY <1>0, <2>5, BuiltFields DEF RecordsInv
  <2>7. \A x \in approvals' : x.job \in Jobs
    BY <1>0, <2>4, <2>6 DEF RecordsInv
  <2>8. \A i \in running' : i \in running /\ i # j
    BY <1>0, <2>4, <2>5 DEF RecordsInv
  <2>9. Built(post) /\ post.approval_digest = a
    BY <2>3, PipelineBuilt
  <2>10. RecordsInv'
    BY <1>0, <2>4, <2>5, <2>7, <2>8, <2>9, MovesKeep
  <2>11. receipts \subseteq receipts'
    BY <2>4 DEF Memory!Moves
  <2> QED BY <1>0, <2>4, <2>10, <2>11, CoverageKept DEF IssuanceInv
<1>2. ASSUME NEW j \in Jobs, Memory!execute_begins(j)
      PROVE  IssuanceInv'
  <2>1. /\ running' = running \cup {j} /\ session[j].control_status = "approved"
        /\ UNCHANGED <<now, session, shown, approvals, receipts, memory, asked>>
    BY <1>2 DEF Memory!execute_begins, Memory!verify_desktop_approval_for_execution
  <2>2. RecordsInv'
    BY <1>0, <2>1 DEF RecordsInv, Built, Memory!DesktopShellSnapshot
  <2> QED BY <1>0, <2>1, <2>2, CoverageKept DEF IssuanceInv
<1>3. ASSUME NEW j \in Jobs, NEW bundle \in Memory!Bundles, Memory!execute_ends(j, bundle)
      PROVE  IssuanceInv'
  <2>1. PICK a : a = session[j].approval_digest
    OBVIOUS
  <2>2. PICK post : post = Memory!build_executed_snapshot(a, bundle)
    OBVIOUS
  <2>3. /\ j \in running /\ running' = running \ {j}
        /\ Memory!Moves(j, "execute", post, a)
        /\ UNCHANGED <<now, approvals, memory, asked>>
    BY <1>3, <2>1, <2>2 DEF Memory!execute_ends
  <2>4. a.job \in Jobs
    BY <1>0, <2>1, <2>3 DEF RecordsInv
  <2>5. Built(post) /\ post.control_status = "executed"
    BY <2>2, <2>4, ExecutedBuilt
  <2>6. \A x \in approvals' : x.job \in Jobs
    BY <1>0, <2>3 DEF RecordsInv
  <2>7. RecordsInv'
    BY <1>0, <2>3, <2>5, <2>6, MovesKeep
  <2>8. receipts \subseteq receipts'
    BY <2>3 DEF Memory!Moves
  <2> QED BY <1>0, <2>3, <2>7, <2>8, CoverageKept DEF IssuanceInv
<1>4. ASSUME NEW j \in Jobs, Memory!cancel(j)
      PROVE  IssuanceInv'
  <2>1. PICK a : a = session[j].approval_digest
    OBVIOUS
  <2>2. PICK post : post = Memory!build_pipeline_snapshot(j, "cancelled", a)
    OBVIOUS
  <2>3. /\ j \notin running
        /\ Memory!Moves(j, "cancel", post, a)
        /\ UNCHANGED <<now, running, approvals, memory, asked>>
    BY <1>4, <2>1, <2>2 DEF Memory!cancel
  <2>4. Built(post) /\ post.control_status = "cancelled"
    BY <2>2, PipelineBuilt
  <2>5. \A x \in approvals' : x.job \in Jobs
    BY <1>0, <2>3 DEF RecordsInv
  <2>6. RecordsInv'
    BY <1>0, <2>3, <2>4, <2>5, MovesKeep
  <2>7. receipts \subseteq receipts'
    BY <2>3 DEF Memory!Moves
  <2> QED BY <1>0, <2>3, <2>6, <2>7, CoverageKept DEF IssuanceInv
<1>5. ASSUME NEW j \in Jobs, Memory!rollback(j)
      PROVE  IssuanceInv'
  <2>1. PICK post : post = Memory!terminal_snapshot(session[j], "rolled_back")
    OBVIOUS
  <2>2. /\ session[j].control_status = "executed"
        /\ Memory!Moves(j, "rollback", post, session[j].approval_digest)
        /\ UNCHANGED <<now, running, approvals, memory, asked>>
    BY <1>5, <2>1 DEF Memory!rollback
  <2>3. Built(post) /\ post.control_status = "rolled_back"
    BY <1>0, <2>1, BuiltFields DEF RecordsInv
  <2>4. \A x \in approvals' : x.job \in Jobs
    BY <1>0, <2>2 DEF RecordsInv
  <2>5. \A i \in running' : i \in running /\ i # j
    BY <1>0, <2>2 DEF RecordsInv
  <2>6. RecordsInv'
    BY <1>0, <2>2, <2>3, <2>4, <2>5, MovesKeep
  <2>7. receipts \subseteq receipts'
    BY <2>2 DEF Memory!Moves
  <2> QED BY <1>0, <2>2, <2>6, <2>7, CoverageKept DEF IssuanceInv
<1>6. ASSUME NEW j \in Jobs, Memory!certify(j)
      PROVE  IssuanceInv'
  <2>1. PICK post : post = Memory!build_final_snapshot(session[j])
    OBVIOUS
  <2>2. /\ j \notin running /\ session[j].control_status = "executed"
        /\ session' = [session EXCEPT ![j] = post]
        /\ shown' = shown \cup {session'[j]}
        /\ UNCHANGED <<now, running, approvals, receipts, memory, asked>>
    BY <1>6, <2>1 DEF Memory!certify
  <2>3. Built(post) /\ post.control_status = "executed"
    BY <1>0, <2>1, <2>2, BuiltFields DEF RecordsInv
  <2>4. /\ session'[j] = post
        /\ \A i \in Jobs \ {j} : session'[i] = session[i]
        /\ session' = [i \in Jobs |-> session'[i]]
    BY <1>0, <2>2 DEF RecordsInv
  <2>5. \A x \in shown' : Built(x)'
    <3>1. \A x \in shown' : Built(x)
      BY <1>0, <2>2, <2>3, <2>4 DEF RecordsInv
    <3> QED BY <3>1 DEF Built, Memory!DesktopShellSnapshot
  <2>6. RecordsInv'
    BY <1>0, <2>2, <2>3, <2>4, <2>5 DEF RecordsInv
  <2> QED BY <1>0, <2>2, <2>6, CoverageKept DEF IssuanceInv
<1>7. ASSUME NEW t, Memory!SetClock(t)
      PROVE  IssuanceInv'
  <2>1. UNCHANGED <<session, running, shown, approvals, receipts, memory, asked>>
    BY <1>7 DEF Memory!SetClock
  <2>2. RecordsInv'
    BY <1>0, <2>1 DEF RecordsInv, Built, Memory!DesktopShellSnapshot
  <2> QED BY <1>0, <2>1, <2>2, CoverageKept DEF IssuanceInv
<1>8. ASSUME NEW s \in shown, NEW a \in approvals, NEW r \in receipts,
             NEW c \in Jobs, NEW p \in Jobs, NEW draft,
             \/ Memory!issue_capability(s, a, r, c, p, draft)
             \/ Memory!production_issue_capability(s, a, r, c, p, draft)
      PROVE  IssuanceInv'
  <2>1. /\ Memory!authorize_capability(s, a, r, JobContract[c], JobPlan[p], draft, now)
        /\ \E ttl, outcome :
              Memory!Spends("capability", a, draft,
                  Memory!Consumed(memory, "capability", s, a, r, draft, ttl), outcome)
    BY <1>8, Zenon DEF Memory!issue_capability, Memory!production_issue_capability
  <2>2. PICK ttl, outcome :
            Memory!Spends("capability", a, draft,
                Memory!Consumed(memory, "capability", s, a, r, draft, ttl), outcome)
    BY <2>1
  <2>3. PICK e : e = [kind |-> "capability", approval |-> a, intent |-> draft,
                      ok |-> outcome.ok]
    OBVIOUS
  <2>4. Memory!TokenCovered(e)
    BY <1>0, <2>1, <2>3, CapabilityCovered
  <2> QED BY <2>2, <2>3, <2>4, SpendsKeep
<1>9. ASSUME NEW s \in shown, NEW a \in approvals, NEW r \in receipts,
             NEW c \in Jobs, NEW p \in Jobs, NEW bundle, NEW draft,
             \/ Memory!issue_attestation(s, a, r, c, p, bundle, draft)
             \/ Memory!production_issue_attestation(s, a, r, c, p, bundle, draft)
      PROVE  IssuanceInv'
  <2>0. PICK intent : intent = Memory!AttestationIntent(draft, JobPlan[p], bundle)
    OBVIOUS
  <2>1. /\ Memory!authorize_attestation(s, a, r, JobContract[c], JobPlan[p], bundle, draft, now)
        /\ \E ttl, outcome :
              Memory!Spends("attestation", a, intent,
                  Memory!Consumed(memory, "attestation", s, a, r, intent, ttl), outcome)
    BY <1>9, <2>0, Zenon DEF Memory!issue_attestation, Memory!production_issue_attestation
  <2>2. PICK ttl, outcome :
            Memory!Spends("attestation", a, intent,
                Memory!Consumed(memory, "attestation", s, a, r, intent, ttl), outcome)
    BY <2>1
  <2>3. PICK e : e = [kind |-> "attestation", approval |-> a, intent |-> intent,
                      ok |-> outcome.ok]
    OBVIOUS
  <2>4. Memory!CertificateCovered(e)
    BY <1>0, <2>0, <2>1, <2>3, AttestationCovered
  <2> QED BY <2>2, <2>3, <2>4, SpendsKeep
<1>10. ASSUME UNCHANGED memoryVars
       PROVE  IssuanceInv'
  <2>1. UNCHANGED <<session, running, shown, approvals, receipts, memory, asked>>
    BY <1>10 DEF memoryVars
  <2>2. RecordsInv'
    BY <1>0, <2>1 DEF RecordsInv, Built, Memory!DesktopShellSnapshot
  <2> QED BY <1>0, <2>1, <2>2, CoverageKept DEF IssuanceInv
<1>11. ASSUME NEW s \in shown, NEW a \in approvals, NEW r \in receipts,
              NEW c \in Jobs, NEW p \in Jobs,
              \/ /\ Memory!Presentable(s, a, r, c, p, "approved", "approve")
                 /\ \E draft \in Memory!CapabilityDrafts(p, now) :
                       \/ Memory!issue_capability(s, a, r, c, p, draft)
                       \/ Memory!production_issue_capability(s, a, r, c, p, draft)
              \/ /\ Memory!Presentable(s, a, r, c, p, "executed", "execute")
                 /\ \E draft \in Memory!AttestationDrafts(now), bundle \in Memory!Bundles :
                       \/ Memory!issue_attestation(s, a, r, c, p, bundle, draft)
                       \/ Memory!production_issue_attestation(s, a, r, c, p, bundle, draft)
       PROVE  IssuanceInv'
  BY <1>8, <1>9, <1>11
<1>12. CASE \E j \in Jobs : \/ \E quoted \in shown : Memory!approve(j, quoted)
                            \/ Memory!execute_begins(j)
                            \/ \E bundle \in Memory!Bundles : Memory!execute_ends(j, bundle)
                            \/ Memory!cancel(j) \/ Memory!rollback(j) \/ Memory!certify(j)
  BY <1>1, <1>2, <1>3, <1>4, <1>5, <1>6, <1>12
<1>13. CASE UNCHANGED memoryVars
  BY <1>10, <1>13
<1>14. CASE Memory!Next
  <2>1. CASE \E t \in 1 .. MaxTime : Memory!SetClock(t)
    BY <1>7, <2>1
  <2>2. ASSUME \E s \in shown, a \in approvals, r \in receipts, c, p \in Jobs :
            \/ /\ Memory!Presentable(s, a, r, c, p, "approved", "approve")
               /\ \E draft \in Memory!CapabilityDrafts(p, now) :
                     \/ Memory!issue_capability(s, a, r, c, p, draft)
                     \/ Memory!production_issue_capability(s, a, r, c, p, draft)
            \/ /\ Memory!Presentable(s, a, r, c, p, "executed", "execute")
               /\ \E draft \in Memory!AttestationDrafts(now), bundle \in Memory!Bundles :
                     \/ Memory!issue_attestation(s, a, r, c, p, bundle, draft)
                     \/ Memory!production_issue_attestation(s, a, r, c, p, bundle, draft)
        PROVE  IssuanceInv'
    BY <1>11, <2>2
  <2> QED BY <1>12, <1>14, <2>1, <2>2 DEF Memory!Next
<1> QED BY <1>13, <1>14

\* Whichever of the session's snapshots, approvals and receipts are presented to
\* issue_capability and issue_attestation, of however many jobs and with the clock set
\* back at will, the signer is asked only for a token within an approval of its
\* contract and plan, only for a certificate of an execution finished within its
\* approval with accepted evidence, and once for an intent.
THEOREM AlwaysIssuedUnderApproval == PolicySpec => []IssuedUnderApproval
<1>1. PolicyInit => IssuanceInv
  BY RecordsInit DEF PolicyInit
<1>2. IssuanceInv /\ [PolicyNext]_<<part, vars, memoryVars>> => IssuanceInv'
  <2>1. ASSUME [PolicyNext]_<<part, vars, memoryVars>>
        PROVE  [Memory!Next]_memoryVars
    BY <2>1 DEF PolicyNext
  <2> QED BY <2>1, IssuanceStep
<1>3. IssuanceInv => IssuedUnderApproval
  BY DEF IssuanceInv, IssuedUnderApproval, Memory!IssuedUnderApproval
<1> QED BY <1>1, <1>2, <1>3, PTL DEF PolicySpec
=============================================================================
