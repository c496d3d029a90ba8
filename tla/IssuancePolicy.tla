--------------------------- MODULE IssuancePolicy ---------------------------
(***************************************************************************)
(* The issuance policy of a backend: in memory (BackendIssuance) and on    *)
(* disk (IssuancePolicyStore).  The two parts share no state, so a         *)
(* behaviour is one of either; `part` says of which.                       *)
(***************************************************************************)
EXTENDS IssuancePolicyStore

CONSTANTS Jobs,
          JobContract,  \* the compiled contract of each job
          JobPlan,      \* the compiled plan of each job
          ApprovalTtl, MaxTime, MaxCommands, MaxIssued

\* A digest stands for the contract it is taken of.
ASSUME DigestAssumption ==
    \A i, j \in Jobs : JobContract[i].digest = JobContract[j].digest
                         => JobContract[i] = JobContract[j]

VARIABLES part, now, session, running, shown, approvals, receipts,
          production, key, memory, asked

memoryVars == <<now, session, running, shown, approvals, receipts,
                production, key, memory, asked>>

Memory == INSTANCE BackendIssuance WITH
    policy <- memory, Contract <- JobContract, Plan <- JobPlan

PolicyInit ==
    /\ Init /\ Memory!Init
    /\ \/ part = "store" /\ now = 1 /\ ~ production
       \/ part = "memory"

PolicyNext ==
    \/ part = "store" /\ Next /\ UNCHANGED <<part, memoryVars>>
    \/ part = "memory" /\ Memory!Next /\ UNCHANGED <<part, vars>>

\* A started call runs on, and a backend keeps opening its store.
PolicySpec ==
    /\ PolicyInit /\ [][PolicyNext]_<<part, vars, memoryVars>>
    /\ \A a \in Authority : /\ WF_vars(part = "store" /\ Step(a))
                            /\ WF_vars(part = "store" /\ Load(a))

\* Whatever of the desktop's records is presented to issue_capability and
\* issue_attestation, the signer is asked only for what was approved and for what
\* was executed under the approval, and once for an intent.
IssuedUnderApproval == Memory!IssuedUnderApproval

-----------------------------------------------------------------------------
\* The finite instance: jobs with a contract and a plan of one step each.
SmallContract ==
    [j \in Jobs |-> [digest |-> j, capsule |-> "capsule", permissions |-> {"read"}]]
SmallPlan ==
    [j \in Jobs |-> [digest |-> j, contract |-> j, capsule |-> "capsule", permission |-> j,
                     steps |-> {[step |-> "open", operator |-> "open", tokens |-> {"t1"}]}]]
=============================================================================
