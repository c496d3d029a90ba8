--------------------------- MODULE DesktopBackend ---------------------------
(***************************************************************************)
(* The desktop backend with both kinds of jobs it serves: the desktop       *)
(* shell's own production job (ProductionExecutionChain) and a Product      *)
(* Alpha user job (ProductJobs).  Each has its own chain store, its own     *)
(* session and its own mutex, and no command touches both, so a behaviour   *)
(* is one of either kind; `job` says of which.                              *)
(***************************************************************************)
EXTENDS ProductionExecutionChain

CONSTANTS Contents, None, MaxApprovals, MaxCuts

\* The kinds of GraphicDesignerJobKind; an absent approval is no approval.
ASSUME KindsAssumption ==
    DOMAIN Contents \subseteq {"StaticSocialPost", "ImageBackgroundCleanup",
                               "BrandCompliantImageExport", "PrintReadyPosterPreflight"}
ASSUME NoneAssumption == None \notin Nat

VARIABLES job, jobDisk, stuck, blobs, jobHandle, jobOp,
          host, chain, approvals, lapsed, cuts

J == INSTANCE ProductJobs WITH disk <- jobDisk, handle <- jobHandle, op <- jobOp

userVars == <<jobDisk, stuck, blobs, jobHandle, jobOp,
              host, chain, approvals, lapsed, cuts>>
backendVars == <<vars, userVars, job>>

BackendInit == Init /\ J!JobInit /\ job \in {"desktop", "product"}

Desktop(A) == job = "desktop" /\ A /\ UNCHANGED <<userVars, job>>
Product(A) == job = "product" /\ A /\ UNCHANGED <<vars, job>>

BackendNext == Desktop(Next) \/ Product(J!JobNext)

\* Desktop job: a started command runs on; the operator starts the application again,
\* asks again for the execution of an approved job, and restarts an application whose
\* chain handle is behind the disk (ConcurrentMutation).  Product job: a started command
\* runs on too, the user starts the application again, leaves it when it has no job
\* runtime, and asks again for the state of the production.
BackendSpec ==
    /\ BackendInit /\ [][BackendNext]_backendVars
    /\ WF_backendVars(Desktop(Pipeline))
    /\ WF_backendVars(Desktop(Recover))
    /\ SF_backendVars(Desktop(handle # disk /\ Quit))
    /\ SF_backendVars(Desktop(Execute \/ ResumeAttestation))
    /\ WF_backendVars(Product(J!Progress))
    /\ WF_backendVars(Product(J!initialize_runtime))
    /\ SF_backendVars(Product(J!sync_product_job_from_production))
    /\ SF_backendVars(Product(host = "unavailable" /\ J!Quit))
-----------------------------------------------------------------------------
\* All four kinds of jobs; the cleanup can go on with another file when one cannot be
\* stored any more.
Files == [StaticSocialPost |-> {"c1"}, ImageBackgroundCleanup |-> {"c1", "c2"},
          BrandCompliantImageExport |-> {"c1"}, PrintReadyPosterPreflight |-> {"c1"}]

\* Acceptance of a user job on disk goes with the certificate of the production chain
\* it observed (record_certificate, apply_production_chain).
AcceptedIsCertified == J!AcceptedIsCertified

\* Every input a durable record names has its bytes on disk (import_input,
\* persist_blob).
InputsAreStored == J!InputsAreStored

\* The durable chain carries no approval the durable job lacks
\* (start_product_job_execution).
ChainApprovalIsJobs == J!ChainApprovalIsJobs

\* An executing job over a certified chain is accepted by a later sync
\* (sync_product_job_from_production), whatever crashes in between.
CertifiedJobAccepted == J!CertifiedJobAccepted
=============================================================================
