--------------------------- MODULE KeyGovernance ---------------------------
(***************************************************************************)
(* Both registries of issuer keys: the P-256 generations of the production  *)
(* signer (ProductionKeyRegistry) and the Ed25519 keys with the capability  *)
(* authorizers and attestation keys that depend on them                     *)
(* (GovernedVerification).  They share no state, so a behaviour is one of   *)
(* either; `registry` says of which.                                        *)
(***************************************************************************)
EXTENDS ProductionKeyRegistry, TLC

CONSTANTS Roles, KeyIds, IssuerKeys, IssuerMaxTime, Tokens, Plan, Permissions, Executor

\* The roles the runtime tells apart are among IssuerRole; max_uses is a u32.
ASSUME RolesAssumption == {"CAPABILITY", "ATTESTATION"} \subseteq Roles
ASSUME TokensAssumption == \A t \in Tokens : t.max_uses \in Nat

VARIABLES registry, issuerRecords, issuerRevision, issuerBase,
          authorizers, attestation_public_keys, receipts

issuerVars == <<issuerRecords, issuerRevision, issuerBase,
                authorizers, attestation_public_keys, receipts>>

G == INSTANCE GovernedVerification WITH
        PublicKeys <- IssuerKeys, MaxTime <- IssuerMaxTime,
        records <- issuerRecords, revision <- issuerRevision, base <- issuerBase

KeyInit == Init /\ G!GovInit /\ registry \in {"production", "issuer"}

KeyNext ==
    \/ registry = "production" /\ Next /\ UNCHANGED <<registry, issuerVars>>
    \/ registry = "issuer" /\ G!GovNext /\ UNCHANGED <<registry, vars>>

KeySpec == KeyInit /\ [][KeyNext]_<<vars, issuerVars, registry>>

\* The receipts of a token id under a key number its uses without gap or repetition
\* (CapabilityAuthorizer).
ReceiptsNumberUses == G!ReceiptsNumberUses

\* No receipt is issued under a revoked capability key, whose authorizer stays in the
\* map (authorize_capability after revoke_key_guarded).
RevocationStopsAuthorization == [][G!NoReceiptUnderRevoked]_issuerVars
-----------------------------------------------------------------------------
(* A finite instance. *)

Symmetry == Permutations(PublicKeys) \cup Permutations(Administrators)

\* Plan and contract: one step that declares one token, one permission.
SmallPlan == [cut |-> [operator |-> "crop", tokens |-> {"tok"}]]

Base ==
    [token_id |-> "tok", key_id |-> "v1", signer |-> "e1", max_uses |-> 2,
     issued_at |-> 0, not_before |-> 0, expires_at |-> 2,
     step |-> "cut", operator |-> "crop", executor |-> "host", grant |-> "read"]

\* A token, the same id signed again with the same and with another key, and
\* tokens that one of the checks refuses.
SmallTokens ==
    {Base,
     [Base EXCEPT !.max_uses = 1],
     [Base EXCEPT !.key_id = "v2", !.signer = "e2", !.issued_at = 1, !.not_before = 1],
     [Base EXCEPT !.signer = "e2"],
     [Base EXCEPT !.max_uses = 0],
     [Base EXCEPT !.grant = "write"],
     [Base EXCEPT !.executor = "other"],
     [Base EXCEPT !.token_id = "undeclared"]}
=============================================================================
