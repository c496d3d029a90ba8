SPECIFICATION WorkSpec
CHECK_DEADLOCK FALSE
CONSTANTS
    Kinds = {"social", "cleanup", "brand", "print"}
    CapsuleEdits = {"newer", "other", "schema", "jobless", "stricter", "reordered", "self", "lone", "twice", "older_operators"}
    ContractEdits = {"wider", "network", "mutable", "optional_output", "moved", "repeated", "weaker", "conflicts", "unproved", "optional_proof", "soft", "open", "same_validator"}
    PathSegments = 4
    PosterEdges = {100001, 210000, 297000, 1189003, 1993999, 1994000, 1994001, 2894871}
    MaxAttempts = 2
    Width = 2
    Height = 2
    ShippedCapsule <- Shipped
    InputsOf <- StagedInputs
    OtherInputs <- OtherJob
    Honest <- Working
    Adapters <- Reporting
    Forgeries <- Untrusted
    Executable <- CarriedOut
    Typical <- Varied
INVARIANTS
    QuestionsSuffice CompiledIsPlannable
    DecodersRecoverRaster PathBoundsExact HonestRunCertifies
    CertifiedFromOneRun CertifiedIsOrdered AttestedVerifies

    
