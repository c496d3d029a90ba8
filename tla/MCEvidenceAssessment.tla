------------------------ MODULE MCEvidenceAssessment ------------------------
(***************************************************************************)
(* Instance of EvidenceAssessment for TLC: a diverse and an independent    *)
(* mandatory obligation and an optional one, with an executor validator    *)
(* bound beside independent ones; a plan of three steps.                   *)
(***************************************************************************)
EXTENDS EvidenceAssessment, TLC

CONSTANTS text, color, layout, v1, v2, self, e1, e2, e3

MCRequired == [o \in Obligations |->
    CASE o = text -> Diverse [] o = color -> Independent [] o = layout -> Executor]
MCBound == [o \in Obligations |->
    CASE o = text -> Validators [] o = color -> Validators \ {v2} [] o = layout -> {v1, v2}]
MCClass == [v \in Validators |-> IF v = self THEN Executor ELSE Independent]
MCVersion == [v \in Validators |-> 1]
MCConstraint == [o \in Obligations |-> IF o = color THEN "brand" ELSE "content"]

Symmetry == Permutations(EvidenceIds)

\* A mandatory step and an optional one that depends on it, both tokenised,
\* and an optional step that needs no token.
MCSteps ==
    [open |-> [operator |-> "open", depends_on |-> {}, tokens |-> {"t1", "t2"},
               mandatory |-> TRUE],
     edit |-> [operator |-> "edit", depends_on |-> {"open"}, tokens |-> {"t3"},
               mandatory |-> FALSE],
     log  |-> [operator |-> "log", depends_on |-> {}, tokens |-> {},
               mandatory |-> FALSE]]

Statuses == {"STARTED", "SUCCEEDED", "FAILED", "ROLLED_BACK", "SKIPPED"}

Event(s, status, token, receipt) ==
    [step |-> s, operator |-> s, status |-> status, token |-> token,
     receipt |-> receipt]

\* Events as they should be, and with one thing wrong.
MCEvents ==
    UNION {
        {Event("open", status, "t1", "r1") : status \in Statuses},
        {Event("edit", status, "t3", "r2") : status \in Statuses},
        {Event("edit", "SKIPPED", "t3", None), Event("edit", "SKIPPED", None, None),
         Event("open", "SKIPPED", "t1", None)},
        {Event("open", "STARTED", token, "r1") : token \in {None, "t2", "t3"}},
        {Event("open", "STARTED", "t1", receipt) : receipt \in {None, "r4"}},
        {Event("open", "SUCCEEDED", "t1", receipt) : receipt \in {None, "r2", "r4"}},
        {Event("edit", "STARTED", "t3", "r1"), Event("edit", "SUCCEEDED", "t3", "r3")},
        {Event("log", status, None, None) : status \in {"STARTED", "SUCCEEDED"}},
        {Event("log", "STARTED", "t1", None), Event("log", "STARTED", None, "r1")},
        {[Event("open", "STARTED", "t1", "r1") EXCEPT !.operator = "edit"],
         [Event("open", "STARTED", "t1", "r1") EXCEPT !.step = "close"]}}

Receipt(d, s, token) ==
    [digest |-> d, intact |-> TRUE, step |-> s, operator |-> s, token |-> token,
     seal |-> "plan", use_number |-> 1, max_uses |-> 1]

R1 == Receipt("r1", "open", "t1")
R2 == Receipt("r2", "edit", "t3")
R4 == Receipt("r4", "open", "t1")

MCSubmissions ==
    {<< >>, <<R1>>, <<R1, R2>>, <<R1, R1>>, <<R1, R4>>,
     <<R1, R2, Receipt("r3", "edit", "t3")>>,
     <<[R1 EXCEPT !.intact = FALSE]>>, <<[R1 EXCEPT !.seal = "other"]>>,
     <<[R1 EXCEPT !.use_number = 2]>>, <<[R1 EXCEPT !.operator = "edit"]>>}

Result(o, v, status) ==
    [obligation |-> o, claim |-> MCConstraint[o], mandatory |-> o \in Mandatory,
     subject |-> "poster", evidence |-> {"report"}, validator |-> v, version |-> 1,
     class |-> MCClass[v], status |-> status]

\* Results as they should be, and with one thing wrong.
Verdicts ==
    {Result(text, v, "passed") : v \in Validators}
        \cup {Result(text, v1, "failed"), Result(color, v1, "passed"),
              Result(color, v1, "unknown"), Result(layout, v2, "failed")}
        \cup {[Result(color, v1, "passed") EXCEPT !.claim = "content"],
              [Result(color, v1, "passed") EXCEPT !.mandatory = FALSE],
              [Result(color, v1, "passed") EXCEPT !.subject = "draft"],
              [Result(color, v1, "passed") EXCEPT !.evidence = {"report", "poster"}],
              [Result(color, v1, "passed") EXCEPT !.evidence = {"log"}],
              [Result(color, v1, "passed") EXCEPT !.obligation = "none"],
              [Result(color, v1, "passed") EXCEPT !.version = 2],
              [Result(text, self, "passed") EXCEPT !.class = Independent],
              Result(color, v2, "passed")}

MCResults ==
    {[id |-> e, obligation |-> r.obligation, claim |-> r.claim, mandatory |-> r.mandatory,
      subject |-> r.subject, evidence |-> r.evidence, validator |-> r.validator,
      version |-> r.version, class |-> r.class, status |-> r.status]
        : e \in EvidenceIds, r \in Verdicts}

MCArtifactLists ==
    LET poster == [id |-> "poster", role |-> "output"]
        report == [id |-> "report", role |-> "evidence"]
    IN  {<<poster, report>>, <<poster, report, poster>>}
=============================================================================
