------------------------------ MODULE Rehearsal ------------------------------
(***************************************************************************)
(* What an operator's work is tried on before it counts, and what carries  *)
(* it out: the simulation of a plan on an occupational twin                *)
(* (OperatorSimulation) and the calls of the Windows bridge                *)
(* (WindowsBridge).  The two share no state, so a behaviour is one of      *)
(* either; `part` says of which.                                           *)
(***************************************************************************)
EXTENDS OperatorSimulation, TLC

CONSTANTS RequestIds, Values, Instances, MaximumCachedObservations,
          MaxTime, MaxLog, MaxFaults, None

VARIABLES part, now, app, shown, host, observations, order, client, call, signed, log, faults

bridgeVars == <<now, app, shown, host, observations, order, client, call, signed, log, faults>>

Bridge == INSTANCE WindowsBridge

RehearsalInit == SimInit /\ Bridge!Init /\ part \in {"simulation", "bridge"}

RehearsalNext ==
    \/ part = "simulation" /\ SimNext /\ UNCHANGED <<part, bridgeVars>>
    \/ part = "bridge" /\ Bridge!Next /\ UNCHANGED <<part, allVars>>

RehearsalSpec == RehearsalInit /\ [][RehearsalNext]_<<part, allVars, bridgeVars>>

\* Of all packages put together from the parts of signed ones, exactly the signed ones
\* verify, and each stands for an action of its own that the host carried out on the
\* observed state between the two observations (verify_windows_bridge_package,
\* execute_windows_bridge, WindowsUiaClient, UiaAdapter.Execute).
VerifiedActionTookPlace == Bridge!VerifiedActionTookPlace

-----------------------------------------------------------------------------
(***************************************************************************)
(* A finite instance: a workspace of two artifacts with operations that    *)
(* write, overwrite, move and delete them and ones that must be rejected   *)
(* or rolled back, and a plan of two mandatory steps and an optional one,  *)
(* invoked correctly, with faults, by the wrong operator, twice, or for an *)
(* unknown step.  The bridge has one request id: calls under one id are    *)
(* the hardest to tell apart.                                              *)
(***************************************************************************)

Symmetry == Permutations(Values) \cup Permutations(Instances)

PlanStep(id, depends, mandatory, inputs, outputs) ==
    [id |-> id, operator |-> id, depends_on |-> depends, mandatory |-> mandatory,
     inputs |-> inputs, outputs |-> outputs]

SmallPlan == << PlanStep("render", {}, TRUE, {"a1"}, {"a2"}),
             PlanStep("retouch", {}, FALSE, {}, {"a2"}),
             PlanStep("export", {"render"}, TRUE, {"a2"}, {"a2"}) >>

Op(id, operator, inputs, commands, post) ==
    [id |-> id, operator |-> operator, inputs |-> inputs, outputs |-> {"a2"},
     pre |-> {}, commands |-> commands, post |-> post]

Write(c) == [kind |-> "write", artifact |-> "a2", content |-> c]
Render   == Op("o1", "render", {"a1"}, <<Write("c1")>>,
               {[kind |-> "digest", artifact |-> "a2", content |-> "c1"]})
Retouch  == Op("o2", "retouch", {}, <<Write("c2")>>, {})
Export   == Op("o3", "export", {"a2"}, <<Write("c2")>>, {[kind |-> "mutable", artifact |-> "a2"]})
Remove   == Op("o1", "export", {"a2"}, <<[kind |-> "delete", artifact |-> "a2"]>>,
               {[kind |-> "absent", artifact |-> "a2"]})

Move     == [Op("o2", "move", {"a2"}, <<[kind |-> "delete", artifact |-> "a2"],
                                      [kind |-> "write", artifact |-> "a1", content |-> "c2"]>>,
                {[kind |-> "mutable", artifact |-> "a1"]})
             EXCEPT !.outputs = {"a1", "a2"}]
Broken   == Op("o3", "render", {}, <<Write(Garbage)>>, {})

SmallOperations == {Render, Retouch, Export, Remove, Move, Broken}

Invoke(step, operator, op, fault) ==
    [step |-> step, operator |-> operator, operation |-> op, fault |-> fault]
NoFault == [kind |-> "none"]

SmallInvocations == {
    Invoke("render", "render", Render, NoFault),
    Invoke("render", "render", Render, [kind |-> "post", artifact |-> "a2"]),
    Invoke("render", "render", Render, [kind |-> "corrupt", content |-> "c2"]),
    Invoke("retouch", "retouch", Retouch, [kind |-> "corrupt", content |-> "c1"]),
    Invoke("export", "export", Export, NoFault),
    Invoke("export", "export", Export, [kind |-> "pre", artifact |-> "a1"]),
    Invoke("export", "export", Export, [kind |-> "corrupt", content |-> Garbage]),
    Invoke("export", "export", Remove, NoFault),
    Invoke("export", "export", Remove, [kind |-> "corrupt", content |-> Garbage]),
    Invoke("export", "render", Export, NoFault),
    Invoke("review", "review", Export, NoFault)}
=============================================================================
