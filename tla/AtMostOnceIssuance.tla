------------------------- MODULE AtMostOnceIssuance -------------------------
(***************************************************************************)
(* What the persistent issuance authority promises: consumption of intents *)
(* is permanent, and the signer is asked for an intent only after it was   *)
(* consumed and never a second time.  No disk, no processes, no crashes.   *)
(***************************************************************************)
EXTENDS Naturals

CONSTANT Intent

VARIABLES
    consumed,      \* intents whose consumption can no longer be lost
    asked          \* how often the signer was asked for each intent

vars == <<consumed, asked>>

Init ==
    /\ consumed = {}
    /\ asked = [i \in Intent |-> 0]

\* Several intents may become durable together: those of failed calls go along.
Consume(S) ==
    /\ consumed' = consumed \cup S
    /\ UNCHANGED asked

Ask(i) ==
    /\ i \in consumed
    /\ asked[i] = 0
    /\ asked' = [asked EXCEPT ![i] = 1]
    /\ UNCHANGED consumed

Next ==
    \/ \E S \in SUBSET Intent : Consume(S)
    \/ \E i \in Intent : Ask(i)

Spec == Init /\ [][Next]_vars
=============================================================================
