---------------------- MODULE EvidenceAssessmentProofs ----------------------
(***************************************************************************)
(* Proofs about EvidenceAssessment, for any contract, capsule, plan,       *)
(* receipts, trace and bundle:                                             *)
(*   - the verdict on a trace is exact: what the verifier keeps while it   *)
(*     reads (states, noted receipts, objections) is at every position     *)
(*     what the trace alone shows, and the final checks then say that the  *)
(*     plan was carried out under its receipts;                            *)
(*   - a session's decision rests on validators the capsule declares, as   *)
(*     every admitted record was checked when it came in;                  *)
(*   - an accepted bundle is proved, by the two above.                     *)
(***************************************************************************)
EXTENDS EvidenceAssessment, TLAPS

\* A leaf is tried with Zenon, then with SMT, then with each again for longer.
USE ZenonT(3), SMTT(20), ZenonT(60), SMTT(120)

-----------------------------------------------------------------------------
(* The verdict on a trace *)

Reported == [id : Nat, sequence : Nat, event : Events]

\* The positions of a step in a trace, and the status it was left in before position i.
Of(es, s) == {i \in DOMAIN es : es[i].event.step = s}

Latest(es, s, i, v) ==
    \E j \in Of(es, s) : /\ j < i /\ es[j].event.status = v
                         /\ \A k \in Of(es, s) : k < i => k <= j

\* What verify_trace demands of the event at i, told from the trace alone.
PlanGood(es, i) ==
    LET e == es[i].event
    IN  /\ \A j \in DOMAIN es : j < i => es[j].id # es[i].id
        /\ es[i].sequence = i - 1
        /\ e.step \in DOMAIN Steps /\ e.operator = Steps[e.step].operator
        /\ Trace!validate_capability_token(e.step, e)
        /\ e.status \in {"STARTED", "SUCCEEDED", "SKIPPED"}
        /\ e.status \in {"STARTED", "SKIPPED"} => \A j \in Of(es, e.step) : j >= i
        /\ e.status = "SUCCEEDED" => Latest(es, e.step, i, "STARTED")
        /\ e.status = "STARTED" =>
              \A d \in Steps[e.step].depends_on : Latest(es, d, i, "SUCCEEDED")
        /\ e.status = "SKIPPED" => ~ Steps[e.step].mandatory

\* The states verify_trace keeps are the ones the trace shows.
StatesShown(es, st) ==
    /\ st \in [DOMAIN Steps -> Trace!StepStates]
    /\ \A s \in DOMAIN Steps :
          /\ st[s] = "NOT_STARTED" <=> Of(es, s) = {}
          /\ \A v \in Trace!StepStates \ {"NOT_STARTED"} :
                st[s] = v <=> Latest(es, s, Len(es) + 1, v)

LEMMA Appended ==
    ASSUME NEW S, NEW es \in Seq(S), NEW x \in S, NEW fs, fs = Append(es, x)
    PROVE  /\ fs \in Seq(S) /\ Len(fs) = Len(es) + 1 /\ Len(es) \in Nat
           /\ DOMAIN es = 1 .. Len(es) /\ DOMAIN fs = 1 .. Len(es) + 1
           /\ \A i \in 1 .. Len(es) : fs[i] = es[i] /\ i \in Nat /\ i < Len(es) + 1
           /\ fs[Len(es) + 1] = x
  OBVIOUS

\* What a trace shows before a position does not change when it grows.
LEMMA LatestKept ==
    ASSUME NEW es \in Seq(Reported), NEW x \in Reported, NEW fs, fs = Append(es, x),
           NEW s, NEW v, NEW i \in 1 .. Len(es) + 1
    PROVE  /\ Of(es, s) \subseteq Of(fs, s)
           /\ \A j \in Of(fs, s) : j < i => j \in Of(es, s) /\ fs[j] = es[j]
           /\ Latest(fs, s, i, v) <=> Latest(es, s, i, v)
<1>1. Of(es, s) \subseteq Of(fs, s)
  BY Appended DEF Of
<1>2. \A j \in Of(fs, s) : j < i => j \in Of(es, s) /\ fs[j] = es[j]
  BY Appended DEF Of
<1>3. \A j \in Of(es, s) : fs[j] = es[j]
  BY Appended DEF Of
<1> QED BY <1>1, <1>2, <1>3 DEF Latest

LEMMA PlanGoodKept ==
    ASSUME NEW es \in Seq(Reported), NEW x \in Reported, NEW fs, fs = Append(es, x),
           NEW i \in DOMAIN es
    PROVE  PlanGood(fs, i) <=> PlanGood(es, i)
<1>1. /\ fs[i] = es[i] /\ i \in 1 .. Len(es) + 1 /\ i \in Nat
      /\ \A j \in DOMAIN es : fs[j] = es[j]
      /\ \A j \in DOMAIN fs : j < i => j \in DOMAIN es
      /\ DOMAIN es \subseteq DOMAIN fs
  BY Appended
<1>2. \A s, v : Latest(fs, s, i, v) <=> Latest(es, s, i, v)
  BY <1>1, LatestKept
<1>3. \A s : (\A j \in Of(fs, s) : j >= i) <=> (\A j \in Of(es, s) : j >= i)
  <2> TAKE s
  <2>1. /\ Of(es, s) \subseteq Of(fs, s)
        /\ \A j \in Of(fs, s) : j < i => j \in Of(es, s)
    BY <1>1, LatestKept
  <2>2. Of(fs, s) \subseteq Nat /\ Of(es, s) \subseteq Nat
    BY Appended DEF Of
  <2> QED BY <1>1, <2>1, <2>2
<1>4. (\A j \in DOMAIN fs : j < i => fs[j].id # fs[i].id)
        <=> (\A j \in DOMAIN es : j < i => es[j].id # es[i].id)
  BY <1>1
<1> QED BY <1>1, <1>2, <1>3, <1>4 DEF PlanGood

Statuses == Trace!StepStates \ {"NOT_STARTED"}

LEMMA EventStatus == \A x \in Reported : x.event.status \in Statuses
  BY EventsAssumption DEF Reported, Statuses, Trace!StepStates

\* The status a step was left in is the status of its last event.
LEMMA LatestOfNew ==
    ASSUME NEW es \in Seq(Reported), NEW x \in Reported, NEW fs, fs = Append(es, x), NEW v
    PROVE  /\ Of(fs, x.event.step) # {}
           /\ Latest(fs, x.event.step, Len(fs) + 1, v) <=> v = x.event.status
<1> DEFINE n == Len(es) + 1
<1>0. PICK s : s = x.event.step
  OBVIOUS
<1>1. /\ Len(fs) = n /\ n \in Nat /\ DOMAIN fs = 1 .. n /\ fs[n] = x
  BY Appended
<1> HIDE DEF n
<1>2. Of(fs, s) \subseteq 1 .. n /\ n \in Of(fs, s)
  BY <1>0, <1>1 DEF Of
<1>3. \A k \in Of(fs, s) : k <= n /\ k < n + 1
  BY <1>1, <1>2
<1>4. \A j \in Of(fs, s) : (\A k \in Of(fs, s) : k < n + 1 => k <= j) => j = n
  BY <1>1, <1>2
<1>5. Latest(fs, s, n + 1, v) <=> v = x.event.status
  BY <1>1, <1>2, <1>3, <1>4 DEF Latest
<1> QED BY <1>0, <1>1, <1>2, <1>5

LEMMA LatestOfOld ==
    ASSUME NEW es \in Seq(Reported), NEW x \in Reported, NEW fs, fs = Append(es, x),
           NEW s, s # x.event.step, NEW v
    PROVE  /\ Of(fs, s) = Of(es, s)
           /\ Latest(fs, s, Len(fs) + 1, v) <=> Latest(es, s, Len(es) + 1, v)
<1> DEFINE n == Len(es) + 1
<1>1. /\ Len(fs) = n /\ n \in Nat /\ DOMAIN es = 1 .. n - 1 /\ DOMAIN fs = 1 .. n /\ fs[n] = x
      /\ \A i \in 1 .. n - 1 : fs[i] = es[i]
  BY Appended
<1> HIDE DEF n
<1>2. Of(fs, s) = Of(es, s) /\ Of(es, s) \subseteq 1 .. n - 1
  BY <1>1 DEF Of
<1>3. \A k \in Of(es, s) : k < n /\ k < n + 1 /\ fs[k] = es[k]
  BY <1>1, <1>2
<1>4. Latest(fs, s, n + 1, v) <=> Latest(es, s, n, v)
  BY <1>2, <1>3 DEF Latest
<1> QED BY <1>1, <1>2, <1>4 DEF n

\* An event moves its own step, if the plan has it.
Moved(st, su, e) ==
    /\ su \in [DOMAIN Steps -> Trace!StepStates]
    /\ \A s \in DOMAIN Steps : su[s] = IF s = e.step THEN e.status ELSE st[s]

LEMMA StatesStep ==
    ASSUME NEW es \in Seq(Reported), NEW x \in Reported, NEW fs, fs = Append(es, x),
           NEW st, StatesShown(es, st), NEW su, Moved(st, su, x.event)
    PROVE  StatesShown(fs, su)
<1>1. x.event.status \in Statuses
  BY EventStatus
<1>3. ASSUME NEW s \in DOMAIN Steps
      PROVE  /\ su[s] = "NOT_STARTED" <=> Of(fs, s) = {}
             /\ \A v \in Statuses : su[s] = v <=> Latest(fs, s, Len(fs) + 1, v)
  <2>1. CASE s = x.event.step
    <3>1. su[s] = x.event.status
      BY <2>1 DEF Moved
    <3>2. ASSUME NEW v
          PROVE  Of(fs, s) # {} /\ (Latest(fs, s, Len(fs) + 1, v) <=> v = x.event.status)
      BY <2>1, LatestOfNew
    <3>3. su[s] # "NOT_STARTED"
      BY <1>1, <3>1 DEF Statuses
    <3> QED BY <3>1, <3>2, <3>3
  <2>2. CASE s # x.event.step
    <3>1. su[s] = st[s]
      BY <2>2 DEF Moved
    <3> QED BY ZenonT(60), <2>2, <3>1, LatestOfOld DEF StatesShown, Statuses
  <2> QED BY <2>1, <2>2
<1> QED BY <1>3 DEF StatesShown, Statuses, Moved

\* verify_trace objects to an event exactly when the trace is bad there.
LEMMA EventExact ==
    ASSUME events \in Seq(Reported), StatesShown(events, states),
           NEW x \in Reported, NEW fs, fs = Append(events, x)
    PROVE  Trace!PlanEventOK(x.id, x.sequence, x.event) <=> PlanGood(fs, Len(events) + 1)
<1> DEFINE n == Len(events) + 1
           e == x.event
<1>1. /\ n \in Nat /\ DOMAIN events = 1 .. n - 1 /\ DOMAIN fs = 1 .. n /\ fs[n] = x
      /\ \A i \in 1 .. n - 1 : fs[i] = events[i]
  BY Appended
<1>2. e.status \in Statuses /\ x.sequence \in Nat
  BY EventStatus DEF Reported
<1>3. x.id \notin {events[i].id : i \in DOMAIN events}
        <=> \A j \in DOMAIN fs : j < n => fs[j].id # fs[n].id
  BY <1>1
<1>4. x.sequence = Len(events) <=> fs[n].sequence = n - 1
  BY <1>1
<1>5. ASSUME e.step \in DOMAIN Steps
      PROVE  states[e.step] = "NOT_STARTED" <=> \A j \in Of(fs, e.step) : j >= n
  <2>1. Of(events, e.step) \subseteq 1 .. n - 1
    BY <1>1 DEF Of
  <2>2. Of(fs, e.step) = Of(events, e.step) \cup {n}
    BY <1>1 DEF Of
  <2>3. states[e.step] = "NOT_STARTED" <=> Of(events, e.step) = {}
    BY <1>5 DEF StatesShown
  <2> QED BY <1>1, <2>1, <2>2, <2>3
<1>6. \A s \in DOMAIN Steps, v \in Statuses : states[s] = v <=> Latest(fs, s, n, v)
  <2> SUFFICES ASSUME NEW s \in DOMAIN Steps, NEW v \in Statuses
               PROVE  states[s] = v <=> Latest(fs, s, n, v)
    OBVIOUS
  <2>1. n \in 1 .. Len(events) + 1
    BY <1>1
  <2>2. Latest(fs, s, n, v) <=> Latest(events, s, n, v)
    BY <2>1, LatestKept
  <2> QED BY <2>2 DEF StatesShown, Statuses
<1>7. {"STARTED", "SUCCEEDED"} \subseteq Statuses
  BY DEF Statuses, Trace!StepStates
<1> HIDE DEF n
<1>8. CASE e.step \notin DOMAIN Steps
  BY <1>1, <1>8 DEF Trace!PlanEventOK, PlanGood
<1>9. CASE e.step \in DOMAIN Steps
  <2>1. e.status \notin {"FAILED", "ROLLED_BACK"} <=> e.status \in {"STARTED", "SUCCEEDED", "SKIPPED"}
    BY <1>2 DEF Statuses, Trace!StepStates
  <2>2. e.status \notin {"FAILED", "ROLLED_BACK"} =>
          (states[e.step] \in Trace!StatesBefore(e.status)
             <=> /\ e.status \in {"STARTED", "SKIPPED"} => \A j \in Of(fs, e.step) : j >= n
                 /\ e.status = "SUCCEEDED" => Latest(fs, e.step, n, "STARTED"))
    BY <1>5, <1>6, <1>7, <1>9, <2>1 DEF Trace!StatesBefore
  <2>3. (\A d \in Steps[e.step].depends_on : states[d] = "SUCCEEDED")
          <=> \A d \in Steps[e.step].depends_on : Latest(fs, d, n, "SUCCEEDED")
    BY <1>6, <1>7, <1>9, PlanAssumption
  <2> QED BY <1>1, <1>3, <1>4, <1>9, <2>1, <2>2, <2>3 DEF Trace!PlanEventOK, PlanGood, n
<1> QED BY <1>8, <1>9 DEF n

\* A trace without an objection in which no step is left started and every mandatory
\* one succeeded is a trace of the plan's events in which every step ran once, after
\* its dependencies, or was left out and is optional; and the other way round.
LEMMA PlanExact ==
    ASSUME events \in Seq(Reported), StatesShown(events, states)
    PROVE  (\A i \in DOMAIN events : PlanGood(events, i)) /\ Trace!FinalStatesOK
             <=> /\ Trace!EventsBelong
                 /\ \A s \in DOMAIN Steps : Trace!Ran(s) \/ Trace!LeftOut(s)
<1> DEFINE At(i) == events[i].event
<1>a. DOMAIN events = 1 .. Len(events) /\ Len(events) \in Nat
  OBVIOUS
<1>b. \A s : Trace!PositionsOf(s) = Of(events, s)
  BY DEF Trace!PositionsOf, Trace!At, Of
<1>c. \A s : \A i \in Of(events, s) : i \in DOMAIN events /\ i \in Nat /\ At(i).step = s
                                     /\ i < Len(events) + 1
  BY <1>a DEF Of
<1>d. \A i \in DOMAIN events : At(i).status \in Statuses
  BY EventStatus
<1>e. \A i : Trace!At(i) = At(i)
  BY DEF Trace!At
<1>1. ASSUME \A i \in DOMAIN events : PlanGood(events, i), Trace!FinalStatesOK
      PROVE  Trace!EventsBelong
  <2>1. \A i \in DOMAIN events : /\ events[i].sequence = i - 1 /\ At(i).step \in DOMAIN Steps
                                 /\ At(i).operator = Steps[At(i).step].operator
                                 /\ Trace!validate_capability_token(At(i).step, At(i))
    BY <1>1 DEF PlanGood
  <2>2. \A i, j \in DOMAIN events : j < i => events[j].id # events[i].id
    BY <1>1 DEF PlanGood
  <2>3. \A i, j \in DOMAIN events : events[i].id = events[j].id => i = j
    BY <1>a, <2>2
  <2> QED BY <1>e, <2>1, <2>3 DEF Trace!EventsBelong
<1>2. ASSUME \A i \in DOMAIN events : PlanGood(events, i), Trace!FinalStatesOK,
             NEW s \in DOMAIN Steps
      PROVE  Trace!Ran(s) \/ Trace!LeftOut(s)
  <2>1. states[s] \in Trace!StepStates /\ states[s] # "STARTED"
        /\ (Steps[s].mandatory => states[s] = "SUCCEEDED")
    BY <1>2 DEF Trace!FinalStatesOK, StatesShown
  <2>2. CASE states[s] = "NOT_STARTED"
    <3>1. Of(events, s) = {}
      BY <2>2 DEF StatesShown
    <3> QED BY <1>b, <2>1, <2>2, <3>1 DEF Trace!LeftOut
  <2>3. CASE states[s] # "NOT_STARTED"
    <3>1. states[s] \in Statuses
      BY <2>1, <2>3 DEF Statuses
    <3>2. Latest(events, s, Len(events) + 1, states[s])
      BY <3>1 DEF StatesShown, Statuses
    <3>3. PICK j \in Of(events, s) : /\ At(j).status = states[s]
                                     /\ \A k \in Of(events, s) : k <= j
      BY <1>c, <3>2 DEF Latest
    <3>4. PlanGood(events, j) /\ At(j).step = s /\ j \in Nat /\ j \in DOMAIN events
      BY <1>2, <1>c, <3>3
    <3>5. CASE states[s] = "SUCCEEDED"
      <4>1. Latest(events, s, j, "STARTED")
        BY <3>3, <3>4, <3>5 DEF PlanGood
      <4>2. PICK i \in Of(events, s) : /\ i < j /\ At(i).status = "STARTED"
                                       /\ \A k \in Of(events, s) : k < j => k <= i
        BY <4>1 DEF Latest
      <4>3. PlanGood(events, i) /\ At(i).step = s /\ i \in Nat /\ i \in DOMAIN events
        BY <1>2, <1>c, <4>2
      <4>4. \A k \in Of(events, s) : k >= i
        BY <4>2, <4>3 DEF PlanGood
      <4>5. Of(events, s) = {i, j}
        <5>1. ASSUME NEW k \in Of(events, s) PROVE k = i \/ k = j
          <6>1. k \in Nat /\ k <= j /\ k >= i /\ (k < j => k <= i)
            BY <1>c, <3>3, <4>2, <4>4
          <6> QED BY <3>4, <4>3, <6>1
        <5> QED BY <3>3, <4>2, <5>1
      <4>6. ASSUME NEW d \in Steps[s].depends_on
            PROVE  \E k \in Of(events, d) : k < i /\ At(k).status = "SUCCEEDED"
        <5>1. Latest(events, d, i, "SUCCEEDED")
          BY <4>2, <4>3 DEF PlanGood
        <5> QED BY <5>1 DEF Latest
      <4> QED BY <1>b, <1>e, <3>3, <3>4, <3>5, <4>2, <4>3, <4>5, <4>6 DEF Trace!Ran
    <3>6. CASE states[s] = "SKIPPED"
      <4>1. \A k \in Of(events, s) : k >= j
        BY <3>3, <3>4, <3>6 DEF PlanGood
      <4>2. \A k \in Of(events, s) : k \in Nat /\ k <= j /\ k >= j
        BY <1>c, <3>3, <4>1
      <4>3. \A k \in Of(events, s) : k = j
        BY <3>4, <4>2
      <4>4. Of(events, s) = {j}
        BY <3>3, <4>3
      <4> QED BY <1>b, <1>e, <2>1, <3>3, <3>4, <3>6, <4>4 DEF Trace!LeftOut
    <3>7. states[s] \notin {"FAILED", "ROLLED_BACK"}
      BY <3>3, <3>4 DEF PlanGood
    <3> QED BY <2>1, <2>3, <3>5, <3>6, <3>7 DEF Trace!StepStates
  <2> QED BY <2>2, <2>3
<1>3. ASSUME Trace!EventsBelong, \A s \in DOMAIN Steps : Trace!Ran(s) \/ Trace!LeftOut(s),
             NEW i \in DOMAIN events
      PROVE  PlanGood(events, i)
  <2>1. /\ events[i].sequence = i - 1 /\ At(i).step \in DOMAIN Steps
        /\ At(i).operator = Steps[At(i).step].operator
        /\ Trace!validate_capability_token(At(i).step, At(i))
    BY <1>3, <1>e DEF Trace!EventsBelong
  <2>2. \A j \in DOMAIN events : j < i => events[j].id # events[i].id
    BY <1>3, <1>a DEF Trace!EventsBelong
  <2>3. PICK s \in DOMAIN Steps : s = At(i).step
    BY <2>1
  <2>4. i \in Of(events, s)
    BY <2>3 DEF Of
  <2>5. CASE Trace!Ran(s)
    <3>1. PICK a, b \in DOMAIN events :
              /\ Of(events, s) = {a, b} /\ a < b
              /\ At(a).status = "STARTED" /\ At(b).status = "SUCCEEDED"
              /\ \A d \in Steps[s].depends_on :
                    \E k \in Of(events, d) : k < a /\ At(k).status = "SUCCEEDED"
      BY ZenonT(60), <1>b, <1>e, <2>5 DEF Trace!Ran
    <3>2. a \in Nat /\ b \in Nat
      BY <1>a
    <3>3. CASE i = a
      <4>1. \A j \in Of(events, s) : j >= i
        BY <3>1, <3>2, <3>3
      <4>2. ASSUME NEW d \in Steps[s].depends_on PROVE Latest(events, d, i, "SUCCEEDED")
        <5>1. PICK k \in Of(events, d) : k < i /\ At(k).status = "SUCCEEDED"
          BY <3>1, <3>3
        <5>2. d \in DOMAIN Steps
          BY PlanAssumption
        <5>3. ~ Trace!LeftOut(d)
          BY <1>b, <1>e, <5>1 DEF Trace!LeftOut
        <5>4. PICK x, y \in DOMAIN events :
                  /\ Of(events, d) = {x, y} /\ x < y
                  /\ At(x).status = "STARTED" /\ At(y).status = "SUCCEEDED"
          BY <1>3, <1>b, <1>e, <5>2, <5>3 DEF Trace!Ran
        <5>5. k = y /\ \A l \in Of(events, d) : l <= k
          BY <1>a, <5>1, <5>4
        <5> QED BY <5>1, <5>5 DEF Latest
      <4>3. At(i).status = "STARTED"
        BY <3>1, <3>3
      <4> QED BY <2>1, <2>2, <2>3, <4>1, <4>2, <4>3 DEF PlanGood
    <3>4. CASE i = b
      <4>1. Latest(events, s, i, "STARTED")
        BY <3>1, <3>2, <3>4 DEF Latest
      <4>2. At(i).status = "SUCCEEDED"
        BY <3>1, <3>4
      <4> QED BY <2>1, <2>2, <2>3, <4>1, <4>2 DEF PlanGood
    <3> QED BY <2>4, <3>1, <3>3, <3>4
  <2>6. CASE Trace!LeftOut(s)
    <3>1. ~ Steps[s].mandatory /\ Of(events, s) = {i} /\ At(i).status = "SKIPPED"
      BY <1>b, <1>e, <2>4, <2>6 DEF Trace!LeftOut
    <3>2. \A j \in Of(events, s) : j >= i
      BY <1>a, <3>1
    <3> QED BY <2>1, <2>2, <2>3, <3>1, <3>2 DEF PlanGood
  <2> QED BY <1>3, <2>5, <2>6
<1>4. ASSUME \A s \in DOMAIN Steps : Trace!Ran(s) \/ Trace!LeftOut(s) PROVE Trace!FinalStatesOK
  <2> SUFFICES ASSUME NEW s \in DOMAIN Steps
               PROVE  states[s] # "STARTED" /\ (Steps[s].mandatory => states[s] = "SUCCEEDED")
    BY DEF Trace!FinalStatesOK
  <2>0. {"SUCCEEDED", "SKIPPED"} \subseteq Statuses
    BY DEF Statuses, Trace!StepStates
  <2>1. CASE Trace!Ran(s)
    <3>1. PICK a, b \in DOMAIN events : /\ Of(events, s) = {a, b} /\ a < b
                                        /\ At(b).status = "SUCCEEDED"
      BY <1>b, <1>e, <2>1 DEF Trace!Ran
    <3>2. Latest(events, s, Len(events) + 1, "SUCCEEDED")
      BY <1>a, <3>1 DEF Latest
    <3>3. states[s] = "SUCCEEDED"
      BY <2>0, <3>2 DEF StatesShown, Statuses
    <3> QED BY <3>3
  <2>2. CASE Trace!LeftOut(s)
    <3>1. CASE Of(events, s) = {}
      <4>1. states[s] = "NOT_STARTED"
        BY <3>1 DEF StatesShown
      <4> QED BY <2>2, <4>1 DEF Trace!LeftOut
    <3>2. CASE Of(events, s) # {}
      <4>1. PICK i \in DOMAIN events : Of(events, s) = {i} /\ At(i).status = "SKIPPED"
        BY <1>b, <1>e, <2>2, <3>2 DEF Trace!LeftOut
      <4>2. Latest(events, s, Len(events) + 1, "SKIPPED")
        BY <1>a, <4>1 DEF Latest
      <4>3. states[s] = "SKIPPED"
        BY <2>0, <4>2 DEF StatesShown, Statuses
      <4> QED BY <2>2, <4>3 DEF Trace!LeftOut
    <3> QED BY <3>1, <3>2
  <2> QED BY <1>4, <2>1, <2>2
<1> QED BY <1>1, <1>2, <1>3, <1>4

-----------------------------------------------------------------------------
(* The receipts a trace cites *)

Digests == {e.receipt : e \in Events} \cup {None}

Cited(i) == Trace!Resolved(events[i].event)

\* The receipts verify_authorized_trace has noted are the ones the trace cites.
ReceiptsShown ==
    /\ step_receipts \in [DOMAIN Steps -> Digests]
    /\ \A d \in DOMAIN receipt_steps : \E j \in DOMAIN events :
          /\ Cited(j) /\ events[j].event.receipt = d
          /\ events[j].event.step = receipt_steps[d]
    /\ \A j \in DOMAIN events : Cited(j) =>
          /\ events[j].event.receipt \in DOMAIN receipt_steps
          /\ step_receipts[events[j].event.step] # None
    /\ \A s \in DOMAIN Steps : step_receipts[s] # None =>
          \E j \in DOMAIN events : /\ Cited(j) /\ events[j].event.step = s
                                   /\ events[j].event.receipt = step_receipts[s]

\* The checks of one event that do not look at the events before it.
AuthLocal(e) ==
    e.step \in DOMAIN Steps =>
        IF e.receipt = None THEN ~ Trace!AuthorizationRequired(e)
        ELSE /\ Trace!Resolved(e)
             /\ Trace!ReceiptOf(e.receipt).step = e.step
             /\ Trace!ReceiptOf(e.receipt).operator = e.operator
             /\ e.token # None => Trace!ReceiptOf(e.receipt).token = e.token

\* An earlier event cites another receipt for the step, or the receipt for another step.
Clash(i) ==
    \E j \in DOMAIN events :
        /\ j < i /\ Cited(j)
        /\ \/ /\ events[j].event.step = events[i].event.step
              /\ events[j].event.receipt # events[i].event.receipt
           \/ /\ events[j].event.step # events[i].event.step
              /\ events[j].event.receipt = events[i].event.receipt

AuthShown ==
    /\ auth_flags \subseteq 0 .. Len(events)
    /\ 0 \in auth_flags <=> ~ Trace!ReceiptTableOK(presented)
    /\ \A i \in DOMAIN events : i \notin auth_flags =>
          /\ AuthLocal(events[i].event)
          /\ Cited(i) => step_receipts[events[i].event.step] = events[i].event.receipt
    /\ \A i \in DOMAIN events : i \in auth_flags =>
          ~ AuthLocal(events[i].event) \/ (Cited(i) /\ Clash(i))

PlanShown ==
    /\ plan_flags \subseteq 1 .. Len(events)
    /\ \A i \in DOMAIN events : i \in plan_flags <=> ~ PlanGood(events, i)

TraceInv ==
    /\ presented \in Submissions /\ events \in Seq(Reported)
    /\ StatesShown(events, states) /\ PlanShown
    /\ ReceiptsShown /\ AuthShown

LEMMA ResolvedMeans ==
    ASSUME NEW e, Trace!Resolved(e)
    PROVE  e.step \in DOMAIN Steps /\ e.receipt # None
  BY DEF Trace!Resolved

LEMMA TraceInit == Trace!Init => TraceInv
<1> SUFFICES ASSUME Trace!Init PROVE TraceInv
  OBVIOUS
<1>1. events = << >> /\ events \in Seq(Reported) /\ Len(events) = 0 /\ DOMAIN events = {}
  BY DEF Trace!Init
<1>2. StatesShown(events, states)
  BY <1>1 DEF Trace!Init, StatesShown, Trace!StepStates, Of, Latest
<1>3. PlanShown
  BY <1>1 DEF Trace!Init, PlanShown
<1>4. DOMAIN receipt_steps = {}
  BY DEF Trace!Init
<1>5. ReceiptsShown
  BY <1>1, <1>4 DEF Trace!Init, ReceiptsShown, Digests
<1>6. AuthShown
  BY <1>1 DEF Trace!Init, AuthShown
<1> QED BY <1>1, <1>2, <1>3, <1>5, <1>6 DEF TraceInv, Trace!Init

LEMMA TraceReads ==
    ASSUME TraceInv, NEW id \in Nat, NEW m \in Nat, NEW e \in Events, Trace!ReadEvent(id, m, e)
    PROVE  TraceInv'
<1>0. PICK n : n = Len(events) + 1
  OBVIOUS
<1>1. PICK x \in Reported : x = [id |-> id, sequence |-> m, event |-> e]
  BY DEF Reported
<1>2. events' = Append(events, x) /\ presented' = presented /\ events \in Seq(Reported)
  BY <1>1 DEF Trace!ReadEvent, TraceInv
<1>3. x.id = id /\ x.sequence = m /\ x.event = e
  BY <1>1
<1>4. /\ events' \in Seq(Reported) /\ Len(events') = n /\ n \in Nat /\ Len(events) \in Nat
      /\ DOMAIN events = 1 .. Len(events) /\ DOMAIN events' = DOMAIN events \cup {n}
      /\ \A i \in DOMAIN events : events'[i] = events[i] /\ i \in Nat /\ i < n
      /\ events'[n].event = e
  BY <1>0, <1>2, <1>3, Appended
<1>5. n \notin DOMAIN events /\ n # 0
  BY <1>4
<1>6. StatesShown(events', states')
  <2>1. PICK st, su, es, fs : st = states /\ su = states' /\ es = events /\ fs = events'
    OBVIOUS
  <2>2. /\ es \in Seq(Reported) /\ fs = Append(es, x) /\ StatesShown(es, st)
        /\ su = IF e.step \in DOMAIN Steps THEN [st EXCEPT ![e.step] = e.status] ELSE st
    BY <1>2, <2>1 DEF TraceInv, Trace!ReadEvent, Trace!StatesAfter
  <2>3. e.status \in Trace!StepStates /\ st \in [DOMAIN Steps -> Trace!StepStates]
    BY <1>3, <2>2, EventStatus DEF Statuses, StatesShown
  <2>4. Moved(st, su, x.event)
    BY <1>3, <2>2, <2>3 DEF Moved
  <2>5. StatesShown(fs, su)
    BY <2>2, <2>4, StatesStep
  <2> QED BY <2>1, <2>5
<1>7. Trace!PlanEventOK(id, m, e) <=> PlanGood(events', n)
  BY <1>0, <1>2, <1>3, EventExact DEF TraceInv
<1>8. \A i \in DOMAIN events : PlanGood(events', i) <=> PlanGood(events, i)
  BY <1>2, PlanGoodKept
<1>9. PlanShown'
  <2>1. plan_flags' = plan_flags \cup (IF Trace!PlanEventOK(id, m, e) THEN {} ELSE {n})
    BY <1>0 DEF Trace!ReadEvent
  <2>2. plan_flags' \subseteq 1 .. n /\ n \notin plan_flags
    <3>1. plan_flags \subseteq DOMAIN events
      BY <1>4 DEF TraceInv, PlanShown
    <3>2. DOMAIN events' = 1 .. n
      BY <1>4
    <3> QED BY <1>4, <1>5, <2>1, <3>1, <3>2
  <2>3. \A i \in DOMAIN events' : i \in plan_flags' <=> ~ PlanGood(events', i)
    BY <1>4, <1>5, <1>7, <1>8, <2>1, <2>2 DEF TraceInv, PlanShown
  <2> QED BY <1>4, <2>2, <2>3 DEF PlanShown
<1>10. \A f : (Trace!Resolved(f))' <=> Trace!Resolved(f)
  BY <1>2 DEF Trace!Resolved, Trace!Known, Trace!AuthorizationRequired
<1>11. \A f : AuthLocal(f)' <=> AuthLocal(f)
  BY <1>2, <1>10 DEF AuthLocal, Trace!ReceiptOf, Trace!AuthorizationRequired
<1>12. \A i \in DOMAIN events : Cited(i)' <=> Cited(i)
  BY <1>4, <1>10 DEF Cited
<1>13. Cited(n)' <=> Trace!Resolved(e)
  BY <1>4, <1>10 DEF Cited
<1>14. /\ \A s \in DOMAIN Steps : step_receipts[s] # None => step_receipts'[s] = step_receipts[s]
       /\ Trace!Resolved(e) => step_receipts'[e.step] # None
       /\ step_receipts' \in [DOMAIN Steps -> Digests]
       /\ \A s \in DOMAIN Steps : step_receipts'[s] # step_receipts[s] =>
             Trace!Resolved(e) /\ s = e.step /\ step_receipts'[s] = e.receipt
  BY ResolvedMeans DEF Trace!ReadEvent, TraceInv, ReceiptsShown, Digests
<1>15. /\ DOMAIN receipt_steps \subseteq DOMAIN receipt_steps'
       /\ \A d \in DOMAIN receipt_steps : receipt_steps'[d] = receipt_steps[d]
       /\ \A d \in DOMAIN receipt_steps' \ DOMAIN receipt_steps :
             Trace!Resolved(e) /\ d = e.receipt /\ receipt_steps'[d] = e.step
       /\ Trace!Resolved(e) => e.receipt \in DOMAIN receipt_steps'
  BY DEF Trace!ReadEvent
<1>16. ReceiptsShown'
  <2>1. ASSUME NEW d \in DOMAIN receipt_steps'
        PROVE  \E j \in DOMAIN events' : /\ Cited(j)' /\ events'[j].event.receipt = d
                                         /\ events'[j].event.step = receipt_steps'[d]
    <3>1. CASE d \in DOMAIN receipt_steps
      <4>1. PICK j \in DOMAIN events : /\ Cited(j) /\ events[j].event.receipt = d
                                       /\ events[j].event.step = receipt_steps[d]
        BY <3>1 DEF TraceInv, ReceiptsShown
      <4> QED BY <1>4, <1>12, <1>15, <3>1, <4>1
    <3>2. CASE d \notin DOMAIN receipt_steps
      BY <1>4, <1>13, <1>15, <3>2
    <3> QED BY <3>1, <3>2
  <2>2. ASSUME NEW j \in DOMAIN events', Cited(j)'
        PROVE  /\ events'[j].event.receipt \in DOMAIN receipt_steps'
               /\ step_receipts'[events'[j].event.step] # None
    <3>1. CASE j = n
      BY <1>4, <1>13, <1>14, <1>15, <2>2, <3>1
    <3>2. CASE j \in DOMAIN events
      <4>1. Cited(j) /\ events'[j] = events[j]
        BY <1>4, <1>12, <2>2, <3>2
      <4>2. /\ events[j].event.receipt \in DOMAIN receipt_steps
            /\ step_receipts[events[j].event.step] # None
            /\ events[j].event.step \in DOMAIN Steps
        BY <3>2, <4>1, ResolvedMeans DEF TraceInv, ReceiptsShown, Cited
      <4> QED BY <1>14, <1>15, <4>1, <4>2
    <3> QED BY <1>4, <3>1, <3>2
  <2>3. ASSUME NEW s \in DOMAIN Steps, step_receipts'[s] # None
        PROVE  \E j \in DOMAIN events' : /\ Cited(j)' /\ events'[j].event.step = s
                                         /\ events'[j].event.receipt = step_receipts'[s]
    <3>1. CASE step_receipts'[s] = step_receipts[s]
      <4>1. PICK j \in DOMAIN events : /\ Cited(j) /\ events[j].event.step = s
                                       /\ events[j].event.receipt = step_receipts[s]
        BY <2>3, <3>1 DEF TraceInv, ReceiptsShown
      <4> QED BY <1>4, <1>12, <3>1, <4>1
    <3>2. CASE step_receipts'[s] # step_receipts[s]
      BY <1>4, <1>13, <1>14, <3>2
    <3> QED BY <3>1, <3>2
  <2> QED BY <1>14, <2>1, <2>2, <2>3 DEF ReceiptsShown
<1>17. auth_flags' = auth_flags \cup (IF Trace!AuthEventOK(e) THEN {} ELSE {n})
  BY <1>0 DEF Trace!ReadEvent
<1>18. n \notin auth_flags /\ auth_flags' \subseteq 0 .. n
  <2>1. auth_flags \subseteq 0 .. Len(events) /\ Len(events) \in Nat /\ n = Len(events) + 1
    BY <1>0, <1>4 DEF TraceInv, AuthShown
  <2>2. n \notin auth_flags /\ auth_flags \subseteq 0 .. n /\ n \in 0 .. n
    BY <2>1
  <2> QED BY <1>17, <2>2
<1>19. AuthShown'
  <2>1. (0 \in auth_flags <=> ~ Trace!ReceiptTableOK(presented))'
    <3>1. 0 \in auth_flags' <=> 0 \in auth_flags
      BY <1>5, <1>17
    <3>2. (Trace!ReceiptTableOK(presented))' <=> Trace!ReceiptTableOK(presented)
      BY <1>2 DEF Trace!ReceiptTableOK, Trace!ReceiptOK
    <3> QED BY <3>1, <3>2 DEF TraceInv, AuthShown
  <2>2. ASSUME NEW i \in DOMAIN events', i \notin auth_flags'
        PROVE  /\ AuthLocal(events[i].event)'
               /\ Cited(i)' => step_receipts'[events'[i].event.step] = events'[i].event.receipt
    <3>1. CASE i \in DOMAIN events
      <4>1. /\ AuthLocal(events[i].event) /\ events'[i] = events[i]
            /\ Cited(i) => step_receipts[events[i].event.step] = events[i].event.receipt
        BY <1>4, <1>17, <2>2, <3>1 DEF TraceInv, AuthShown
      <4>2. PICK f : f = events[i].event
        OBVIOUS
      <4>3. AuthLocal(f)'
        BY <1>11, <4>1, <4>2
      <4>4. AuthLocal(events[i].event)'
        BY <4>1, <4>2, <4>3 DEF AuthLocal
      <4>5. Cited(i) => f.step \in DOMAIN Steps /\ f.receipt # None
        BY <4>2, ResolvedMeans DEF Cited
      <4> QED BY <1>12, <1>14, <3>1, <4>1, <4>2, <4>4, <4>5
    <3>2. CASE i = n
      <4>1. Trace!AuthEventOK(e)
        BY <1>17, <2>2, <3>2
      <4>2. AuthLocal(e)
        BY <4>1 DEF Trace!AuthEventOK, Trace!CitedReceiptOK, AuthLocal
      <4>3. AuthLocal(e)'
        BY <1>11, <4>2
      <4>4. AuthLocal(events[i].event)'
        BY <1>4, <3>2, <4>3 DEF AuthLocal
      <4>5. ASSUME Trace!Resolved(e) PROVE step_receipts'[e.step] = e.receipt
        <5>1. e.step \in DOMAIN Steps /\ e.receipt # None
          BY <4>5, ResolvedMeans
        <5>2. step_receipts[e.step] \in {None, e.receipt}
          BY <4>1, <5>1 DEF Trace!AuthEventOK, Trace!CitedReceiptOK
        <5> QED BY <1>14, <4>5, <5>1, <5>2
      <4> QED BY <1>4, <1>13, <3>2, <4>4, <4>5
    <3> QED BY <1>4, <3>1, <3>2
  <2>3. ASSUME NEW i \in DOMAIN events', i \in auth_flags'
        PROVE  ~ AuthLocal(events[i].event)' \/ (Cited(i)' /\ Clash(i)')
    <3>1. CASE i \in DOMAIN events
      <4>1. i \in auth_flags /\ events'[i] = events[i]
        BY <1>4, <1>5, <1>17, <2>3, <3>1
      <4>2. PICK f : f = events[i].event
        OBVIOUS
      <4>3. CASE ~ AuthLocal(f)
        <5>1. ~ AuthLocal(f)'
          BY <1>11, <4>3
        <5> QED BY <4>1, <4>2, <5>1 DEF AuthLocal
      <4>4. CASE Cited(i) /\ Clash(i)
        <5>1. PICK j \in DOMAIN events :
                  /\ j < i /\ Cited(j)
                  /\ \/ /\ events[j].event.step = events[i].event.step
                        /\ events[j].event.receipt # events[i].event.receipt
                     \/ /\ events[j].event.step # events[i].event.step
                        /\ events[j].event.receipt = events[i].event.receipt
          BY <4>4 DEF Clash
        <5>2. j \in DOMAIN events' /\ Cited(j)' /\ events'[j] = events[j]
          BY <1>4, <1>12, <5>1
        <5>3. Clash(i)'
          BY <4>1, <5>1, <5>2 DEF Clash
        <5> QED BY <1>12, <3>1, <4>4, <5>3
      <4> QED BY <3>1, <4>1, <4>2, <4>3, <4>4 DEF TraceInv, AuthShown
    <3>2. CASE i = n
      <4>1. ~ Trace!AuthEventOK(e)
        BY <1>17, <1>18, <2>3, <3>2
      <4>2. CASE ~ AuthLocal(e)
        <5>1. ~ AuthLocal(e)'
          BY <1>11, <4>2
        <5> QED BY <1>4, <3>2, <5>1 DEF AuthLocal
      <4>3. CASE AuthLocal(e)
        <5>1. e.step \in DOMAIN Steps /\ Trace!Resolved(e) /\ ~ Trace!CitedReceiptOK(e)
          BY <4>1, <4>3 DEF Trace!AuthEventOK, AuthLocal
        <5>2. e.receipt # None
          BY <5>1, ResolvedMeans
        <5>3. \/ step_receipts[e.step] \notin {None, e.receipt}
              \/ e.receipt \in DOMAIN receipt_steps /\ receipt_steps[e.receipt] # e.step
          BY <4>3, <5>1, <5>2 DEF Trace!CitedReceiptOK, AuthLocal
        <5>4. PICK j \in DOMAIN events :
                  /\ Cited(j)
                  /\ \/ events[j].event.step = e.step /\ events[j].event.receipt # e.receipt
                     \/ events[j].event.step # e.step /\ events[j].event.receipt = e.receipt
          <6>1. CASE step_receipts[e.step] \notin {None, e.receipt}
            <7>1. PICK j \in DOMAIN events :
                      /\ Cited(j) /\ events[j].event.step = e.step
                      /\ events[j].event.receipt = step_receipts[e.step]
              BY <5>1, <6>1 DEF TraceInv, ReceiptsShown
            <7> QED BY <6>1, <7>1
          <6>2. CASE e.receipt \in DOMAIN receipt_steps /\ receipt_steps[e.receipt] # e.step
            <7>1. PICK j \in DOMAIN events :
                      /\ Cited(j) /\ events[j].event.receipt = e.receipt
                      /\ events[j].event.step = receipt_steps[e.receipt]
              BY <6>2 DEF TraceInv, ReceiptsShown
            <7> QED BY <6>2, <7>1
          <6> QED BY <5>3, <6>1, <6>2
        <5>5. Clash(n)'
          BY <1>4, <1>12, <5>4 DEF Clash
        <5> QED BY <1>13, <3>2, <5>1, <5>5
      <4> QED BY <4>2, <4>3
    <3> QED BY <1>4, <3>1, <3>2
  <2> QED BY <1>4, <1>18, <2>1, <2>2, <2>3 DEF AuthShown
<1> QED BY <1>2, <1>4, <1>6, <1>9, <1>16, <1>19 DEF TraceInv

Authorized == {s \in DOMAIN Steps : Trace!Ran(s) /\ Steps[s].tokens # {}}

\* In a trace of the plan the events that need a receipt are those of the tokenised
\* steps that ran.
LEMMA AuthorizedEvents ==
    ASSUME TraceInv, Trace!EventsBelong,
           \A s \in DOMAIN Steps : Trace!Ran(s) \/ Trace!LeftOut(s)
    PROVE  /\ \A i \in DOMAIN events :
                 /\ events[i].event.step \in DOMAIN Steps
                 /\ Trace!AuthorizationRequired(events[i].event)
                       <=> events[i].event.step \in Authorized
                 /\ events[i].event.step \in Authorized => events[i].event.token # None
           /\ \A s \in Authorized : Of(events, s) # {}
<1>1. \A s : Trace!PositionsOf(s) = Of(events, s)
  BY DEF Trace!PositionsOf, Trace!At, Of
<1>2. ASSUME NEW i \in DOMAIN events
      PROVE  /\ events[i].event.step \in DOMAIN Steps
             /\ Trace!AuthorizationRequired(events[i].event)
                   <=> events[i].event.step \in Authorized
             /\ events[i].event.step \in Authorized => events[i].event.token # None
  <2>1. PICK s, e : s = events[i].event.step /\ e = events[i].event
    OBVIOUS
  <2>2. s \in DOMAIN Steps /\ Trace!validate_capability_token(s, e)
    BY <2>1 DEF Trace!EventsBelong, Trace!At
  <2>3. i \in Of(events, s)
    BY <2>1 DEF Of
  <2>4. Trace!Ran(s) => e.status \in {"STARTED", "SUCCEEDED"}
    BY <1>1, <2>1, <2>3 DEF Trace!Ran, Trace!At
  <2>5. Trace!LeftOut(s) => e.status = "SKIPPED"
    BY <1>1, <2>1, <2>3 DEF Trace!LeftOut, Trace!At
  <2>6. Steps[s].tokens # {} => e.token # None
    BY <2>2, PlanAssumption DEF Trace!validate_capability_token
  <2>7. Trace!AuthorizationRequired(e) <=> Trace!Ran(s) /\ Steps[s].tokens # {}
    BY <2>1, <2>2, <2>4, <2>5 DEF Trace!AuthorizationRequired
  <2> QED BY <2>1, <2>2, <2>6, <2>7 DEF Authorized
<1>3. \A s \in Authorized : Of(events, s) # {}
  BY <1>1 DEF Authorized, Trace!Ran
<1> QED BY <1>2, <1>3

\* A matching of the tokenised steps that ran with the receipts.
Matching(f) ==
    /\ \A k \in DOMAIN presented : \E s \in Authorized : f[s] = k
    /\ \A s \in Authorized :
          LET r == presented[f[s]]
          IN  /\ Trace!ReceiptOK(r) /\ r.step = s
              /\ \A i \in Trace!PositionsOf(s) :
                    Trace!At(i).receipt = r.digest /\ Trace!At(i).token = r.token
                        /\ Trace!At(i).operator = r.operator
    /\ \A i \in DOMAIN events : Trace!At(i).step \notin Authorized => Trace!At(i).receipt = None

LEMMA MatchingExists ==
    Trace!ReceiptsMatchSteps <=> \E f \in [Authorized -> DOMAIN presented] : Matching(f)
  BY Zenon DEF Trace!ReceiptsMatchSteps, Authorized, Matching

\* The receipts are accepted exactly when they match the steps one to one.
LEMMA ReceiptsExact ==
    ASSUME TraceInv, Trace!EventsBelong,
           \A s \in DOMAIN Steps : Trace!Ran(s) \/ Trace!LeftOut(s)
    PROVE  auth_flags = {} /\ Trace!AllReceiptsUsed <=> Trace!ReceiptsMatchSteps
<1> DEFINE E(i) == events[i].event
<1>1. \A i \in DOMAIN events : /\ E(i).step \in DOMAIN Steps
                               /\ Trace!AuthorizationRequired(E(i)) <=> E(i).step \in Authorized
                               /\ E(i).step \in Authorized => E(i).token # None
  BY AuthorizedEvents
<1>2. \A s \in Authorized : s \in DOMAIN Steps /\ Of(events, s) # {}
  BY AuthorizedEvents DEF Authorized
<1>3. \A s : Trace!PositionsOf(s) = Of(events, s)
  BY DEF Trace!PositionsOf, Trace!At, Of
<1>4. \A s : \A i \in Of(events, s) : i \in DOMAIN events /\ E(i).step = s
  BY DEF Of
<1>5. \A i \in DOMAIN events : i \in Of(events, E(i).step)
  BY DEF Of
<1>6. \A i \in DOMAIN events : Cited(i) => E(i).receipt # None /\ E(i).step \in Authorized
  BY <1>1 DEF Cited, Trace!Resolved
<1>7. \A i, j \in DOMAIN presented :
        /\ presented[i].digest # None
        /\ presented[i].intact /\ presented[j].intact /\ presented[i].digest = presented[j].digest
             => presented[i] = presented[j]
  BY ReceiptsAssumption DEF TraceInv
<1>8. ASSUME auth_flags = {}, Trace!AllReceiptsUsed PROVE Trace!ReceiptsMatchSteps
  <2>1. /\ \A i \in DOMAIN presented : Trace!ReceiptOK(presented[i])
        /\ \A i, j \in DOMAIN presented : presented[i].digest = presented[j].digest => i = j
    BY <1>8 DEF TraceInv, AuthShown, Trace!ReceiptTableOK
  <2>2. \A i \in DOMAIN events : /\ AuthLocal(E(i))
                                 /\ Cited(i) => step_receipts[E(i).step] = E(i).receipt
    BY <1>8 DEF TraceInv, AuthShown
  <2>3. ASSUME NEW i \in DOMAIN events
        PROVE  /\ E(i).step \in Authorized => Cited(i)
               /\ E(i).step \notin Authorized => E(i).receipt = None
    BY <1>1, <2>2 DEF AuthLocal, Cited, Trace!Resolved
  <2>0. PICK f : f = [s \in Authorized |->
                        CHOOSE k \in DOMAIN presented : presented[k].digest = step_receipts[s]]
    OBVIOUS
  <2>4. ASSUME NEW s \in Authorized, NEW i \in Of(events, s)
        PROVE  /\ f[s] \in DOMAIN presented /\ presented[f[s]].digest = step_receipts[s]
               /\ presented[f[s]].step = s /\ E(i).receipt = presented[f[s]].digest
               /\ E(i).token = presented[f[s]].token /\ E(i).operator = presented[f[s]].operator
    <3>1. i \in DOMAIN events /\ E(i).step = s /\ Cited(i) /\ E(i).receipt = step_receipts[s]
      BY <1>4, <2>2, <2>3
    <3>2. Trace!Known(E(i).receipt) /\ E(i).receipt # None
      BY <3>1 DEF Cited, Trace!Resolved
    <3>3. PICK k \in DOMAIN presented : presented[k].intact /\ presented[k].digest = E(i).receipt
      BY <3>2 DEF Trace!Known
    <3>4. f[s] \in DOMAIN presented /\ presented[f[s]].digest = step_receipts[s]
      BY <2>0, <3>1, <3>3
    <3>5. f[s] = k
      BY <2>1, <3>1, <3>3, <3>4
    <3>6. Trace!ReceiptOf(E(i).receipt) = presented[k]
      BY <2>1, <3>3 DEF Trace!ReceiptOf
    <3>7. /\ presented[k].step = E(i).step /\ presented[k].operator = E(i).operator
          /\ E(i).token # None => presented[k].token = E(i).token
      BY <1>1, <2>2, <3>1, <3>2, <3>6 DEF AuthLocal
    <3>8. E(i).token # None
      BY <1>1, <3>1
    <3>9. presented[k].step = s /\ E(i).operator = presented[k].operator
      BY <3>1, <3>7
    <3>10. E(i).token = presented[k].token /\ E(i).receipt = presented[k].digest
      BY <3>3, <3>7, <3>8
    <3> HIDE DEF E
    <3> QED BY <3>4, <3>5, <3>9, <3>10
  <2>5. f \in [Authorized -> DOMAIN presented]
    BY <1>2, <2>0, <2>4
  <2>6. ASSUME NEW k \in DOMAIN presented PROVE \E s \in Authorized : f[s] = k
    <3>1. presented[k].digest \in DOMAIN receipt_steps
      BY <1>8, <2>1 DEF Trace!AllReceiptsUsed, Trace!ReceiptOK
    <3>2. PICK j \in DOMAIN events : Cited(j) /\ E(j).receipt = presented[k].digest
      BY ZenonT(60), <3>1 DEF TraceInv, ReceiptsShown
    <3>3. E(j).step \in Authorized /\ j \in Of(events, E(j).step)
      BY <1>5, <1>6, <3>2
    <3>4. PICK s : s = E(j).step
      OBVIOUS
    <3>5. f[s] \in DOMAIN presented /\ E(j).receipt = presented[f[s]].digest
      BY <2>4, <3>3, <3>4
    <3>6. f[s] = k
      BY <2>1, <3>2, <3>5
    <3> QED BY <3>3, <3>4, <3>6
  <2>7. \A s \in Authorized : /\ Trace!ReceiptOK(presented[f[s]]) /\ presented[f[s]].step = s
                              /\ \A i \in Of(events, s) :
                                    /\ E(i).receipt = presented[f[s]].digest
                                    /\ E(i).token = presented[f[s]].token
                                    /\ E(i).operator = presented[f[s]].operator
    <3> HIDE DEF E
    <3> SUFFICES ASSUME NEW s \in Authorized
                 PROVE  /\ Trace!ReceiptOK(presented[f[s]]) /\ presented[f[s]].step = s
                        /\ \A i \in Of(events, s) :
                              /\ E(i).receipt = presented[f[s]].digest
                              /\ E(i).token = presented[f[s]].token
                              /\ E(i).operator = presented[f[s]].operator
      OBVIOUS
    <3>1. PICK i : i \in Of(events, s)
      BY <1>2
    <3>2. f[s] \in DOMAIN presented /\ presented[f[s]].step = s
      BY <2>4, <3>1
    <3>3. Trace!ReceiptOK(presented[f[s]])
      BY <2>1, <3>2
    <3>4. ASSUME NEW n \in Of(events, s)
          PROVE  /\ E(n).receipt = presented[f[s]].digest
                 /\ E(n).token = presented[f[s]].token
                 /\ E(n).operator = presented[f[s]].operator
      BY <2>4
    <3> QED BY <3>2, <3>3, <3>4
  <2>8. Matching(f)
    BY ZenonT(60), <1>3, <2>3, <2>6, <2>7 DEF Matching, Trace!At
  <2> QED BY <2>5, <2>8, MatchingExists
<1>9. ASSUME Trace!ReceiptsMatchSteps PROVE auth_flags = {} /\ Trace!AllReceiptsUsed
  <2>1. PICK f \in [Authorized -> DOMAIN presented] : Matching(f)
    BY <1>9, MatchingExists
  <2>2. \A k \in DOMAIN presented : \E s \in Authorized : f[s] = k
    BY <2>1 DEF Matching
  <2>3. \A s \in Authorized :
          /\ f[s] \in DOMAIN presented /\ presented[f[s]].intact /\ presented[f[s]].step = s
          /\ Trace!ReceiptOK(presented[f[s]]) /\ presented[f[s]].digest # None
    <3> SUFFICES ASSUME NEW s \in Authorized
                 PROVE  /\ f[s] \in DOMAIN presented /\ presented[f[s]].intact
                        /\ presented[f[s]].step = s
                        /\ Trace!ReceiptOK(presented[f[s]]) /\ presented[f[s]].digest # None
      OBVIOUS
    <3>1. f[s] \in DOMAIN presented /\ presented[f[s]].digest # None
      BY <1>7, <2>1
    <3>2. Trace!ReceiptOK(presented[f[s]]) /\ presented[f[s]].step = s
      BY <2>1 DEF Matching
    <3> QED BY <3>1, <3>2 DEF Trace!ReceiptOK
  <2>4. \A i \in DOMAIN events : E(i).step \in Authorized =>
          /\ E(i).receipt = presented[f[E(i).step]].digest
          /\ E(i).token = presented[f[E(i).step]].token
          /\ E(i).operator = presented[f[E(i).step]].operator
    BY <1>3, <1>5, <2>1 DEF Matching, Trace!At
  <2>5. \A i \in DOMAIN events : E(i).step \notin Authorized => E(i).receipt = None
    BY <2>1 DEF Matching, Trace!At
  <2>6. \A s, t \in Authorized : presented[f[s]].digest = presented[f[t]].digest => s = t
    BY <1>7, <2>3
  <2>7. Trace!ReceiptTableOK(presented)
    <3>1. \A i \in DOMAIN presented : Trace!ReceiptOK(presented[i])
      BY <2>2, <2>3
    <3>2. \A i, j \in DOMAIN presented : presented[i].digest = presented[j].digest => i = j
      BY <2>2, <2>6
    <3> QED BY <3>1, <3>2 DEF Trace!ReceiptTableOK
  <2>8. ASSUME NEW i \in DOMAIN events, E(i).step \in Authorized PROVE AuthLocal(E(i)) /\ Cited(i)
    <3>1. PICK r : r = presented[f[E(i).step]]
      OBVIOUS
    <3>2. /\ r.intact /\ r.digest # None /\ r.step = E(i).step
          /\ E(i).receipt = r.digest /\ E(i).token = r.token /\ E(i).operator = r.operator
      BY <2>3, <2>4, <2>8, <3>1
    <3>3. Trace!Known(E(i).receipt)
      BY <2>3, <2>8, <3>1, <3>2 DEF Trace!Known
    <3>4. Cited(i)
      BY <1>1, <2>8, <3>2, <3>3 DEF Cited, Trace!Resolved
    <3>5. Trace!ReceiptOf(E(i).receipt) = r
      <4>1. PICK k : k = CHOOSE l \in DOMAIN presented :
                            presented[l].intact /\ presented[l].digest = E(i).receipt
        OBVIOUS
      <4>2. k \in DOMAIN presented /\ presented[k].intact /\ presented[k].digest = E(i).receipt
        BY <3>3, <4>1 DEF Trace!Known
      <4>3. PICK m \in DOMAIN presented : presented[m] = r
        BY <2>3, <2>8, <3>1
      <4>4. presented[k] = presented[m]
        BY <1>7, <3>2, <4>2, <4>3
      <4> QED BY <4>1, <4>3, <4>4 DEF Trace!ReceiptOf
    <3> QED BY <3>2, <3>4, <3>5 DEF AuthLocal, Cited
  <2>9. \A i \in DOMAIN events : i \notin auth_flags
    <3> SUFFICES ASSUME NEW i \in DOMAIN events, i \in auth_flags PROVE FALSE
      OBVIOUS
    <3>1. CASE E(i).step \notin Authorized
      <4>1. E(i).receipt = None /\ AuthLocal(E(i)) /\ ~ Cited(i)
        BY <1>1, <1>6, <2>5, <3>1 DEF AuthLocal
      <4> QED BY <4>1 DEF TraceInv, AuthShown
    <3>2. CASE E(i).step \in Authorized
      <4>1. Clash(i)
        BY <2>8, <3>2 DEF TraceInv, AuthShown
      <4>2. PICK j \in DOMAIN events :
                /\ Cited(j)
                /\ \/ E(j).step = E(i).step /\ E(j).receipt # E(i).receipt
                   \/ E(j).step # E(i).step /\ E(j).receipt = E(i).receipt
        BY <4>1 DEF Clash
      <4>3. E(j).step \in Authorized
        BY <1>6, <4>2
      <4>4. PICK s \in Authorized, t \in Authorized : s = E(i).step /\ t = E(j).step
        BY <3>2, <4>3
      <4>5. E(i).receipt = presented[f[s]].digest /\ E(j).receipt = presented[f[t]].digest
        BY <2>4, <4>4
      <4>6. E(i).receipt = E(j).receipt <=> s = t
        BY <2>6, <4>5
      <4> QED BY <4>2, <4>4, <4>6
    <3> QED BY <3>1, <3>2
  <2>10. auth_flags = {}
    <3>1. auth_flags \subseteq {0} \cup DOMAIN events
      BY DEF TraceInv, AuthShown
    <3> QED BY <2>7, <2>9, <3>1 DEF TraceInv, AuthShown
  <2>11. ASSUME NEW k \in DOMAIN presented PROVE presented[k].digest \in DOMAIN receipt_steps
    <3>1. PICK s \in Authorized : f[s] = k
      BY <2>2
    <3>2. PICK i \in Of(events, s) : TRUE
      BY <1>2
    <3>3. i \in DOMAIN events /\ E(i).step = s
      BY <1>4
    <3> QED BY <2>4, <2>8, <3>1, <3>3 DEF TraceInv, ReceiptsShown
  <2>12. Trace!AllReceiptsUsed
    BY <2>11 DEF Trace!AllReceiptsUsed
  <2> QED BY <2>10, <2>12
<1> QED BY <1>8, <1>9

LEMMA VerdictFollows == TraceInv => TraceVerdictExact
<1> SUFFICES ASSUME TraceInv PROVE TraceVerdictExact
  OBVIOUS
<1>1. plan_flags = {} <=> \A i \in DOMAIN events : PlanGood(events, i)
  BY DEF TraceInv, PlanShown
<1>2. plan_flags = {} /\ Trace!FinalStatesOK
        <=> Trace!EventsBelong /\ \A s \in DOMAIN Steps : Trace!Ran(s) \/ Trace!LeftOut(s)
  BY <1>1, PlanExact DEF TraceInv
<1> QED BY <1>2, ReceiptsExact
        DEF TraceVerdictExact, Trace!VerdictExact, Trace!conforms_to_authorized_plan

LEMMA TraceStep == TraceInv /\ [AssessmentNext]_allVars => TraceInv'
<1> SUFFICES ASSUME TraceInv, [AssessmentNext]_allVars PROVE TraceInv'
  OBVIOUS
<1>1. CASE UNCHANGED traceVars
  <2>1. UNCHANGED <<presented, events, states, step_receipts, receipt_steps, plan_flags, auth_flags>>
    BY <1>1 DEF traceVars
  <2>2. \A i : Cited(i)' <=> Cited(i)
    BY <2>1 DEF Cited, Trace!Resolved, Trace!Known, Trace!AuthorizationRequired
  <2>3. \A i : AuthLocal(events[i].event)' <=> AuthLocal(events[i].event)
    BY <2>1 DEF AuthLocal, Trace!Resolved, Trace!Known, Trace!ReceiptOf,
       Trace!AuthorizationRequired
  <2>4. \A i : Clash(i)' <=> Clash(i)
    BY <2>1, <2>2 DEF Clash
  <2>5. (Trace!ReceiptTableOK(presented))' <=> Trace!ReceiptTableOK(presented)
    BY <2>1 DEF Trace!ReceiptTableOK, Trace!ReceiptOK
  <2>6. ReceiptsShown'
    BY <2>1, <2>2 DEF TraceInv, ReceiptsShown
  <2>7. AuthShown'
    BY <2>1, <2>2, <2>3, <2>4, <2>5 DEF TraceInv, AuthShown
  <2>8. PlanShown'
    BY <2>1 DEF TraceInv, PlanShown
  <2> QED BY <2>1, <2>6, <2>7, <2>8 DEF TraceInv
<1>2. CASE ReadTrace
  <2>1. Len(events) \in Nat
    BY DEF TraceInv
  <2>2. PICK e \in Events, id \in Nat, m \in Nat : Trace!ReadEvent(id, m, e)
    BY <1>2, <2>1 DEF ReadTrace, Trace!Next
  <2> QED BY <2>2, TraceReads
<1> QED BY <1>1, <1>2
        DEF AssessmentNext, UseSession, OpenSession, TakeResult, Conclude, allVars

\* verify_authorized_trace says conforming of exactly the traces in which the plan was
\* carried out under its receipts, for every plan, every set of receipts and every
\* sequence of events, lost, repeated, reordered or out of the plan.
THEOREM VerdictAlwaysExact == AssessmentSpec => []TraceVerdictExact
<1>1. AssessmentInit => TraceInv
  BY TraceInit DEF AssessmentInit
<1> QED BY <1>1, TraceStep, VerdictFollows, PTL DEF AssessmentSpec

-----------------------------------------------------------------------------
(* The contract session *)

Admissible ==
    \A e \in admitted : /\ e.validator \in Bound[e.obligation]
                        /\ e.class = Class[e.validator]
                        /\ e.contract = Contract

SessionInv ==
    /\ assurance \in 0 .. Levels /\ unknowns \in 0 .. MaxUnknowns
    /\ Admissible /\ EvidenceIdsUnique

LEMMA IngestKeeps ==
    ASSUME SessionInv, NEW e, IngestEvidence(e)
    PROVE  SessionInv'
<1>1. admitted' = admitted \cup {e} /\ UNCHANGED <<assurance, unknowns>>
  BY DEF IngestEvidence
<1>2. /\ e.validator \in Bound[e.obligation] /\ e.class = Class[e.validator]
      /\ e.contract = Contract /\ \A f \in admitted : f.id # e.id
  BY DEF IngestEvidence, BindingAdmits, KernelAdmits
<1>3. Admissible'
  BY <1>1, <1>2 DEF SessionInv, Admissible
<1>4. EvidenceIdsUnique'
  BY <1>1, <1>2 DEF SessionInv, EvidenceIdsUnique
<1> QED BY <1>1, <1>3, <1>4 DEF SessionInv

\* What was checked on admission stays true of all admitted evidence, in a session
\* used directly and in one assess_bundle opens.
LEMMA SessionInvariant == AssessmentSpec => []SessionInv
<1> USE ContractAssumption
<1>1. AssessmentInit => SessionInv
  BY DEF AssessmentInit, Init, SessionInv, Admissible, EvidenceIdsUnique
<1>2. SessionInv /\ [AssessmentNext]_allVars => SessionInv'
  <2> SUFFICES ASSUME SessionInv, [AssessmentNext]_allVars PROVE SessionInv'
    OBVIOUS
  <2>1. ASSUME UNCHANGED vars PROVE SessionInv'
    BY <2>1 DEF vars, SessionInv, Admissible, EvidenceIdsUnique
  <2>2. ASSUME admitted' = admitted, assurance' \in 0 .. Levels, unknowns' \in 0 .. MaxUnknowns
        PROVE  SessionInv'
    BY <2>2 DEF SessionInv, Admissible, EvidenceIdsUnique
  <2>3. CASE UseSession
    <3>1. Next
      BY <2>3 DEF UseSession
    <3> QED BY <3>1, <2>2, IngestKeeps
            DEF Next, SetAssuranceLevel, SetDeclaredUnknowns, SessionInv
  <2>4. CASE ReadTrace
    BY <2>1, <2>4 DEF ReadTrace
  <2>5. ASSUME NEW seal, NEW claimed_level, NEW level \in 0 .. Levels, NEW conforms, NEW list,
               OpenSession(seal, claimed_level, level, conforms, list)
        PROVE  SessionInv'
    BY <2>2, <2>5 DEF OpenSession, SessionInv
  <2>6. ASSUME NEW r \in Results, TakeResult(r) PROVE SessionInv'
    BY <2>1, <2>6, IngestKeeps DEF TakeResult
  <2>7. ASSUME NEW c \in Claims, Conclude(c) PROVE SessionInv'
    BY <2>1, <2>7 DEF Conclude
  <2>8. CASE UNCHANGED allVars
    BY <2>1, <2>8 DEF allVars
  <2> QED BY <2>3, <2>4, <2>5, <2>6, <2>7, <2>8 DEF AssessmentNext
<1> QED BY <1>1, <1>2, PTL DEF AssessmentSpec

\* The state of a session has its type.
THEOREM TypeCorrect == Spec => []TypeOK
<1> USE ContractAssumption
<1>1. Init => TypeOK
  BY DEF Init, TypeOK
<1>2. TypeOK /\ [Next]_vars => TypeOK'
  BY DEF TypeOK, Next, vars, IngestEvidence, SetAssuranceLevel, SetDeclaredUnknowns
<1> QED BY <1>1, <1>2, PTL DEF Spec

\* ProofKernel::ingest_evidence admits no evidence id twice.
THEOREM IdsUnique == AssessmentSpec => []EvidenceIdsUnique
<1>1. SessionInv => EvidenceIdsUnique
  BY DEF SessionInv
<1> QED BY <1>1, SessionInvariant, PTL

\* An admitted record that supports o comes from a validator that vouches
\* for it and that the capsule declares independent.
LEMMA SupportVouches ==
    ASSUME SessionInv, NEW o \in Obligations, NEW e \in For(o), e.result = "true"
    PROVE  /\ e.validator \in Vouchers(o)
           /\ Supports(e) => Class[e.validator] # Executor
<1> USE ContractAssumption
<1>1. e \in admitted /\ e.obligation = o
  BY DEF For
<1>2. e.validator \in Bound[o] /\ e.class = Class[e.validator] /\ e.contract = Contract
  BY <1>1 DEF SessionInv, Admissible
<1>3. e.validator \in Vouchers(o)
  BY <1>1, <1>2 DEF Vouchers
<1> QED BY <1>2, <1>3 DEF Supports, Independent, Executor

\* Accepted work is vouched for by the validators the capsule declares,
\* whatever the evidence claims of itself.
THEOREM AcceptedVouched == AssessmentSpec => []AcceptedMeansVouched
<1> USE ContractAssumption
<1>1. SessionInv => AcceptedMeansVouched
  <2> SUFFICES ASSUME SessionInv, Decision = "accepted" PROVE AcceptedMeansVouched
    BY DEF AcceptedMeansVouched
  <2>1. Reasons = {}
    BY DEF Decision
  <2>2. Mandatory # {} /\ ~ (unknowns > 0) /\ ~ (assurance < MinimumLevel)
    BY <2>1 DEF Reasons
  <2>3. unknowns = 0 /\ assurance >= MinimumLevel
    BY <2>2 DEF SessionInv
  <2>4. ASSUME NEW o \in Mandatory PROVE StateFor(o) = "satisfied"
    BY <2>1 DEF Reasons
  <2>5. ASSUME NEW o \in Mandatory
        PROVE  /\ Vouchers(o) # {} /\ ~ Has(o, "false")
               /\ Required[o] = Independent =>
                      {v \in Vouchers(o) : Class[v] # Executor} # {}
               /\ Required[o] = Diverse =>
                      \E v, w \in {u \in Vouchers(o) : Class[u] # Executor} : v # w
    <3>1. ~ Has(o, "false") /\ Satisfied(o)
      BY <2>4 DEF StateFor
    <3>2. o \in Obligations /\ Required[o] \in {Executor, Independent, Diverse}
      BY DEF Classes, Executor, Independent, Diverse
    <3>3. CASE Required[o] = Executor
      <4>1. PICK e \in For(o) : e.result = "true"
        BY <3>1, <3>3 DEF Satisfied, Has, Executor, Independent, Diverse
      <4> QED BY <3>1, <3>2, <3>3, <4>1, SupportVouches DEF Executor, Independent, Diverse
    <3>4. CASE Required[o] = Independent
      <4>1. PICK e \in For(o) : Supports(e)
        BY <3>1, <3>4 DEF Satisfied, Executor, Independent, Diverse
      <4>2. e.result = "true"
        BY <4>1 DEF Supports
      <4> QED BY <3>1, <3>2, <3>4, <4>1, <4>2, SupportVouches DEF Independent, Diverse
    <3>5. CASE Required[o] = Diverse
      <4>1. PICK e \in For(o), f \in For(o) :
                Supports(e) /\ Supports(f) /\ e.validator # f.validator
        BY <3>1, <3>5 DEF Satisfied, Executor, Independent, Diverse
      <4>2. e.result = "true" /\ f.result = "true"
        BY <4>1 DEF Supports
      <4>3. /\ e.validator \in Vouchers(o) /\ Class[e.validator] # Executor
            /\ f.validator \in Vouchers(o) /\ Class[f.validator] # Executor
        BY <3>2, <4>1, <4>2, SupportVouches
      <4> QED BY <3>1, <3>5, <4>1, <4>3 DEF Independent, Diverse
    <3> QED BY <3>2, <3>3, <3>4, <3>5
  <2> QED BY <2>2, <2>3, <2>5 DEF AcceptedMeansVouched
<1> QED BY <1>1, SessionInvariant, PTL

\* A false finding on a mandatory obligation is never taken back: rejected
\* work stays rejected.
THEOREM RejectionsFinal == AssessmentSpec => RejectionFinal
<1>1. [AssessmentNext]_allVars => admitted \subseteq admitted'
  BY DEF AssessmentNext, allVars, vars, UseSession, ReadTrace, OpenSession, TakeResult, Conclude,
         Next, IngestEvidence, SetAssuranceLevel, SetDeclaredUnknowns
<1>2. \A o : StateFor(o) \in {"failed", "invalidated"} <=> Has(o, "false")
  BY DEF StateFor, Has
<1>3. (\A o : StateFor(o) \in {"failed", "invalidated"} <=> Has(o, "false"))'
  BY DEF StateFor, Has
<1>4. [AssessmentNext]_allVars => [Decision = "rejected" => Decision' = "rejected"]_vars
  <2> SUFFICES ASSUME [AssessmentNext]_allVars, Decision = "rejected"
               PROVE  Decision' = "rejected"
    OBVIOUS
  <2>1. PICK o \in Mandatory : Has(o, "false")
    BY <1>2 DEF Decision
  <2>2. Has(o, "false")'
    BY <1>1, <2>1 DEF Has, For
  <2>3. \E p \in Mandatory : StateFor(p)' \in {"failed", "invalidated"}
    BY <1>3, <2>2
  <2> QED BY <2>3 DEF Decision
<1> QED BY <1>4, PTL DEF AssessmentSpec, RejectionFinal

-----------------------------------------------------------------------------
(* The assessment of a bundle *)

\* A result that was taken: the bundle's artifacts carry it, a bound validator gave it.
Tied(r) ==
    /\ r \in Results /\ r.obligation \in Obligations
    /\ r.validator \in Bound[r.obligation] /\ r.class = Class[r.validator]
    /\ \E i \in DOMAIN artifacts : artifacts[i].id = r.subject
    /\ \A a \in r.evidence : \E i \in DOMAIN artifacts :
          artifacts[i] = [id |-> a, role |-> "evidence"]

BundleInv ==
    /\ phase = "bundle" => admitted = {} /\ results = {}
    /\ phase \in {"results", "assessed"} =>
          /\ Trace!conforms_to_authorized_plan
          /\ artifacts \in ArtifactLists
          /\ admitted = {RecordOf(r) : r \in results}
          /\ \A r \in results : Tied(r)
    /\ phase = "assessed" => /\ claimed.status = Decision
                             /\ claimed.passed = count_mandatory.passed

LEMMA EvidenceListed ==
    ASSUME artifacts \in ArtifactLists, NEW a, Listed(a), RoleOf(a) = "evidence"
    PROVE  \E i \in DOMAIN artifacts : artifacts[i] = [id |-> a, role |-> "evidence"]
<1>1. PICK i : i = CHOOSE j \in DOMAIN artifacts : artifacts[j].id = a
  OBVIOUS
<1>2. i \in DOMAIN artifacts /\ artifacts[i].id = a
  BY <1>1 DEF Listed
<1>3. artifacts[i].role = "evidence"
  BY <1>1 DEF RoleOf
<1> QED BY <1>2, <1>3, BundleAssumption

LEMMA ConformsKept ==
    ASSUME UNCHANGED traceVars
    PROVE  (Trace!conforms_to_authorized_plan)' <=> Trace!conforms_to_authorized_plan
  BY DEF traceVars, Trace!conforms_to_authorized_plan, Trace!FinalStatesOK, Trace!AllReceiptsUsed

LEMMA DecisionKept ==
    ASSUME UNCHANGED vars
    PROVE  Decision' = Decision /\ count_mandatory' = count_mandatory
  BY DEF vars, Decision, Reasons, StateFor, Satisfied, Has, For, Supports, count_mandatory, CountIn

LEMMA BundleStep == BundleInv /\ [AssessmentNext]_allVars => BundleInv'
<1> SUFFICES ASSUME BundleInv, [AssessmentNext]_allVars PROVE BundleInv'
  OBVIOUS
<1>1. CASE UNCHANGED allVars
  <2>1. UNCHANGED <<admitted, phase, artifacts, results, claimed>>
    BY <1>1 DEF allVars, vars, bundleVars
  <2>2. UNCHANGED traceVars /\ UNCHANGED vars
    BY <1>1 DEF allVars
  <2>3. (Trace!conforms_to_authorized_plan)' <=> Trace!conforms_to_authorized_plan
    BY <2>2, ConformsKept
  <2>4. Decision' = Decision /\ count_mandatory' = count_mandatory
    BY <2>2, DecisionKept
  <2>5. \A r : Tied(r)' <=> Tied(r)
    BY <2>1 DEF Tied
  <2> QED BY <2>1, <2>3, <2>4, <2>5 DEF BundleInv
<1>2. CASE UseSession
  BY <1>2 DEF UseSession, BundleInv
<1>3. CASE ReadTrace
  BY <1>3 DEF ReadTrace, BundleInv, vars, bundleVars
<1>4. ASSUME NEW seal \in Seals, NEW claimed_level \in 0 .. Levels, NEW level \in 0 .. Levels,
             NEW conforms \in BOOLEAN, NEW list \in ArtifactLists,
             OpenSession(seal, claimed_level, level, conforms, list)
      PROVE  BundleInv'
  <2>1. /\ phase = "bundle" /\ UNCHANGED <<admitted, results>> /\ UNCHANGED traceVars
        /\ phase' \in {"results", "refused"}
        /\ phase' = "results" => artifacts' = list /\ Trace!conforms_to_authorized_plan
    BY <1>4 DEF OpenSession, EnvelopeOK
  <2>2. phase' = "results" => (Trace!conforms_to_authorized_plan)'
    BY <2>1, ConformsKept
  <2>3. admitted' = {} /\ results' = {}
    BY <2>1 DEF BundleInv
  <2> QED BY <2>1, <2>2, <2>3 DEF BundleInv
<1>5. ASSUME NEW r \in Results, TakeResult(r) PROVE BundleInv'
  <2>1. CASE phase' = "refused"
    BY <2>1 DEF BundleInv
  <2>2. CASE phase' # "refused"
    <3>1. /\ phase = "results" /\ phase' = "results" /\ UNCHANGED traceVars /\ UNCHANGED artifacts
          /\ ResultOK(r) /\ BindingAdmits(RecordOf(r))
          /\ admitted' = admitted \cup {RecordOf(r)} /\ results' = results \cup {r}
      BY <1>5, <2>2 DEF TakeResult, IngestEvidence
    <3>2. (Trace!conforms_to_authorized_plan)'
      BY <3>1, ConformsKept DEF BundleInv
    <3>3. Tied(r)
      BY <3>1, EvidenceListed DEF BundleInv, Tied, ResultOK, Listed, BindingAdmits, RecordOf
    <3>4. \A q \in results' : Tied(q)
      BY <3>1, <3>3 DEF BundleInv
    <3>5. \A q \in results' : Tied(q)'
      BY <3>1, <3>4 DEF Tied
    <3>6. admitted' = {RecordOf(q) : q \in results'}
      BY <3>1 DEF BundleInv
    <3> QED BY <3>1, <3>2, <3>5, <3>6 DEF BundleInv
  <2> QED BY <2>1, <2>2
<1>6. ASSUME NEW c \in Claims, Conclude(c) PROVE BundleInv'
  <2>1. CASE phase' = "refused"
    BY <2>1 DEF BundleInv
  <2>2. CASE phase' # "refused"
    <3>1. /\ phase = "results" /\ phase' = "assessed" /\ claimed' = c
          /\ c.status = Decision /\ c.passed = count_mandatory.passed
      BY <1>6, <2>2 DEF Conclude, validate_claimed_decision, count_mandatory
    <3>2. UNCHANGED <<artifacts, results>> /\ UNCHANGED vars /\ UNCHANGED traceVars
      BY <1>6 DEF Conclude
    <3>3. Decision' = Decision /\ count_mandatory' = count_mandatory
      BY <3>2, DecisionKept
    <3>4. (Trace!conforms_to_authorized_plan)'
      BY <3>1, <3>2, ConformsKept DEF BundleInv
    <3> QED BY <3>1, <3>2, <3>3, <3>4 DEF BundleInv, Tied, vars
  <2> QED BY <2>1, <2>2
<1> QED BY <1>1, <1>2, <1>3, <1>4, <1>5, <1>6 DEF AssessmentNext

\* The evidence an accepted decision rests on was taken in with the bundle's results.
LEMMA AcceptedProved ==
    ASSUME TraceInv, BundleInv
    PROVE  AcceptedBundleIsProved
<1> SUFFICES ASSUME phase = "assessed", claimed.status = "accepted" PROVE AcceptedBundleIsProved
  BY DEF AcceptedBundleIsProved
<1>1. /\ Trace!EventsBelong /\ Trace!ReceiptsMatchSteps
      /\ \A s \in DOMAIN Steps : Trace!Ran(s) \/ Trace!LeftOut(s)
  BY VerdictFollows DEF BundleInv, TraceVerdictExact, Trace!VerdictExact
<1>2. Decision = "accepted" /\ claimed.passed = count_mandatory.passed
      /\ admitted = {RecordOf(r) : r \in results} /\ \A r \in results : Tied(r)
  BY DEF BundleInv
<1>3. \A o \in Mandatory : StateFor(o) = "satisfied"
  BY <1>2 DEF Decision, Reasons
<1>4. \A o \in Mandatory : Has(o, "true") /\ ~ Has(o, "false")
  <2> SUFFICES ASSUME NEW o \in Mandatory PROVE Has(o, "true") /\ ~ Has(o, "false")
    OBVIOUS
  <2>1. Satisfied(o) /\ ~ Has(o, "false")
    BY <1>3 DEF StateFor
  <2>2. o \in Obligations /\ Required[o] \in {Executor, Independent, Diverse}
    BY ContractAssumption DEF Classes, Executor, Independent, Diverse
  <2>3. Satisfied(o) => Has(o, "true")
    BY <2>2 DEF Satisfied, Has, Supports, Executor, Independent, Diverse
  <2> QED BY <2>1, <2>3
<1>5. \A r \in results : /\ RecordOf(r).obligation = r.obligation
                         /\ RecordOf(r).result = truth_value(r.status)
                         /\ r.status \in {"passed", "failed", "unknown"}
  BY <1>2, BundleAssumption DEF RecordOf, Tied
<1>6. \A r \in results : /\ RecordOf(r).result = "true" => r.status = "passed"
                         /\ r.status = "failed" => RecordOf(r).result = "false"
  BY <1>5 DEF truth_value
<1>7. ASSUME NEW o \in Mandatory
      PROVE  /\ \E r \in results : r.obligation = o /\ r.status = "passed"
             /\ \A r \in results : r.obligation = o => r.status # "failed"
  <2>1. PICK e \in admitted : e.obligation = o /\ e.result = "true"
    BY <1>4 DEF Has, For
  <2>2. PICK r \in results : e = RecordOf(r)
    BY <1>2
  <2>3. r.obligation = o /\ r.status = "passed"
    BY <1>5, <1>6, <2>1, <2>2
  <2>4. \A q \in results : q.obligation = o => RecordOf(q).result # "false"
    BY <1>2, <1>4, <1>5 DEF Has, For
  <2> QED BY <1>6, <2>3, <2>4
<1>8. claimed.passed = Cardinality(Mandatory)
  <2>1. {o \in Mandatory : StateFor(o) \in {"satisfied"}} = Mandatory
    BY <1>3
  <2> QED BY <1>2, <2>1 DEF count_mandatory, CountIn
<1>9. \A r \in results :
         /\ r.validator \in Bound[r.obligation] /\ r.class = Class[r.validator]
         /\ \E i \in DOMAIN artifacts : artifacts[i].id = r.subject
         /\ \A a \in r.evidence : \E i \in DOMAIN artifacts :
               artifacts[i] = [id |-> a, role |-> "evidence"]
  BY <1>2 DEF Tied
<1> QED BY <1>1, <1>7, <1>8, <1>9 DEF AcceptedBundleIsProved

\* A bundle assess_bundle finds accepted was carried out as planned and is proved:
\* whatever bundle is presented, each mandatory obligation was found true by bound
\* validators in results that are tied to the bundle's own artifacts.
THEOREM AcceptedAlwaysProved == AssessmentSpec => []AcceptedBundleIsProved
<1>1. AssessmentInit => TraceInv /\ BundleInv
  BY TraceInit DEF AssessmentInit, Init, BundleInv
<1>2. TraceInv /\ BundleInv /\ [AssessmentNext]_allVars => (TraceInv /\ BundleInv)'
  BY TraceStep, BundleStep
<1> QED BY <1>1, <1>2, AcceptedProved, PTL DEF AssessmentSpec
=============================================================================
