-------------------------- MODULE Blueprint_proofs --------------------------
(***************************************************************************)
(* What Blueprint promises for every number of contents, edits, instances, *)
(* applies waiting and running, faults and changes by people: its types,   *)
(* that Synced is said only of a content an apply succeeded with, and that *)
(* a CR does not collide with the instance it made itself.                 *)
(***************************************************************************)
EXTENDS Blueprint, SequenceTheorems, TLAPS

\* What is retrieved or patched is an instance that was recorded.
WorkAddressed == pc \in {"retrieve", "patch"} => loc.id # None

Typed == TypeOK /\ WorkAddressed

-----------------------------------------------------------------------------
(* The values the state is built from.                                     *)

LEMMA SomeSpec == Spec0 \in Specs /\ Spec0.content \in Contents
  BY ValuesAssumption DEF Spec0

LEMMA SpecFields ==
  ASSUME NEW s \in Specs
  PROVE  s.content \in Contents /\ s.context \in Contexts \cup {None} /\ s.enabled \in BOOLEAN
  BY ValuesAssumption

LEMMA BlankTypes == Blank \in Version /\ NoWork \in Work /\ NoInstance \in Instance
  BY SomeSpec DEF Blank, NoWork, NoInstance, Version, Work, Instance, Outcomes, Statuses, Fields

LEMMA UidsAreNumbers == Uids \subseteq Nat /\ None \notin Uids
  BY ValuesAssumption, BoundsAssumption DEF Uids

\* A CR written to with a version stays of its type.
LEMMA WriteType ==
  ASSUME TypeOK, NEW v \in Version, Write(v)
  PROVE  api' \in Version /\ pending' \in Seq(Version)
  BY DEF TypeOK, Write

LEMMA OutcomeType ==
  ASSUME NEW w \in Work, NEW outcome \in Outcomes
  PROVE  [w EXCEPT !.outcome = outcome] \in Work
  BY DEF Work

LEMMA OutType ==
  ASSUME NEW w \in Work, NEW u \in Uids
  PROVE  [w EXCEPT !.out = u] \in Work
  BY DEF Work

\* A write of the instance known leads to its state, or ends there.
LEMMA WrittenType ==
  ASSUME TypeOK, NEW u \in Uids, Written(u)
  PROVE  /\ loc' \in Work /\ pc' \in {"state", "publish"} /\ loc'.out = u
  <1>1. [loc EXCEPT !.out = u] \in Work
    BY OutType DEF TypeOK
  <1>2. [[loc EXCEPT !.out = u] EXCEPT !.outcome = "synced"] \in Work
    BY <1>1, OutcomeType DEF Outcomes
  <1>3. loc' \in {[loc EXCEPT !.out = u], [[loc EXCEPT !.out = u] EXCEPT !.outcome = "synced"]}
    BY DEF Written, Goto, Ends
  <1>4. \A w \in Work : [w EXCEPT !.outcome = "synced"].out = w.out
    BY DEF Work
  <1>5. loc \in Work /\ [loc EXCEPT !.out = u].out = u
    BY DEF TypeOK, Work
  <1>6. loc'.out = u
    BY <1>1, <1>3, <1>4, <1>5
  <1>7. QED BY <1>1, <1>2, <1>3, <1>6 DEF Written, Goto, Ends

LEMMA EndsType ==
  ASSUME NEW outcome \in Outcomes, NEW w \in Work, Ends(outcome, w)
  PROVE  loc' \in Work /\ pc' = "publish"
  BY OutcomeType DEF Ends, Goto

\* The instance a PATCH or a create leaves.
LEMMA PatchedType == TypeOK => Patched \in Instance /\ Patched.uid = inst.uid
  <1> SUFFICES ASSUME TypeOK PROVE Patched \in Instance /\ Patched.uid = inst.uid
    OBVIOUS
  <1>1. inst \in Instance /\ loc.spec \in Specs
    BY DEF TypeOK, Work
  <1>2. /\ inst.content \in Contents /\ inst.context \in Contexts \cup {None}
        /\ inst.enabled \in BOOLEAN
    BY <1>1 DEF Instance
  <1>3. PICK x \in Contents :
           x = IF "content" \in loc.drift THEN loc.spec.content ELSE inst.content
    BY <1>1, <1>2, SpecFields
  <1>4. PICK y \in Contexts \cup {None} :
           y = IF "context" \in loc.drift THEN loc.spec.context ELSE inst.context
    BY <1>1, <1>2, SpecFields
  <1>5. PICK e \in BOOLEAN :
           e = IF "enabled" \in loc.drift THEN loc.spec.enabled ELSE inst.enabled
    BY <1>1, <1>2, SpecFields, Zenon
  <1>6. Patched = [inst EXCEPT !.content = x, !.context = y, !.enabled = e]
    BY <1>3, <1>4, <1>5 DEF Patched
  <1>7. ASSUME NEW i \in Instance
        PROVE  /\ [i EXCEPT !.content = x, !.context = y, !.enabled = e] \in Instance
               /\ [i EXCEPT !.content = x, !.context = y, !.enabled = e].uid = i.uid
    BY DEF Instance
  <1>8. QED BY <1>1, <1>6, <1>7

LEMMA CreatedType ==
  ASSUME TypeOK, made < MaxUid
  PROVE  /\ Created \in Instance /\ Created.uid = made + 1
         /\ made + 1 \in Uids /\ made + 1 \in 0..MaxUid
  <1>1. made + 1 \in Uids /\ made + 1 \in 0..MaxUid
    BY BoundsAssumption DEF TypeOK, Uids
  <1>2. loc.spec \in Specs
    BY DEF TypeOK, Work
  <1>3. Created \in Instance /\ Created.uid = made + 1
    BY <1>1, <1>2, SpecFields DEF Created, NoInstance, Instance, Statuses
  <1>4. QED BY <1>1, <1>3

\* What runs is for an instance that was made.
LEMMA RunningType ==
  ASSUME TypeOK, NEW n \in DOMAIN running
  PROVE  /\ running[n] \in Tasks /\ running[n].content \in Contents
         /\ running[n].uid <= made /\ running[n].uid <= made + 1
  <1>1. running \in Seq(Tasks) /\ n \in 1..Len(running) /\ running[n].uid <= made
    BY DEF TypeOK
  <1>2. running[n] \in Tasks
    BY <1>1, ElementOfSeq
  <1>3. \A t \in Tasks : t.uid \in Nat /\ t.content \in Contents
    BY UidsAreNumbers DEF Tasks
  <1>4. made \in Nat
    BY BoundsAssumption DEF TypeOK
  <1>5. QED BY <1>1, <1>2, <1>3, <1>4

\* The worker's queue without one of its applies.
LEMMA WithoutType ==
  ASSUME TypeOK, NEW n \in DOMAIN running
  PROVE  /\ Without(n) \in Seq(Tasks) /\ Len(Without(n)) <= MaxRunning
         /\ \A k \in DOMAIN Without(n) : \E m \in DOMAIN running : Without(n)[k] = running[m]
  <1> DEFINE L == Len(running)
  <1>1. /\ running \in Seq(Tasks) /\ DOMAIN running = 1..L /\ L <= MaxRunning
        /\ L \in Nat /\ n \in Nat /\ 1 <= n /\ n <= L
    BY DEF TypeOK
  <1>2. PICK front : front = SubSeq(running, 1, n - 1)
    OBVIOUS
  <1>3. PICK back : back = SubSeq(running, n + 1, L)
    OBVIOUS
  <1>4. front \in Seq(Tasks) /\ Len(front) = n - 1 /\ \A k \in 1..(n - 1) : front[k] = running[k]
    BY <1>1, <1>2
  <1>5. /\ back \in Seq(Tasks) /\ Len(back) = L - n
        /\ \A k \in 1..(L - n) : back[k] = running[n + k]
    BY <1>1, <1>3
  <1>6. Without(n) = front \o back
    BY <1>2, <1>3, Zenon DEF Without
  <1> HIDE DEF L
  <1>7. front \o back \in Seq(Tasks) /\ Len(front \o back) = L - 1
    <2>1. front \o back \in Seq(Tasks) /\ Len(front \o back) = Len(front) + Len(back)
      BY <1>4, <1>5
    <2>2. (n - 1) + (L - n) = L - 1
      BY <1>1
    <2>3. QED BY <1>4, <1>5, <2>1, <2>2
  <1>8. DOMAIN (front \o back) = 1..(L - 1) /\ L - 1 <= MaxRunning
    BY <1>1, <1>7, BoundsAssumption
  <1>9. ASSUME NEW k \in 1..(L - 1) PROVE \E m \in 1..L : (front \o back)[k] = running[m]
    <2>1. CASE k <= n - 1
      <3>1. (front \o back)[k] = running[k]
        BY <1>1, <1>4, <1>5, <2>1
      <3>2. QED BY <1>1, <3>1
    <2>2. CASE k > n - 1
      <3>1. k - (n - 1) \in 1..(L - n) /\ n + (k - (n - 1)) = k + 1 /\ k + 1 \in 1..L
        BY <1>1, <2>2
      <3>2. (front \o back)[k] = back[k - Len(front)]
        <4>1. k \in 1..(Len(front) + Len(back)) /\ k > Len(front)
          BY <1>1, <1>4, <1>5, <2>2
        <4>2. QED BY <1>4, <1>5, <4>1
      <3>3. (front \o back)[k] = running[k + 1]
        BY <1>4, <1>5, <3>1, <3>2
      <3>4. QED BY <3>1, <3>3
    <2>3. k <= n - 1 \/ k > n - 1
      BY <1>1
    <2>4. QED BY <2>1, <2>2, <2>3
  <1>10. QED BY <1>1, <1>6, <1>7, <1>8, <1>9

-----------------------------------------------------------------------------
(* Type correctness.                                                       *)

LEMMA InitTyped == Init => Typed
  <1> SUFFICES ASSUME Init PROVE Typed
    OBVIOUS
  <1>1. inst.uid = None
    BY DEF Init, NoInstance
  <1>2. asked \in [Uids -> 0..MaxAsked] /\ made \in 0..MaxUid
    BY BoundsAssumption DEF Init
  <1>3. /\ running \in Seq(Tasks) /\ Len(running) <= MaxRunning /\ DOMAIN running = {}
        /\ pending \in Seq(Version)
    BY BoundsAssumption DEF Init
  <1>4. edits \in 0..MaxEdits /\ faults \in 0..MaxFaults /\ human \in 0..MaxHuman
    BY BoundsAssumption DEF Init
  <1>5. /\ api \in Version /\ cache \in Version /\ loc \in Work /\ inst \in Instance
        /\ due \in BOOLEAN /\ pc = "idle" /\ done \subseteq Contents /\ resolvable \subseteq Contents
    BY BlankTypes DEF Init
  <1>6. TypeOK
    BY <1>1, <1>2, <1>3, <1>4, <1>5 DEF TypeOK, Steps
  <1>7. QED BY <1>5, <1>6 DEF Typed, WorkAddressed

\* The people who own the CR, and those who work in Authentik.
LEMMA PeopleTyped ==
  ASSUME Typed,
         \/ \E s \in Specs : UserCreates(s) \/ UserEdits(s)
         \/ UserDeletes \/ HumanDeletes
         \/ \E k \in Contents : \/ HumanCreates(k) \/ Resolves(k)
                                \/ \E x \in Contexts \cup {None}, on \in BOOLEAN : HumanEdits(k, x, on)
  PROVE  Typed'
  <1> USE DEF Typed, WorkAddressed
  <1>1. ASSUME NEW s \in Specs, UserCreates(s) PROVE Typed'
    <2>1. [Blank EXCEPT !.phase = "live", !.spec = s] \in Version
      BY BlankTypes DEF Version
    <2>2. QED BY <1>1, <2>1, WriteType DEF UserCreates, authentik, people, TypeOK
  <1>2. ASSUME NEW s \in Specs, UserEdits(s) PROVE Typed'
    <2>1. [api EXCEPT !.spec = s] \in Version
      BY DEF TypeOK, Version
    <2>2. edits' \in 0..MaxEdits
      BY <1>2, BoundsAssumption DEF UserEdits, TypeOK
    <2>3. QED BY <1>2, <2>1, <2>2, WriteType DEF UserEdits, authentik, TypeOK
  <1>3. ASSUME UserDeletes PROVE Typed'
    <2>1. [api EXCEPT !.phase = "deleting"] \in Version
      BY DEF TypeOK, Version
    <2>2. QED BY <1>3, <2>1, WriteType DEF UserDeletes, authentik, people, TypeOK
  <1>4. ASSUME Human PROVE human' \in 0..MaxHuman /\ UNCHANGED <<edits, faults>>
    BY <1>4, BoundsAssumption DEF Human, TypeOK
  <1>5. ASSUME HumanDeletes PROVE Typed'
    <2>1. inst' = NoInstance /\ inst'.uid = None
      BY <1>5 DEF HumanDeletes, NoInstance
    <2>2. QED BY <1>4, <1>5, <2>1, BlankTypes DEF HumanDeletes, TypeOK
  <1>6. ASSUME NEW k \in Contents, HumanCreates(k) PROVE Typed'
    <2>1. made + 1 \in Uids /\ made + 1 \in 0..MaxUid
      BY <1>6, CreatedType DEF HumanCreates
    <2> DEFINE i == [NoInstance EXCEPT !.uid = made + 1, !.content = k]
    <2>2. i \in Instance /\ i.uid = made + 1
      BY <2>1, BlankTypes DEF Instance
    <2>3. i.uid \in 1..(made + 1) \cup {None}
      BY <2>2, BoundsAssumption DEF TypeOK
    <2>4. \A n \in DOMAIN running : running[n].uid <= made + 1
      BY RunningType
    <2>5. inst' = i /\ made' = made + 1
      BY <1>6 DEF HumanCreates
    <2> HIDE DEF i
    <2>6. QED BY <1>4, <1>6, <2>1, <2>2, <2>3, <2>4, <2>5 DEF HumanCreates, TypeOK
  <1>7. ASSUME NEW k \in Contents, NEW x \in Contexts \cup {None}, NEW on \in BOOLEAN,
               HumanEdits(k, x, on)
        PROVE  Typed'
    <2>1. /\ [inst EXCEPT !.content = k, !.context = x, !.enabled = on] \in Instance
          /\ [inst EXCEPT !.content = k, !.context = x, !.enabled = on].uid = inst.uid
      BY DEF TypeOK, Instance
    <2>2. QED BY <1>4, <1>7, <2>1 DEF HumanEdits, TypeOK
  <1>8. ASSUME NEW k \in Contents, Resolves(k) PROVE Typed'
    BY <1>8 DEF Resolves, people, TypeOK
  <1>9. QED BY <1>1, <1>2, <1>3, <1>5, <1>6, <1>7, <1>8

\* Authentik's worker.
LEMMA WorkerTyped ==
  ASSUME Typed,
         \/ \E u \in Uids : WorkerTakes(u)
         \/ \E n \in 1..MaxRunning : WorkerSucceeds(n) \/ WorkerFails(n)
  PROVE  Typed'
  <1> USE DEF Typed, WorkAddressed
  <1>1. ASSUME NEW u \in Uids, WorkerTakes(u) PROVE Typed'
    <2>1. asked' \in [Uids -> 0..MaxAsked]
      BY <1>1, BoundsAssumption DEF WorkerTakes, TypeOK
    <2>2. running' \in Seq(Tasks) /\ Len(running') <= MaxRunning
          /\ \A n \in DOMAIN running' : running'[n].uid <= made
      <3>1. CASE running' = running
        BY <3>1 DEF TypeOK
      <3>2. CASE inst.uid = u /\ running' = Append(running, [uid |-> u, content |-> inst.content])
        <4>1. [uid |-> u, content |-> inst.content] \in Tasks
          BY DEF TypeOK, Instance, Tasks
        <4>2. u <= made
          BY <3>2, UidsAreNumbers, BoundsAssumption DEF TypeOK
        <4>3. Len(running) < MaxRunning
          BY <1>1 DEF WorkerTakes
        <4>4. /\ running' \in Seq(Tasks) /\ Len(running') = Len(running) + 1
              /\ running'[Len(running) + 1].uid = u
              /\ \A n \in 1..Len(running) : running'[n] = running[n]
          <5>1. PICK task \in Tasks : task = [uid |-> u, content |-> inst.content]
            BY <4>1
          <5>2. running' = Append(running, task) /\ task.uid = u
            BY <3>2, <5>1
          <5>3. QED BY <5>2, AppendProperties DEF TypeOK
        <4>5. ASSUME NEW n \in DOMAIN running' PROVE running'[n].uid <= made
          <5>1. running' \in Seq(Tasks) /\ n \in 1..(Len(running) + 1) /\ Len(running) \in Nat
            BY <4>4 DEF TypeOK
          <5>2. CASE n = Len(running) + 1
            BY <4>2, <4>4, <5>2
          <5>3. CASE n \in 1..Len(running)
            BY <4>4, <5>3, RunningType DEF TypeOK
          <5>4. QED BY <5>1, <5>2, <5>3
        <4>6. QED BY <4>3, <4>4, <4>5, BoundsAssumption DEF TypeOK
      <3>3. QED BY <1>1, <3>1, <3>2 DEF WorkerTakes
    <2>3. QED BY <1>1, <2>1, <2>2 DEF WorkerTakes, people, TypeOK
  <1>2. ASSUME NEW n \in DOMAIN running, running' = Without(n)
        PROVE  /\ running' \in Seq(Tasks) /\ Len(running') <= MaxRunning
               /\ \A k \in DOMAIN running' : running'[k].uid <= made
    BY <1>2, WithoutType DEF TypeOK
  <1>3. ASSUME NEW n \in DOMAIN running
        PROVE  running[n] \in Tasks /\ running[n].content \in Contents
    BY RunningType
  <1>4. ASSUME NEW n \in 1..MaxRunning, WorkerSucceeds(n) PROVE Typed'
    <2>1. n \in DOMAIN running /\ running' = Without(n)
      BY <1>4 DEF WorkerSucceeds
    <2>2. /\ [inst EXCEPT !.status = "successful", !.applied = running[n].content] \in Instance
          /\ [inst EXCEPT !.status = "successful", !.applied = running[n].content].uid = inst.uid
      BY <1>3, <2>1 DEF TypeOK, Instance, Statuses
    <2>3. inst' \in Instance /\ inst'.uid = inst.uid /\ done' \subseteq Contents
      BY <1>3, <1>4, <2>1, <2>2 DEF WorkerSucceeds, TypeOK
    <2>4. QED BY <1>2, <1>4, <2>1, <2>3 DEF WorkerSucceeds, people, TypeOK
  <1>5. ASSUME NEW n \in 1..MaxRunning, WorkerFails(n) PROVE Typed'
    <2>1. n \in DOMAIN running /\ running' = Without(n)
      BY <1>5 DEF WorkerFails
    <2>i. ASSUME NEW i \in Instance
          PROVE  /\ [i EXCEPT !.status = "failed"] \in Instance
                 /\ [i EXCEPT !.status = "failed"].uid = i.uid
      BY DEF Instance, Statuses
    <2>2. /\ [inst EXCEPT !.status = "failed"] \in Instance
          /\ [inst EXCEPT !.status = "failed"].uid = inst.uid
      BY <2>i DEF TypeOK
    <2>3. faults > 0 /\ faults' = faults - 1 /\ UNCHANGED <<edits, human>>
      BY <1>5 DEF WorkerFails, Fault
    <2>4. faults \in 0..MaxFaults
      BY DEF TypeOK
    <2>5. faults' \in 0..MaxFaults
      BY <2>3, <2>4, BoundsAssumption
    <2>6. QED BY <1>2, <1>5, <2>1, <2>2, <2>3, <2>5 DEF WorkerFails, TypeOK
  <1>6. QED BY <1>1, <1>4, <1>5

\* The operator's reconcile.
LEMMA ReconcileTyped ==
  ASSUME Typed, Deliver \/ StartStep \/ WorkStep
  PROVE  Typed'
  <1> USE DEF Typed, WorkAddressed
  <1>1. loc \in Work /\ api \in Version /\ cache \in Version /\ inst \in Instance
    BY DEF TypeOK
  <1>2. CASE Deliver
    <2>1. Head(pending) \in Version /\ Tail(pending) \in Seq(Version)
      BY <1>2 DEF Deliver, TypeOK
    <2>2. due' \in BOOLEAN
      BY <1>2 DEF Deliver, Present
    <2>3. QED BY <1>2, <2>1, <2>2 DEF Deliver, authentik, people, TypeOK
  <1>3. CASE Fetch
    <2>1. [NoWork EXCEPT !.spec = cache.spec, !.id = api.id] \in Work
      BY <1>1, BlankTypes DEF Work, Version
    <2>2. [NoWork EXCEPT !.spec = cache.spec, !.id = api.id].id = api.id
      BY DEF NoWork
    <2>3. QED BY <1>3, <2>1, <2>2 DEF Fetch, Goto, authentik, people, TypeOK, Steps
  <1>4. CASE Cleanup
    <2>1. [NoWork EXCEPT !.id = cache.id] \in Work
      BY <1>1, BlankTypes DEF Work, Version
    <2>2. QED BY <1>4, <2>1 DEF Cleanup, Goto, authentik, people, TypeOK, Steps
  <1>5. CASE Retrieve
    <2>1. loc.id \in Uids
      BY <1>1, <1>5 DEF Retrieve, Work
    <2>2. [loc EXCEPT !.drift = Drift(loc.spec)] \in Work
      BY <1>1 DEF Work, Drift
    <2>3. [loc EXCEPT !.drift = Drift(loc.spec)].id = loc.id
      BY <1>1 DEF Work
    <2>4. loc' \in Work /\ pc' \in Steps /\ (pc' \in {"state", "ask"} => loc'.out # None)
      BY <1>1, <1>5, <2>1, <2>2, WrittenType, UidsAreNumbers DEF Retrieve, Goto, Steps
    <2>5. pc' \in {"retrieve", "patch"} => loc'.id # None
      BY <1>5, <2>1, <2>3, WrittenType, UidsAreNumbers DEF Retrieve, Goto
    <2>6. QED BY <1>5, <2>4, <2>5 DEF Retrieve, authentik, people, TypeOK
  <1>6. CASE Patch
    <2>1. loc.id \in Uids
      BY <1>1, <1>6 DEF Patch, Work
    <2>2. /\ loc' \in Work /\ pc' \in Steps \ {"retrieve", "patch"}
          /\ pc' \in {"state", "ask"} => loc'.out # None
      BY <1>1, <1>6, <2>1, WrittenType, EndsType, UidsAreNumbers
      DEF Patch, Goto, Steps, Outcomes
    <2>3. inst' \in Instance /\ inst'.uid = inst.uid
      BY <1>1, <1>6, PatchedType DEF Patch
    <2>4. QED BY <1>6, <2>2, <2>3 DEF Patch, people, TypeOK
  <1>7. CASE Create
    <2>1. CASE UNCHANGED <<inst, made>> /\ (Ends("invalid", loc) \/ Ends("exists", loc))
      <3>1. loc' \in Work /\ pc' = "publish"
        BY <1>1, <2>1, EndsType DEF Outcomes
      <3>2. QED BY <1>7, <2>1, <3>1 DEF Create, people, TypeOK, Steps
    <2>2. CASE made < MaxUid /\ inst' = Created /\ made' = made + 1 /\ Written(made + 1)
      <3>1. /\ loc' \in Work /\ pc' \in {"state", "publish"} /\ loc'.out = made + 1
        BY <2>2, CreatedType, WrittenType
      <3>2. made + 1 # None /\ made + 1 \in 0..MaxUid
        BY <2>2, CreatedType, UidsAreNumbers
      <3>3. \A n \in DOMAIN running : running[n].uid <= made + 1
        BY RunningType
      <3>4. inst' \in Instance /\ inst'.uid \in 1..made' \cup {None}
        BY <2>2, CreatedType, BoundsAssumption DEF TypeOK
      <3>5. QED BY <1>7, <2>2, <3>1, <3>2, <3>3, <3>4 DEF Create, people, TypeOK, Steps
    <2>3. QED BY <1>7, <2>1, <2>2 DEF Create
  <1>8. CASE GetState
    <2>1. [loc EXCEPT !.status = inst.status] \in Work
      BY <1>1 DEF Work, Instance
    <2>2. [loc EXCEPT !.status = inst.status].out = loc.out
      BY <1>1 DEF Work
    <2>3. loc' \in Work /\ pc' \in {"publish", "ask"} /\ (pc' = "ask" => loc'.out = loc.out)
      BY <1>1, <1>8, <2>1, <2>2, EndsType DEF GetState, Goto, Outcomes
    <2>4. QED BY <1>8, <2>3 DEF GetState, authentik, people, TypeOK, Steps
  <1>9. CASE AskApply
    <2>1. loc' \in Work /\ pc' = "publish"
      BY <1>1, <1>9, EndsType DEF AskApply, Outcomes
    <2>2. asked' \in [Uids -> 0..MaxAsked]
      BY <1>9, BoundsAssumption DEF AskApply, TypeOK, Capped
    <2>3. QED BY <1>9, <2>1, <2>2 DEF AskApply, people, TypeOK, Steps
  <1>10. CASE Publish
    <2> DEFINE v == [api EXCEPT !.id = RecordedId, !.ready = loc.outcome]
    <2>1. v \in Version
      BY <1>1 DEF Version, Work, RecordedId
    <2>2. api' \in Version /\ pending' \in Seq(Version)
      BY <1>10, <2>1, WriteType DEF Publish, TypeOK
    <2>3. QED BY <1>10, <2>2, BlankTypes
          DEF Publish, Requeued, Goto, authentik, people, TypeOK, Steps
  <1>11. CASE DeleteInstance
    <2>1. inst' \in Instance /\ inst'.uid \in {inst.uid, None}
      BY <1>1, <1>11, BlankTypes DEF DeleteInstance, NoInstance
    <2>2. QED BY <1>11, <2>1 DEF DeleteInstance, Goto, people, TypeOK, Steps
  <1>12. CASE RemoveFinalizer
    <2>1. [api EXCEPT !.phase = "gone"] \in Version
      BY <1>1 DEF Version
    <2>2. api' \in Version /\ pending' \in Seq(Version)
      BY <1>12, <2>1, WriteType DEF RemoveFinalizer, TypeOK
    <2>3. QED BY <1>12, <2>2, BlankTypes
          DEF RemoveFinalizer, Goto, authentik, people, TypeOK, Steps
  <1>13. QED
    BY <1>2, <1>3, <1>4, <1>5, <1>6, <1>7, <1>8, <1>9, <1>10, <1>11, <1>12
    DEF StartStep, WorkStep

\* The faults.
LEMMA FaultTyped ==
  ASSUME Typed, CallFails \/ ReplyLost \/ Crash
  PROVE  Typed'
  <1> USE DEF Typed, WorkAddressed
  <1>1. loc \in Work /\ inst \in Instance
    BY DEF TypeOK
  <1>2. faults' \in 0..MaxFaults /\ UNCHANGED <<edits, human>>
    BY BoundsAssumption DEF CallFails, ReplyLost, Crash, Fault, TypeOK
  <1>3. CASE CallFails
    <2>1. loc' \in Work /\ pc' \in {"publish", "idle"}
      BY <1>1, <1>3, EndsType, BlankTypes DEF CallFails, Goto, Outcomes
    <2>2. QED BY <1>2, <1>3, <2>1 DEF CallFails, authentik, TypeOK, Steps
  <1>4. CASE ReplyLost
    <2>1. loc' \in Work /\ pc' = "publish"
      BY <1>1, <1>4, EndsType DEF ReplyLost, Outcomes
    <2>2. asked' \in [Uids -> 0..MaxAsked]
      BY <1>4, BoundsAssumption DEF ReplyLost, TypeOK, Capped
    <2>3. CASE UNCHANGED made /\ inst' \in {inst, Patched}
      <3>1. inst' \in Instance /\ inst'.uid = inst.uid
        BY <1>1, <2>3, PatchedType
      <3>2. QED BY <1>2, <1>4, <2>1, <2>2, <2>3, <3>1 DEF ReplyLost, TypeOK, Steps
    <2>4. CASE made < MaxUid /\ inst' = Created /\ made' = made + 1
      <3>1. made + 1 \in 0..MaxUid
        BY <2>4, CreatedType
      <3>2. \A n \in DOMAIN running : running[n].uid <= made + 1
        BY RunningType
      <3>3. inst' \in Instance /\ inst'.uid \in 1..made' \cup {None}
        BY <2>4, CreatedType, BoundsAssumption DEF TypeOK
      <3>4. QED BY <1>2, <1>4, <2>1, <2>2, <2>4, <3>1, <3>2, <3>3 DEF ReplyLost, TypeOK, Steps
    <2>5. QED BY <1>4, <2>3, <2>4 DEF ReplyLost
  <1>5. CASE Crash
    <2>1. due' \in BOOLEAN
      BY <1>5 DEF Crash, Present
    <2>2. QED BY <1>2, <1>5, <2>1, BlankTypes DEF Crash, Goto, authentik, TypeOK, Steps
  <1>6. QED BY <1>3, <1>4, <1>5

LEMMA NextTyped == Typed /\ [Next]_vars => Typed'
  <1> SUFFICES ASSUME Typed, [Next]_vars PROVE Typed'
    OBVIOUS
  <1>1. CASE UNCHANGED vars
    BY <1>1 DEF vars, authentik, people, Typed, TypeOK, WorkAddressed
  <1>2. CASE Next
    BY <1>2, PeopleTyped, WorkerTyped, ReconcileTyped, FaultTyped DEF Next
  <1>3. QED BY <1>1, <1>2

\* Every variable keeps to its values: an apply is asked for and runs only for an
\* instance that was made, and a state is only looked up of one that is known.
THEOREM TypeCorrect == Spec => []TypeOK
  BY InitTyped, NextTyped, PTL DEF Spec, Typed

-----------------------------------------------------------------------------
(* A CR does not collide with the instance it made.                        *)

Reading == {"retrieve", "patch", "create"}
Busy == Reading \cup {"state", "ask", "publish"}

\* Why: what the reconcile looks for is what is recorded, as only Publish changes it; and
\* without a failure the CR's own instance is always the one that is recorded, or the one
\* the reconcile is about to record.
OwnKnown ==
    /\ pc \in Busy => Present(api)
    /\ pc \in Reading => loc.id = api.id
    /\ pc \notin {"state", "ask", "publish"} => loc.out = None
    /\ api.phase = "absent" => api.id = None
    /\ inst.mine => inst.uid # None
    /\ faults = MaxFaults => /\ inst.mine => inst.uid = RecordedId
                             /\ pc = "create" => ~inst.mine

Own == OwnKnown /\ NoSelfCollision

LEMMA InitOwn == Init => Own
  BY DEF Init, Own, OwnKnown, NoSelfCollision, Blank, NoWork, NoInstance, Busy, Reading,
         Present, RecordedId

\* A failure leaves less than the budget of them, for good.
LEMMA FaultSpends == TypeOK /\ Fault => faults' # MaxFaults
  BY BoundsAssumption DEF TypeOK, Fault

LEMMA NextOwn == TypeOK /\ Own /\ [Next]_vars => Own'
  <1> SUFFICES ASSUME TypeOK, Own, [Next]_vars PROVE Own'
    OBVIOUS
  <1> USE DEF Own, OwnKnown, NoSelfCollision, Busy, Reading, RecordedId
  <1>1. loc \in Work /\ api \in Version /\ inst \in Instance
    BY DEF TypeOK
  <1>2. CASE UNCHANGED vars
    BY <1>2 DEF vars, authentik, people, Present
  \* The CR keeps its id when people write to it.
  <1>3. ASSUME NEW s \in Specs, UserCreates(s) \/ UserEdits(s) PROVE Own'
    <2>1. api'.id = api.id /\ api'.phase = "live"
      BY <1>1, <1>3 DEF UserCreates, UserEdits, Write, Blank, Version
    <2>2. UNCHANGED <<pc, loc, inst, faults>>
      BY <1>3 DEF UserCreates, UserEdits, authentik, people
    <2>3. QED BY <2>1, <2>2 DEF Present
  <1>4. CASE UserDeletes
    <2>1. api'.id = api.id /\ api'.phase = "deleting"
      BY <1>1, <1>4 DEF UserDeletes, Write, Version
    <2>2. UNCHANGED <<pc, loc, inst, faults>>
      BY <1>4 DEF UserDeletes, authentik, people
    <2>3. QED BY <2>1, <2>2 DEF Present
  \* Whoever else writes to the instance leaves its id, or makes one that is not the CR's.
  <1>5. ASSUME (inst'.uid = inst.uid /\ inst'.mine = inst.mine) \/ ~inst'.mine,
               UNCHANGED <<api, pc, loc, faults>>
        PROVE  Own'
    BY <1>5 DEF Present
  <1>6. ASSUME NEW k \in Contents, HumanCreates(k) \/ Resolves(k) PROVE Own'
    BY <1>5, <1>6 DEF HumanCreates, Resolves, Human, people, NoInstance
  <1>7. ASSUME NEW k \in Contents, NEW x \in Contexts \cup {None}, NEW on \in BOOLEAN,
               HumanEdits(k, x, on)
        PROVE  Own'
    BY <1>1, <1>5, <1>7 DEF HumanEdits, Human, Instance
  <1>8. CASE HumanDeletes
    BY <1>5, <1>8 DEF HumanDeletes, Human, NoInstance
  <1>9. ASSUME NEW u \in Uids, WorkerTakes(u) PROVE Own'
    BY <1>5, <1>9 DEF WorkerTakes, people
  <1>10. ASSUME NEW n \in 1..MaxRunning, WorkerSucceeds(n) PROVE Own'
    BY <1>1, <1>5, <1>10 DEF WorkerSucceeds, people, Instance
  <1>11. CASE Deliver
    BY <1>5, <1>11 DEF Deliver, authentik, people
  \* The reconcile.
  <1>12. CASE Fetch
    <2>1. pc' \in Reading /\ (pc' = "create" => api.id = None) /\ pc = "idle"
      BY <1>12 DEF Fetch, Goto, Reconcilable
    <2>2. loc'.id = api.id /\ loc'.out = None
      BY <1>12 DEF Fetch, Goto, NoWork
    <2>3. Present(api) /\ UNCHANGED <<api, inst, faults>>
      BY <1>12 DEF Fetch, authentik, people
    <2>4. QED BY <2>1, <2>2, <2>3 DEF Present
  <1>13. CASE Cleanup
    <2>1. loc'.out = None /\ pc' \in {"cleaned", "delete"} /\ pc = "idle"
      BY <1>13 DEF Cleanup, Goto, NoWork, Reconcilable
    <2>2. QED BY <1>13, <2>1 DEF Cleanup, authentik, people, Present
  \* What was written is recorded or about to be.
  <1>14. ASSUME NEW u, Written(u)
         PROVE  loc'.out = u /\ (pc' = "state" \/ (pc' = "publish" /\ loc'.outcome = "synced"))
    <2>1. PICK w : w = [loc EXCEPT !.out = u]
      OBVIOUS
    <2>2. w.out = u /\ [w EXCEPT !.outcome = "synced"].out = u
          /\ [w EXCEPT !.outcome = "synced"].outcome = "synced"
      BY <1>1, <2>1 DEF Work
    <2>3. \/ pc' = "state" /\ loc' = w
          \/ pc' = "publish" /\ loc' = [w EXCEPT !.outcome = "synced"]
      BY <1>14, <2>1, Zenon DEF Written, Goto, Ends
    <2>4. QED BY <2>2, <2>3
  <1>15. ASSUME NEW outcome \in Outcomes, Ends(outcome, loc)
         PROVE  loc'.out = loc.out /\ loc'.outcome = outcome /\ pc' = "publish"
    BY <1>1, <1>15 DEF Ends, Goto, Work
  <1>16. CASE Retrieve
    <2>1. UNCHANGED <<api, inst, faults>>
      BY <1>16 DEF Retrieve, authentik, people
    <2>2. CASE inst.uid # loc.id /\ pc' = "create" /\ loc' = loc
      BY <1>16, <2>1, <2>2 DEF Retrieve, Present
    <2>3. CASE inst.uid = loc.id /\ Written(loc.id)
      BY <1>14, <1>16, <2>1, <2>3 DEF Retrieve, Present
    <2>4. CASE pc' = "patch" /\ loc' = [loc EXCEPT !.drift = Drift(loc.spec)]
      <3>1. loc'.id = loc.id /\ loc'.out = loc.out
        BY <1>1, <2>4 DEF Work
      <3>2. QED BY <1>16, <2>1, <2>4, <3>1 DEF Retrieve, Present
    <2>5. QED BY <1>16, <2>2, <2>3, <2>4 DEF Retrieve, Goto
  <1>17. CASE Patch
    <2>1. UNCHANGED <<api, faults>> /\ pc = "patch"
      BY <1>17 DEF Patch, people
    <2>2. CASE inst.uid # loc.id /\ Goto("create", loc) /\ UNCHANGED inst
      BY <2>1, <2>2 DEF Goto, Present
    <2>3. CASE Ends("invalid", loc) /\ UNCHANGED inst
      BY <1>15, <2>1, <2>3 DEF Present, Outcomes
    <2>4. CASE inst.uid = loc.id /\ Written(loc.id) /\ inst' = Patched
      <3>1. inst'.uid = inst.uid /\ inst'.mine = inst.mine
        BY <1>1, <2>4 DEF Patched, Instance
      <3>2. QED BY <1>14, <2>1, <2>4, <3>1 DEF Present
    <2>5. QED BY <1>17, <2>2, <2>3, <2>4 DEF Patch
  <1>18. CASE Create
    <2>1. UNCHANGED <<api, faults>> /\ pc = "create"
      BY <1>18 DEF Create, people
    <2>2. CASE (Ends("invalid", loc) \/ Ends("exists", loc)) /\ UNCHANGED inst
      BY <1>15, <2>1, <2>2 DEF Present, Outcomes
    <2>3. CASE made < MaxUid /\ inst' = Created /\ Written(made + 1)
      <3>1. inst'.uid = made + 1 /\ made + 1 # None
        BY <2>3, CreatedType, UidsAreNumbers
      <3>2. QED BY <1>14, <2>1, <2>3, <3>1 DEF Present
    <2>4. QED BY <1>18, <2>2, <2>3 DEF Create
  <1>19. CASE GetState
    <2>1. UNCHANGED <<api, inst, faults>> /\ pc = "state"
      BY <1>19 DEF GetState, authentik, people
    <2>2. CASE Ends("error", loc) \/ Ends("synced", loc)
      BY <1>15, <2>1, <2>2 DEF Present, Outcomes
    <2>3. CASE Goto("ask", [loc EXCEPT !.status = inst.status])
      <3>1. loc'.out = loc.out /\ pc' = "ask"
        BY <1>1, <2>3 DEF Goto, Work
      <3>2. QED BY <2>1, <3>1 DEF Present
    <2>4. QED BY <1>19, <2>2, <2>3 DEF GetState
  <1>20. CASE AskApply
    <2>1. UNCHANGED <<api, inst, faults>> /\ pc = "ask"
      BY <1>20 DEF AskApply, people
    <2>2. Ends("error", loc) \/ Ends("failed", loc) \/ Ends("pending", loc)
      BY <1>20 DEF AskApply
    <2>3. QED BY <1>15, <2>1, <2>2 DEF Present, Outcomes
  \* What was written is recorded.
  <1>21. CASE Publish
    <2>1. pc = "publish" /\ pc' = "idle" /\ loc'.out = None /\ UNCHANGED <<inst, faults>>
      BY <1>21 DEF Publish, Goto, NoWork, authentik, people
    <2>2. api' = [api EXCEPT !.id = RecordedId, !.ready = loc.outcome]
      BY <1>21, <2>1 DEF Publish, Write
    <2>3. api'.phase = api.phase /\ api'.id = RecordedId
      BY <1>1, <2>2 DEF Version
    <2>4. QED BY <2>1, <2>3 DEF Present
  <1>22. CASE DeleteInstance
    <2>1. pc = "delete" /\ pc' = "cleaned" /\ UNCHANGED <<api, loc, faults>>
      BY <1>22 DEF DeleteInstance, Goto, people
    <2>2. inst' = inst \/ ~inst'.mine
      BY <1>22 DEF DeleteInstance, NoInstance
    <2>3. QED BY <2>1, <2>2
  <1>23. CASE RemoveFinalizer
    <2>1. pc = "cleaned" /\ pc' = "idle" /\ loc'.out = None /\ UNCHANGED <<inst, faults>>
      BY <1>23 DEF RemoveFinalizer, Goto, NoWork, authentik, people
    <2>2. api'.id = api.id /\ (api' = api \/ api'.phase = "gone")
      BY <1>1, <1>23 DEF RemoveFinalizer, Write, Version
    <2>3. QED BY <2>1, <2>2
  \* After a failure only the reconcile's own bookkeeping is left to keep.
  <1>24. ASSUME NEW n \in 1..MaxRunning, WorkerFails(n) PROVE Own'
    BY <1>1, <1>5, <1>24, FaultSpends DEF WorkerFails, Fault, Instance, Present
  <1>25. CASE CallFails
    <2>1. UNCHANGED <<api, inst>> /\ faults' # MaxFaults
      BY <1>25, FaultSpends DEF CallFails, authentik
    <2>2. \/ pc \in Busy \ {"publish"} /\ pc' = "publish"
          \/ pc' = "idle" /\ loc'.out = None
      BY <1>15, <1>25 DEF CallFails, Goto, NoWork, Outcomes
    <2>3. QED BY <2>1, <2>2 DEF Present
  <1>26. CASE ReplyLost
    <2>1. pc \in Busy /\ pc' = "publish" /\ UNCHANGED api /\ faults' # MaxFaults
      BY <1>15, <1>26, FaultSpends DEF ReplyLost, Outcomes
    <2>2. inst'.mine => inst'.uid # None
      <3>1. CASE made < MaxUid /\ inst' = Created
        BY <3>1, CreatedType, UidsAreNumbers
      <3>2. CASE inst' \in {inst, Patched}
        BY <1>1, <3>2 DEF Patched, Instance
      <3>3. QED BY <1>26, <3>1, <3>2 DEF ReplyLost
    <2>3. QED BY <2>1, <2>2 DEF Present
  <1>27. CASE Crash
    <2>1. UNCHANGED <<api, inst>> /\ faults' # MaxFaults /\ pc' = "idle" /\ loc'.out = None
      BY <1>27, FaultSpends DEF Crash, Goto, NoWork, authentik
    <2>2. QED BY <2>1
  <1>28. CASE Next
    BY <1>3, <1>4, <1>6, <1>7, <1>8, <1>9, <1>10, <1>11, <1>12, <1>13, <1>16, <1>17, <1>18,
       <1>19, <1>20, <1>21, <1>22, <1>23, <1>24, <1>25, <1>26, <1>27, <1>28
    DEF Next, StartStep, WorkStep
  <1>29. QED BY <1>2, <1>28

\* Without a failure, the instance this CR made is recorded before it is looked for again:
\* a name the CR is told to be taken is somebody else's.
THEOREM OwnNameFree == Spec => []NoSelfCollision
  BY TypeCorrect, InitOwn, NextOwn, PTL DEF Spec, Own

-----------------------------------------------------------------------------
(* Synced is said of a content that was applied.                           *)

\* Why: what the reconcile reads of an apply is compared with what is stored, and what is
\* stored under the id it read is what it wrote or found to be its content.
ContentStored ==
    /\ inst.applied \in done \cup {None}
    /\ human = MaxHuman /\ pc = "patch" /\ inst.uid = loc.id /\ "content" \notin loc.drift
       => inst.content = loc.spec.content
    /\ human = MaxHuman /\ pc = "state" /\ inst.uid = loc.out
       => inst.content = loc.spec.content

Answered == ContentStored /\ SyncedIsApplied

LEMMA InitAnswered == Init => Answered
  BY DEF Init, Answered, ContentStored, SyncedIsApplied, NoInstance

\* People who change Authentik have spent some of their budget, for good.
LEMMA HumanSpends == TypeOK /\ Human => human' # MaxHuman
  BY BoundsAssumption DEF TypeOK, Human

\* The reconcile ends with what it found, or looks at the instance it wrote.
LEMMA EndsKeeps ==
  ASSUME TypeOK, NEW outcome, Ends(outcome, loc)
  PROVE  pc' = "publish" /\ loc'.outcome = outcome /\ loc'.spec = loc.spec
  BY DEF TypeOK, Work, Ends, Goto

LEMMA WrittenKeeps ==
  ASSUME TypeOK, NEW u, Written(u)
  PROVE  /\ loc'.spec = loc.spec /\ loc'.out = u
         /\ pc' = "state" \/ (pc' = "publish" /\ ~loc'.spec.enabled)
  <1>1. PICK w : w = [loc EXCEPT !.out = u]
    OBVIOUS
  <1>2. /\ w.spec = loc.spec /\ w.out = u
        /\ [w EXCEPT !.outcome = "synced"].spec = loc.spec
        /\ [w EXCEPT !.outcome = "synced"].out = u
    BY <1>1 DEF TypeOK, Work
  <1>3. \/ pc' = "state" /\ loc' = w
        \/ pc' = "publish" /\ loc' = [w EXCEPT !.outcome = "synced"] /\ ~loc.spec.enabled
    BY <1>1, Zenon DEF Written, Goto, Ends
  <1>4. QED BY <1>2, <1>3

LEMMA NextAnswered == TypeOK /\ Answered /\ [Next]_vars => Answered'
  <1> SUFFICES ASSUME TypeOK, Answered, [Next]_vars PROVE Answered'
    OBVIOUS
  <1> USE DEF Answered, ContentStored, SyncedIsApplied
  <1>1. loc \in Work /\ inst \in Instance
    BY DEF TypeOK
  <1>2. loc.spec.content # None
    BY <1>1, SpecFields, ValuesAssumption DEF Work
  \* Steps that leave the instance and the reconcile alone.
  <1>3. ASSUME UNCHANGED <<pc, loc, inst, done>>, human' = human PROVE Answered'
    BY <1>3
  <1>4. ASSUME NEW s \in Specs, UserCreates(s) \/ UserEdits(s) PROVE Answered'
    BY <1>3, <1>4 DEF UserCreates, UserEdits, authentik, people
  <1>5. UserDeletes \/ Deliver \/ UNCHANGED vars => Answered'
    BY <1>3 DEF UserDeletes, Deliver, vars, authentik, people
  <1>6. ASSUME NEW k \in Contents, Resolves(k) PROVE Answered'
    BY <1>3, <1>6 DEF Resolves, people
  <1>7. ASSUME NEW u \in Uids, WorkerTakes(u) PROVE Answered'
    BY <1>3, <1>7 DEF WorkerTakes, people
  \* Once people change Authentik, it answers for nothing but what was applied.
  <1>8. ASSUME Human, inst'.applied \in {inst.applied, None}, done' = done PROVE Answered'
    BY <1>8, HumanSpends
  <1>9. ASSUME NEW k \in Contents, HumanCreates(k) PROVE Answered'
    BY <1>8, <1>9 DEF HumanCreates, NoInstance
  <1>10. ASSUME NEW k \in Contents, NEW x \in Contexts \cup {None}, NEW on \in BOOLEAN,
                HumanEdits(k, x, on)
         PROVE  Answered'
    BY <1>1, <1>8, <1>10 DEF HumanEdits, Instance
  <1>11. CASE HumanDeletes
    BY <1>8, <1>11 DEF HumanDeletes, NoInstance
  \* An apply leaves the content, and its hash once it succeeded.
  <1>12. ASSUME NEW n \in 1..MaxRunning, WorkerSucceeds(n) PROVE Answered'
    <2>1. inst'.uid = inst.uid /\ inst'.content = inst.content
      BY <1>1, <1>12 DEF WorkerSucceeds, Instance
    <2>2. done' = done \cup {running[n].content}
          /\ inst'.applied \in {inst.applied, running[n].content}
      BY <1>1, <1>12 DEF WorkerSucceeds, Instance
    <2>3. UNCHANGED <<pc, loc, human>>
      BY <1>12 DEF WorkerSucceeds, people
    <2>4. QED BY <2>1, <2>2, <2>3
  <1>13. ASSUME NEW n \in 1..MaxRunning, WorkerFails(n) PROVE Answered'
    <2>1. inst'.uid = inst.uid /\ inst'.content = inst.content /\ inst'.applied = inst.applied
      BY <1>1, <1>13 DEF WorkerFails, Instance
    <2>2. QED BY <1>13, <2>1 DEF WorkerFails, Fault
  \* The reconcile.
  <1>14. ASSUME UNCHANGED <<done, human>>, inst'.applied \in {inst.applied, None},
                pc' \notin {"patch", "state", "publish"}
         PROVE  Answered'
    BY <1>14
  <1>15. ASSUME Ends("invalid", loc) \/ Ends("exists", loc) \/ Ends("error", loc)
                \/ Ends("failed", loc) \/ Ends("pending", loc),
                UNCHANGED <<done, human>>, inst'.applied \in {inst.applied, None}
         PROVE  Answered'
    BY <1>15, EndsKeeps
  <1>16. CASE Fetch \/ Cleanup \/ RemoveFinalizer
    <2>1. pc' \in {"create", "retrieve", "cleaned", "delete", "idle"}
      BY <1>16 DEF Fetch, Cleanup, RemoveFinalizer, Goto
    <2>2. UNCHANGED <<done, human, inst>>
      BY <1>16 DEF Fetch, Cleanup, RemoveFinalizer, authentik, people
    <2>3. QED BY <1>14, <2>1, <2>2
  <1>17. CASE Publish
    BY <1>14, <1>17 DEF Publish, Goto, authentik, people
  <1>18. CASE DeleteInstance
    BY <1>14, <1>18 DEF DeleteInstance, Goto, people, NoInstance
  <1>19. CASE Retrieve
    <2>1. UNCHANGED <<inst, done, human>>
      BY <1>19 DEF Retrieve, authentik, people
    <2>2. CASE Goto("create", loc)
      BY <1>14, <2>1, <2>2 DEF Goto
    <2>3. CASE Drift(loc.spec) = {} /\ Written(loc.id)
      <3>1. inst.content = loc.spec.content
        BY <2>3 DEF Drift, Fields
      <3>2. QED BY <2>1, <2>3, <3>1, WrittenKeeps
    <2>4. CASE Goto("patch", [loc EXCEPT !.drift = Drift(loc.spec)])
      <3>1. pc' = "patch" /\ loc'.spec = loc.spec /\ loc'.drift = Drift(loc.spec)
        BY <1>1, <2>4 DEF Goto, Work
      <3>2. "content" \notin Drift(loc.spec) => inst.content = loc.spec.content
        BY DEF Drift, Fields
      <3>3. QED BY <2>1, <3>1, <3>2
    <2>5. QED BY <1>19, <2>2, <2>3, <2>4 DEF Retrieve
  <1>20. CASE Patch
    <2>1. UNCHANGED <<done, human>> /\ pc = "patch"
      BY <1>20 DEF Patch, people
    <2>2. CASE Goto("create", loc) /\ UNCHANGED inst
      BY <1>14, <2>1, <2>2 DEF Goto
    <2>3. CASE Ends("invalid", loc) /\ UNCHANGED inst
      BY <1>15, <2>1, <2>3
    <2>4. CASE inst.uid = loc.id /\ Written(loc.id) /\ inst' = Patched
      <3>1. /\ inst'.applied = inst.applied /\ inst'.uid = inst.uid
            /\ inst'.content = IF "content" \in loc.drift THEN loc.spec.content ELSE inst.content
        BY <1>1, <2>4 DEF Patched, Instance
      <3>2. QED BY <2>1, <2>4, <3>1, WrittenKeeps
    <2>5. QED BY <1>20, <2>2, <2>3, <2>4 DEF Patch
  <1>21. CASE Create
    <2>1. UNCHANGED <<done, human>>
      BY <1>21 DEF Create, people
    <2>2. CASE (Ends("invalid", loc) \/ Ends("exists", loc)) /\ UNCHANGED inst
      BY <1>15, <2>1, <2>2
    <2>3. CASE inst' = Created /\ Written(made + 1)
      <3>1. inst'.applied = None /\ inst'.content = loc.spec.content
        BY <2>3 DEF Created, NoInstance
      <3>2. QED BY <2>1, <2>3, <3>1, WrittenKeeps
    <2>4. QED BY <1>21, <2>2, <2>3 DEF Create
  \* What was applied last is the content that is stored.
  <1>22. CASE GetState
    <2>1. UNCHANGED <<inst, done, human>> /\ pc = "state"
      BY <1>22 DEF GetState, authentik, people
    <2>2. CASE Ends("error", loc)
      BY <1>15, <2>1, <2>2
    <2>3. CASE Goto("ask", [loc EXCEPT !.status = inst.status])
      BY <1>14, <2>1, <2>3 DEF Goto
    <2>4. CASE inst.uid = loc.out /\ Applied /\ Ends("synced", loc)
      <3>1. human = MaxHuman => loc.spec.content \in done
        BY <1>2, <2>1, <2>4 DEF Applied
      <3>2. QED BY <2>1, <2>4, <3>1, EndsKeeps
    <2>5. QED BY <1>22, <2>2, <2>3, <2>4 DEF GetState
  <1>23. CASE AskApply
    <2>1. UNCHANGED <<inst, done, human>>
      BY <1>23 DEF AskApply, people
    <2>2. Ends("error", loc) \/ Ends("failed", loc) \/ Ends("pending", loc)
      BY <1>23 DEF AskApply
    <2>3. QED BY <1>15, <2>1, <2>2
  \* The faults.
  <1>24. CASE CallFails
    <2>1. UNCHANGED <<inst, done, human>>
      BY <1>24 DEF CallFails, Fault, authentik
    <2>2. Ends("error", loc) \/ pc' = "idle"
      BY <1>24 DEF CallFails, Goto
    <2>3. QED BY <1>14, <1>15, <2>1, <2>2
  <1>25. CASE ReplyLost
    <2>1. UNCHANGED <<done, human>> /\ Ends("error", loc)
      BY <1>25 DEF ReplyLost, Fault
    <2>2. inst' \in {inst, Patched, Created}
      BY <1>25 DEF ReplyLost
    <2>3. inst'.applied \in {inst.applied, None}
      BY <1>1, <2>2 DEF Patched, Created, NoInstance, Instance
    <2>4. QED BY <1>15, <2>1, <2>3
  <1>26. CASE Crash
    BY <1>14, <1>26 DEF Crash, Fault, Goto, authentik
  <1>27. CASE Next
    BY <1>4, <1>5, <1>6, <1>7, <1>9, <1>10, <1>11, <1>12, <1>13, <1>16, <1>17, <1>18, <1>19,
       <1>20, <1>21, <1>22, <1>23, <1>24, <1>25, <1>26, <1>27
    DEF Next, StartStep, WorkStep
  <1>28. QED BY <1>5, <1>27

\* As long as people leave Authentik alone, Synced is answered for an enabled spec only
\* once an apply of that very content has succeeded.
THEOREM SyncedMeansApplied == Spec => []SyncedIsApplied
  BY TypeCorrect, InitAnswered, NextAnswered, PTL DEF Spec, Answered
=============================================================================
