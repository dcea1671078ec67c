----------------------- MODULE InstanceBinding_proofs -----------------------
(***************************************************************************)
(* What the binding of CRs to instances promises for every number of       *)
(* instances, applications, policies, undelivered versions, moves and      *)
(* faults: its types, that a policy's binding was made where its status    *)
(* says, and that until somebody moves an application, what others have    *)
(* under its slug is left alone.                                           *)
(***************************************************************************)
EXTENDS InstanceBinding, FiniteSetTheorems, SequenceTheorems, TLAPS

\* A call is made on an instance, and what it made is known by that instance.
WorkBound ==
    \A c \in CRs : /\ pc[c] \in {"call", "synced", "cleanup"} => loc[c].bound # None
                   /\ pc[c] = "synced" => loc[c].id = loc[c].bound

Typed == TypeOK /\ WorkBound

-----------------------------------------------------------------------------
(* What the operators return.                                              *)

LEMMA BlankTypes == Blank \in Version /\ NoWork \in Work
  BY DEF Blank, NoWork, Version, Work, Bound

LEMMA WriteType ==
  ASSUME TypeOK, NEW c \in CRs, NEW v \in Version, Write(c, v)
  PROVE  /\ api' \in [CRs -> Version] /\ pending' \in [CRs -> Seq(Version)]
         /\ api' = [api EXCEPT ![c] = v]
  <1>1. Append(pending[c], v) \in Seq(Version)
    BY DEF TypeOK
  <1>2. QED BY <1>1 DEF TypeOK, Write

LEMMA GotoType ==
  ASSUME TypeOK, NEW c \in CRs, NEW step \in Steps, NEW w \in Work, Goto(c, step, w)
  PROVE  pc' \in [CRs -> Steps] /\ loc' \in [CRs -> Work]
  BY DEF TypeOK, Goto

\* A reconcile that goes on to a step with what the step needs.
LEMMA GotoBound ==
  ASSUME TypeOK, WorkBound, NEW c \in CRs, NEW step, NEW w, Goto(c, step, w),
         step \in {"call", "synced", "cleanup"} => w.bound # None,
         step = "synced" => w.id = w.bound
  PROVE  WorkBound'
  BY DEF TypeOK, WorkBound, Goto

\* What is designated is an instance there is, that has the name and kind asked for.
LEMMA DesignatedIs ==
  ASSUME NEW ref
  PROVE  /\ Designated(ref) \in There \cup {None}
         /\ Designated(ref) # None => Matches(ref, Designated(ref))
  <1> DEFINE found == {i \in There : Matches(ref, i)}
             cluster == {i \in found : i.kind = "Instance"}
  <1>1. CASE found = {}
    BY <1>1 DEF Designated
  <1>2. CASE found # {}
    <2>1. \E i \in found : cluster # {} => i \in cluster
      BY <1>2
    <2>2. Designated(ref) = CHOOSE i \in found : cluster # {} => i \in cluster
      BY <1>2 DEF Designated
    <2>3. Designated(ref) \in found
      BY <2>1, <2>2
    <2>4. QED BY <2>3
  <1>3. QED BY <1>1, <1>2

LEMMA ThereBound == There \subseteq Instances /\ There \cup {None} \subseteq Bound
  BY DEF There, Bound

\* What is recorded is kept, unless the kind is pinned.
LEMMA ResolveIs ==
  ASSUME NEW ref, NEW recorded
  PROVE  /\ Resolve(ref, recorded) \in There \cup {None}
         /\ Resolve(ref, recorded) # None =>
            /\ Matches(ref, Resolve(ref, recorded))
            /\ recorded # None /\ ref.kind = "any" => Resolve(ref, recorded) = recorded
  BY DesignatedIs DEF Resolve

LEMMA PolicyInstanceIs ==
  ASSUME TypeOK, NEW p \in Policies
  PROVE  /\ PolicyInstance(p) \in Bound
         /\ PolicyInstance(p) # None => Present(api[AppOf[p]])
         /\ PolicyInstance(p) # None /\ api[AppOf[p]].instance # None
            => PolicyInstance(p) = api[AppOf[p]].instance
  <1>1. AppOf[p] \in Apps /\ AppOf[p] \in CRs
    BY CRsAssumption DEF CRs
  <1>2. api[AppOf[p]].instance \in Bound
    BY <1>1 DEF TypeOK, Version
  <1>3. ApplicationInstance(AppOf[p]) \in Bound
    BY ResolveIs, ThereBound DEF ApplicationInstance
  <1>4. QED BY <1>2, <1>3 DEF PolicyInstance, Bound

LEMMA DefaultIs == DefaultInstance \in There \cup {None}
  <1>1. CASE Cardinality(ClusterThere) = 1
    <2>1. ClusterThere # {}
      BY <1>1, FS_EmptySet
    <2>2. DefaultInstance \in ClusterThere
      BY <1>1, <2>1 DEF DefaultInstance
    <2>3. QED BY <2>2 DEF ClusterThere
  <1>2. QED BY <1>1 DEF DefaultInstance

-----------------------------------------------------------------------------
(* Type correctness.                                                       *)

LEMMA InitTyped == Init => Typed
  <1> SUFFICES ASSUME Init PROVE Typed
    OBVIOUS
  <1>1. /\ api \in [CRs -> Version] /\ cache \in [CRs -> Version] /\ loc \in [CRs -> Work]
        /\ \A c \in CRs : api[c] = Blank
    BY BlankTypes DEF Init
  <1>2. pending \in [CRs -> Seq(Version)] /\ pc \in [CRs -> Steps]
    BY DEF Init, Steps
  <1>3. remote \in [Instances -> [CRs -> {"nobody", "own", "other"}]]
    BY DEF Init
  <1>4. moves \in 0..MaxMoves /\ faults \in 0..MaxFaults
    BY BoundsAssumption DEF Init
  <1>5. /\ inst \in [Instances -> {"absent", "live", "deleting", "released", "gone"}]
        /\ due = {} /\ \A c \in CRs : pc[c] = "idle"
    BY DEF Init
  <1>6. TypeOK
    BY <1>1, <1>2, <1>3, <1>4, <1>5 DEF TypeOK, Blank, CRs
  <1>7. QED BY <1>5, <1>6 DEF Typed, WorkBound

\* A fault is taken from the budget.
LEMMA FaultType == TypeOK /\ Fault => faults' \in 0..MaxFaults /\ faults' # MaxFaults
  BY BoundsAssumption DEF TypeOK, Fault

\* A version that keeps what a CR records is as well typed.
LEMMA VersionKeeps ==
  ASSUME TypeOK, NEW c \in CRs, NEW v \in Version, Write(c, v),
         c \in Owners => v.instance = None,
         c \notin Owners /\ v.id # None => v.instance # None
  PROVE  /\ api' \in [CRs -> Version] /\ pending' \in [CRs -> Seq(Version)]
         /\ \A d \in CRs \ Owners : api'[d].id # None => api'[d].instance # None
         /\ \A o \in Owners : api'[o].instance = None
  <1>1. /\ api' \in [CRs -> Version] /\ pending' \in [CRs -> Seq(Version)]
        /\ api' = [api EXCEPT ![c] = v]
    BY WriteType
  <1>2. QED BY <1>1 DEF TypeOK, CRs

LEMMA UsersTyped ==
  ASSUME Typed,
         \/ \E c \in CRs : UserStep(c)
         \/ \E a \in Apps, ref \in Refs : UserMoves(a, ref)
         \/ \E i \in Instances : AdminCreates(i) \/ AdminDeletes(i)
                                    \/ ReleaseInstance(i) \/ InstanceGoes(i)
  PROVE  Typed'
  <1> USE DEF Typed
  <1>1. ASSUME NEW c \in CRs, NEW ref \in FirstRefs \cup {None}, UserCreates(c, ref)
        PROVE  Typed'
    <2>1. [Blank EXCEPT !.phase = "live", !.ref = ref] \in Version
      BY BlankTypes, RefsAssumption DEF Version
    <2>2. /\ [Blank EXCEPT !.phase = "live", !.ref = ref].id = None
          /\ [Blank EXCEPT !.phase = "live", !.ref = ref].instance = None
      BY DEF Blank
    <2>3. QED BY <1>1, <2>1, <2>2, VersionKeeps DEF UserCreates, TypeOK, WorkBound
  <1>2. ASSUME NEW c \in CRs, UserDeletes(c) PROVE Typed'
    <2>1. /\ api[c] \in Version
          /\ c \in Owners => api[c].instance = None
          /\ c \notin Owners /\ api[c].id # None => api[c].instance # None
      BY DEF TypeOK
    <2>2. /\ [api[c] EXCEPT !.phase = "deleting"] \in Version
          /\ [api[c] EXCEPT !.phase = "deleting"].id = api[c].id
          /\ [api[c] EXCEPT !.phase = "deleting"].instance = api[c].instance
      BY <2>1 DEF Version
    <2>3. QED BY <1>2, <2>1, <2>2, VersionKeeps DEF UserDeletes, TypeOK, WorkBound
  <1>3. ASSUME NEW a \in Apps, NEW ref \in Refs, UserMoves(a, ref) PROVE Typed'
    <2>1. a \in CRs /\ a \notin Owners
      BY CRsAssumption DEF CRs
    <2>2. api[a] \in Version /\ (api[a].id # None => api[a].instance # None)
      BY <2>1 DEF TypeOK
    <2>3. /\ [api[a] EXCEPT !.ref = ref] \in Version
          /\ [api[a] EXCEPT !.ref = ref].id = api[a].id
          /\ [api[a] EXCEPT !.ref = ref].instance = api[a].instance
      BY <2>2 DEF Version
    <2>4. moves' \in 0..MaxMoves
      BY <1>3, BoundsAssumption DEF UserMoves, TypeOK
    <2>5. QED BY <1>3, <2>1, <2>2, <2>3, <2>4, VersionKeeps, FaultType
          DEF UserMoves, TypeOK, WorkBound
  <1>4. ASSUME NEW i \in Instances,
               AdminCreates(i) \/ AdminDeletes(i) \/ ReleaseInstance(i) \/ InstanceGoes(i)
        PROVE  Typed'
    BY <1>4 DEF AdminCreates, AdminDeletes, ReleaseInstance, InstanceGoes, TypeOK, WorkBound
  <1>5. QED BY <1>1, <1>2, <1>3, <1>4 DEF UserStep

LEMMA StartTyped ==
  ASSUME Typed, NEW c \in CRs, Deliver(c) \/ StartStep(c)
  PROVE  Typed'
  <1> USE DEF Typed
  <1>1. api[c] \in Version /\ cache[c] \in Version
    BY DEF TypeOK
  <1>2. CASE Deliver(c)
    <2>1. Head(pending[c]) \in Version /\ Tail(pending[c]) \in Seq(Version)
      BY <1>2 DEF Deliver, TypeOK
    <2>2. QED BY <1>2, <2>1 DEF Deliver, TypeOK, WorkBound
  \* A reconcile begins with what it resolved and read.
  <1>3. ASSUME NEW step \in {"call", "cleanup", "failed"}, NEW bound \in Bound,
               NEW id \in Bound, step # "failed" => bound # None,
               Goto(c, step, [bound |-> bound, id |-> id]),
               UNCHANGED <<inst, api, cache, pending, due, remote, moves, faults>>
        PROVE  Typed'
    <2>1. [bound |-> bound, id |-> id] \in Work
      BY DEF Work
    <2>2. WorkBound'
      BY <1>3, GotoBound
    <2>3. pc' \in [CRs -> Steps] /\ loc' \in [CRs -> Work]
      BY <1>3, <2>1, GotoType DEF Steps
    <2>4. QED BY <1>3, <2>2, <2>3 DEF TypeOK
  <1>4. CASE c \in Apps /\ FetchApp(c)
    <2>1. ApplicationInstance(c) \in Bound /\ api[c].id \in Bound
      BY <1>1, ResolveIs, ThereBound DEF ApplicationInstance, Version
    <2>2. QED BY <1>3, <1>4, <2>1 DEF FetchApp
  <1>5. CASE c \in Policies /\ FetchPolicy(c)
    <2>1. PolicyInstance(c) \in Bound /\ api[c].id \in Bound
      BY <1>1, <1>5, PolicyInstanceIs DEF Version
    <2>2. PolicyInstance(c) \in There => PolicyInstance(c) # None
      BY ThereBound, InstancesAssumption
    <2>3. QED BY <1>3, <1>5, <2>1, <2>2 DEF FetchPolicy
  <1>6. CASE c \in Owners /\ FetchOwner(c)
    <2>1. DefaultInstance \in Bound /\ api[c].id \in Bound
      BY <1>1, DefaultIs, ThereBound DEF Version
    <2>2. QED BY <1>3, <1>6, <2>1 DEF FetchOwner
  <1>7. CASE Cleanup(c)
    <2>1. CASE Goto(c, "cleaned", NoWork)
      <3>1. WorkBound'
        BY <2>1, GotoBound
      <3>2. pc' \in [CRs -> Steps] /\ loc' \in [CRs -> Work]
        BY <2>1, GotoType, BlankTypes DEF Steps
      <3>3. QED BY <1>7, <3>1, <3>2 DEF Cleanup, TypeOK
    <2>2. CASE /\ CleanupInstance(c) \in There
               /\ Goto(c, "cleanup", [bound |-> CleanupInstance(c), id |-> cache[c].id])
      <3>1. CleanupInstance(c) \in Bound /\ CleanupInstance(c) # None /\ cache[c].id \in Bound
        BY <1>1, <2>2, ThereBound, InstancesAssumption DEF Version
      <3>2. QED BY <1>3, <1>7, <2>2, <3>1 DEF Cleanup
    <2>3. QED BY <1>7, <2>1, <2>2 DEF Cleanup
  <1>8. QED BY <1>2, <1>4, <1>5, <1>6, <1>7 DEF StartStep

LEMMA WorkTyped ==
  ASSUME Typed, NEW c \in CRs, WorkStep(c) \/ CallFails(c)
  PROVE  Typed'
  <1> USE DEF Typed
  <1>1. api[c] \in Version /\ loc[c] \in Work /\ pc[c] \in Steps
    BY DEF TypeOK
  <1>2. NoWork \in Work
    BY BlankTypes
  <1>3. CASE Call(c)
    <2>1. loc[c].bound \in Instances
      BY <1>1, <1>3 DEF Call, WorkBound, Work, Bound
    <2>2. remote' \in [Instances -> [CRs -> {"nobody", "own", "other"}]]
      <3>1. remote[loc[c].bound] \in [CRs -> {"nobody", "own", "other"}]
        BY <2>1 DEF TypeOK
      <3>2. [remote[loc[c].bound] EXCEPT ![c] = "own"] \in [CRs -> {"nobody", "own", "other"}]
        BY <3>1
      <3>3. \/ remote' = [remote EXCEPT ![loc[c].bound] = [remote[loc[c].bound] EXCEPT ![c] = "own"]]
            \/ UNCHANGED remote
        BY <1>3 DEF Call
      <3>4. QED BY <2>1, <3>2, <3>3 DEF TypeOK
    <2>3. /\ [loc[c] EXCEPT !.id = loc[c].bound] \in Work
          /\ [loc[c] EXCEPT !.id = loc[c].bound].bound = loc[c].bound
          /\ [loc[c] EXCEPT !.id = loc[c].bound].id = loc[c].bound
      BY <1>1 DEF Work
    <2>4. loc[c].bound # None
      BY <1>3 DEF Call, WorkBound
    <2>5. CASE Goto(c, "synced", [loc[c] EXCEPT !.id = loc[c].bound])
      <3>1. WorkBound'
        BY <2>3, <2>4, <2>5, GotoBound
      <3>2. pc' \in [CRs -> Steps] /\ loc' \in [CRs -> Work]
        BY <2>3, <2>5, GotoType DEF Steps
      <3>3. QED BY <1>3, <2>2, <3>1, <3>2 DEF Call, TypeOK
    <2>6. CASE Goto(c, "failed", loc[c])
      <3>1. WorkBound'
        BY <2>6, GotoBound
      <3>2. pc' \in [CRs -> Steps] /\ loc' \in [CRs -> Work]
        BY <1>1, <2>6, GotoType DEF Steps
      <3>3. QED BY <1>3, <2>2, <3>1, <3>2 DEF Call, TypeOK
    <2>7. QED BY <1>3, <2>5, <2>6 DEF Call
  <1>4. ASSUME Goto(c, "idle", NoWork)
        PROVE  WorkBound' /\ pc' \in [CRs -> Steps] /\ loc' \in [CRs -> Work]
    BY <1>2, <1>4, GotoBound, GotoType DEF Steps
  <1>5. CASE Publish(c)
    <2> DEFINE v == [api[c] EXCEPT !.instance = RecordedInstance(c),
                                   !.id = IF pc[c] = "synced" THEN loc[c].id ELSE @]
    <2>1. RecordedInstance(c) \in Bound
      BY <1>1 DEF RecordedInstance, Version, Work
    <2>2. v \in Version
      BY <1>1, <2>1 DEF Version, Work
    <2>3. c \in Owners => RecordedInstance(c) = None
      BY DEF RecordedInstance, TypeOK
    <2>4. c \notin Owners /\ pc[c] = "synced" => RecordedInstance(c) # None
      BY DEF RecordedInstance, WorkBound
    <2>5. c \notin Owners /\ api[c].id # None => RecordedInstance(c) # None
      BY DEF RecordedInstance, TypeOK
    <2>6. v.instance = RecordedInstance(c) /\ (v.id = api[c].id \/ pc[c] = "synced")
      BY <1>1 DEF Version
    <2> HIDE DEF v
    <2>7. CASE Write(c, v)
      BY <1>4, <1>5, <2>2, <2>3, <2>4, <2>5, <2>6, <2>7, VersionKeeps
      DEF Publish, Requeued, TypeOK
    <2>8. CASE UNCHANGED <<api, pending>>
      BY <1>4, <1>5, <2>8 DEF Publish, Requeued, TypeOK
    <2>9. QED BY <1>5, <2>7, <2>8 DEF Publish, v
  <1>6. CASE DeleteObject(c)
    <2>1. loc[c].bound \in Instances
      BY <1>1, <1>6 DEF DeleteObject, WorkBound, Work, Bound
    <2>2. remote[loc[c].bound] \in [CRs -> {"nobody", "own", "other"}]
      BY <2>1 DEF TypeOK
    <2>3. [d \in CRs |-> IF d \in Deletes(c) THEN "nobody" ELSE remote[loc[c].bound][d]]
            \in [CRs -> {"nobody", "own", "other"}]
      BY <2>2
    <2>4. remote' \in [Instances -> [CRs -> {"nobody", "own", "other"}]]
      BY <1>6, <2>1, <2>3 DEF DeleteObject, TypeOK
    <2>5. WorkBound'
      BY <1>6, GotoBound DEF DeleteObject
    <2>6. pc' \in [CRs -> Steps] /\ loc' \in [CRs -> Work]
      BY <1>1, <1>6, GotoType DEF DeleteObject, Steps
    <2>7. QED BY <1>6, <2>4, <2>5, <2>6 DEF DeleteObject, TypeOK
  <1>7. CASE RemoveFinalizer(c)
    <2>1. /\ [Blank EXCEPT !.phase = "gone"] \in Version
          /\ [Blank EXCEPT !.phase = "gone"].id = None
          /\ [Blank EXCEPT !.phase = "gone"].instance = None
      BY BlankTypes DEF Blank, Version
    <2>2. CASE Write(c, [Blank EXCEPT !.phase = "gone"])
      BY <1>4, <1>7, <2>1, <2>2, VersionKeeps DEF RemoveFinalizer, TypeOK
    <2>3. CASE UNCHANGED <<api, pending>>
      BY <1>4, <1>7, <2>3 DEF RemoveFinalizer, TypeOK
    <2>4. QED BY <1>7, <2>2, <2>3 DEF RemoveFinalizer
  <1>8. CASE CallFails(c)
    <2>1. CASE Goto(c, "failed", loc[c])
      <3>1. WorkBound'
        BY <2>1, GotoBound
      <3>2. pc' \in [CRs -> Steps] /\ loc' \in [CRs -> Work]
        BY <1>1, <2>1, GotoType DEF Steps
      <3>3. QED BY <1>8, <3>1, <3>2, FaultType DEF CallFails, TypeOK
    <2>2. CASE Goto(c, "idle", NoWork)
      BY <1>4, <1>8, <2>2, FaultType DEF CallFails, TypeOK
    <2>3. QED BY <1>8, <2>1, <2>2 DEF CallFails
  <1>9. QED BY <1>3, <1>5, <1>6, <1>7, <1>8 DEF WorkStep

LEMMA NextTyped == Typed /\ [Next]_vars => Typed'
  <1> SUFFICES ASSUME Typed, [Next]_vars PROVE Typed'
    OBVIOUS
  <1>1. CASE UNCHANGED vars
    BY <1>1 DEF vars, Typed, TypeOK, WorkBound
  <1>2. CASE Crash
    <2>1. /\ pc' \in [CRs -> Steps] /\ loc' \in [CRs -> Work]
          /\ \A c \in CRs : pc'[c] = "idle"
      BY <1>2, BlankTypes DEF Crash, Steps
    <2>2. pending' \in [CRs -> Seq(Version)] /\ due' = CRs
      BY <1>2 DEF Crash
    <2>3. inst' \in [Instances -> {"absent", "live", "deleting", "released", "gone"}]
      BY <1>2 DEF Crash, Typed, TypeOK
    <2>4. QED BY <1>2, <2>1, <2>2, <2>3, FaultType DEF Crash, Typed, TypeOK, WorkBound
  <1>3. CASE Next
    BY <1>2, <1>3, UsersTyped, StartTyped, WorkTyped DEF Next
  <1>4. QED BY <1>1, <1>3

\* Every variable keeps to its values, and an id is recorded with its instance.
THEOREM TypeCorrect == Spec => []TypeOK
  BY InitTyped, NextTyped, PTL DEF Spec, Typed

-----------------------------------------------------------------------------
(* An application stays where it was first resolved.                       *)

Reconciling(c) == pc[c] \in {"call", "synced", "failed"}

\* What is recorded, or about to be, is what the instanceRef designates, and is never
\* another instance than the one recorded.
AppStays(a) ==
    /\ api[a].phase = "absent" => api[a].instance = None /\ ~Reconciling(a)
    /\ api[a].instance # None => Matches(api[a].ref, api[a].instance)
    /\ Reconciling(a) /\ loc[a].bound # None =>
          /\ Matches(api[a].ref, loc[a].bound)
          /\ api[a].instance \in {None, loc[a].bound}

\* The instance recorded for a policy's application, for as long as that exists.
LivesOn(p, i) == api[AppOf[p]].phase = "gone" \/ api[AppOf[p]].instance = i

\* A binding is made, and recorded, on the instance of the application.
PolicyStays(p) ==
    /\ api[p].id # None => api[p].id = api[p].instance /\ LivesOn(p, api[p].id)
    /\ pc[p] \in {"call", "synced"} => LivesOn(p, loc[p].bound)
    /\ Reconciling(p) /\ loc[p].bound # None /\ api[p].id # None => loc[p].bound = api[p].id

Stays == (\A a \in Apps : AppStays(a)) /\ (\A p \in Policies : PolicyStays(p))

\* The steps of one CR.
CRStep(c) == UserStep(c) \/ Deliver(c) \/ StartStep(c) \/ WorkStep(c) \/ CallFails(c)

\* An instance is told from the others by its name and kind.
LEMMA ResolveStays ==
  ASSUME NEW ref, NEW recorded \in Instances, Matches(ref, recorded),
         Resolve(ref, recorded) # None
  PROVE  Resolve(ref, recorded) = recorded
  <1> DEFINE i == Resolve(ref, recorded)
  <1>1. i \in Instances /\ Matches(ref, i)
    BY ResolveIs, ThereBound, InstancesAssumption
  <1>2. CASE ref.kind = "any"
    BY <1>2, ResolveIs, InstancesAssumption
  <1>3. CASE ref.kind # "any"
    <2>1. i.name = recorded.name /\ i.kind = recorded.kind
      BY <1>1, <1>3 DEF Matches
    <2>2. QED BY <1>1, <2>1, InstancesAssumption
  <1>4. QED BY <1>2, <1>3

\* A CR's step leaves the other CRs as they were.
LEMMA OneMoves ==
  ASSUME TypeOK, NEW c \in CRs, CRStep(c)
  PROVE  /\ moves' = moves
         /\ \A d \in CRs \ {c} :
               /\ api'[d] = api[d] /\ cache'[d] = cache[d] /\ pending'[d] = pending[d]
               /\ pc'[d] = pc[d] /\ loc'[d] = loc[d]
  <1> USE DEF TypeOK
  <1>1. CASE UserStep(c)
    BY <1>1 DEF UserStep, UserCreates, UserDeletes, Write
  <1>2. CASE Deliver(c)
    BY <1>2 DEF Deliver
  <1>3. CASE StartStep(c)
    BY <1>3 DEF StartStep, FetchApp, FetchPolicy, FetchOwner, Cleanup, Goto
  <1>4. CASE Call(c) \/ DeleteObject(c)
    BY <1>4 DEF Call, DeleteObject, Goto
  <1>5. CASE Publish(c) \/ RemoveFinalizer(c)
    BY <1>5 DEF Publish, RemoveFinalizer, Goto, Write
  <1>6. CASE CallFails(c)
    BY <1>6 DEF CallFails, Goto
  <1>7. QED BY <1>1, <1>2, <1>3, <1>4, <1>5, <1>6 DEF CRStep, WorkStep

\* What a CR's step does to its record and its reconcile.
LEMMA CRStepIs ==
  ASSUME Typed, NEW c \in CRs, CRStep(c)
  PROVE  \/ /\ api[c].phase = "absent" /\ api'[c].phase = "live"
            /\ api'[c].id = None /\ api'[c].instance = None
            /\ pc'[c] = pc[c] /\ loc'[c] = loc[c]
         \/ /\ api[c].phase = "live" /\ api'[c].phase = "deleting" /\ api'[c].ref = api[c].ref
            /\ api'[c].id = api[c].id /\ api'[c].instance = api[c].instance
            /\ pc'[c] = pc[c] /\ loc'[c] = loc[c]
         \/ api'[c] = api[c] /\ pc'[c] = pc[c] /\ loc'[c] = loc[c]
         \/ /\ api'[c] = api[c] /\ Present(api[c])
            /\ \/ c \in Apps /\ loc'[c].bound = ApplicationInstance(c)
               \/ /\ c \in Policies /\ loc'[c].bound = PolicyInstance(c)
                  /\ pc'[c] = "call" => /\ PolicyInstance(c) # None
                                        /\ api[AppOf[c]].id # None
                  /\ pc'[c] \in {"call", "failed"}
               \/ c \in Owners
         \/ api'[c] = api[c] /\ ~(Reconciling(c))'
         \/ /\ api'[c] = api[c] /\ pc[c] = "call" /\ pc'[c] \in {"synced", "failed"}
            /\ loc'[c].bound = loc[c].bound
         \/ /\ Present(api[c]) /\ pc[c] \in {"synced", "failed"} /\ pc'[c] = "idle"
            /\ api'[c].phase = api[c].phase /\ api'[c].ref = api[c].ref
            /\ api'[c].instance = RecordedInstance(c)
            /\ api'[c].id = IF pc[c] = "synced" THEN loc[c].bound ELSE api[c].id
         \/ /\ Present(api[c]) /\ pc'[c] = "idle" /\ api'[c].phase = "gone"
            /\ api'[c].id = None /\ api'[c].instance = None
  <1> USE DEF Typed, TypeOK
  <1>1. api[c] \in Version /\ loc[c] \in Work
    OBVIOUS
  <1>2. ASSUME NEW ref, UserCreates(c, ref)
        PROVE  /\ api[c].phase = "absent" /\ api'[c].phase = "live"
               /\ api'[c].id = None /\ api'[c].instance = None
               /\ pc'[c] = pc[c] /\ loc'[c] = loc[c]
    BY <1>2 DEF UserCreates, Write, Blank
  <1>3. CASE UserDeletes(c)
    <2>1. api'[c] = [api[c] EXCEPT !.phase = "deleting"]
      BY <1>3 DEF UserDeletes, Write
    <2>2. QED BY <1>1, <1>3, <2>1 DEF UserDeletes, Version
  <1>4. CASE Deliver(c)
    BY <1>4 DEF Deliver
  <1>5. CASE c \in Apps /\ FetchApp(c)
    BY <1>5 DEF FetchApp, Goto
  <1>6. CASE c \in Policies /\ FetchPolicy(c)
    <2>1. PolicyInstance(c) \in There => PolicyInstance(c) # None
      BY ThereBound, InstancesAssumption
    <2>2. QED BY <1>6, <2>1 DEF FetchPolicy, Goto
  <1>7. CASE c \in Owners /\ FetchOwner(c)
    BY <1>7 DEF FetchOwner, Goto
  <1>8. CASE Cleanup(c)
    BY <1>8 DEF Cleanup, Goto, Reconciling
  <1>9. CASE Call(c)
    <2>1. loc'[c] = loc[c] \/ loc'[c] = [loc[c] EXCEPT !.id = loc[c].bound]
      BY <1>9 DEF Call, Goto
    <2>2. loc'[c].bound = loc[c].bound
      BY <1>1, <2>1 DEF Work
    <2>3. QED BY <1>9, <2>2 DEF Call, Goto
  <1>10. CASE Publish(c)
    <2>1. pc[c] \in {"synced", "failed"} /\ pc'[c] = "idle"
      BY <1>10 DEF Publish, Goto
    <2>2. CASE Present(api[c])
      <3>1. api'[c] = [api[c] EXCEPT !.instance = RecordedInstance(c),
                                     !.id = IF pc[c] = "synced" THEN loc[c].id ELSE @]
        BY <1>10, <2>2 DEF Publish, Write
      <3>2. pc[c] = "synced" => loc[c].id = loc[c].bound
        BY DEF WorkBound
      <3>3. QED BY <1>1, <2>1, <2>2, <3>1, <3>2 DEF Version
    <2>3. CASE ~Present(api[c])
      BY <1>10, <2>1, <2>3 DEF Publish, Reconciling
    <2>4. QED BY <2>2, <2>3
  <1>11. CASE DeleteObject(c)
    BY <1>11 DEF DeleteObject, Goto, Reconciling
  <1>12. CASE RemoveFinalizer(c)
    <2>1. pc'[c] = "idle"
      BY <1>12 DEF RemoveFinalizer, Goto
    <2>2. CASE Present(api[c])
      <3>1. api'[c] = [Blank EXCEPT !.phase = "gone"]
        BY <1>12, <2>2 DEF RemoveFinalizer, Write
      <3>2. QED BY <2>1, <2>2, <3>1 DEF Blank
    <2>3. CASE ~Present(api[c])
      BY <1>12, <2>1, <2>3 DEF RemoveFinalizer, Reconciling
    <2>4. QED BY <2>2, <2>3
  <1>13. CASE CallFails(c)
    <2>1. UNCHANGED api
      BY <1>13 DEF CallFails
    <2>2. CASE pc[c] = "call" /\ Goto(c, "failed", loc[c])
      BY <2>1, <2>2 DEF Goto
    <2>3. CASE Goto(c, "idle", NoWork)
      BY <2>1, <2>3 DEF Goto, Reconciling
    <2>4. QED BY <1>13, <2>2, <2>3 DEF CallFails
  <1>14. QED
    BY <1>2, <1>3, <1>4, <1>5, <1>6, <1>7, <1>8, <1>9, <1>10, <1>11, <1>12, <1>13
    DEF CRStep, UserStep, StartStep, WorkStep

\* An application's step keeps it where it is, until it is gone for good.
LEMMA AppStepStays ==
  ASSUME Typed, NEW a \in Apps, AppStays(a), CRStep(a)
  PROVE  /\ AppStays(a)'
         /\ api[a].instance # None => api'[a].phase = "gone" \/ api'[a].instance = api[a].instance
         /\ api[a].phase = "gone" => api'[a].phase = "gone"
  <1> USE DEF AppStays, Reconciling
  <1>1. a \in CRs /\ a \notin Owners /\ a \notin Policies
    BY CRsAssumption DEF CRs
  <1>2. api[a].instance \in Bound /\ (pc[a] \in {"call", "synced"} => loc[a].bound # None)
    BY <1>1 DEF Typed, TypeOK, Version, WorkBound
  <1>3. CASE api'[a] = api[a] /\ Present(api[a]) /\ loc'[a].bound = ApplicationInstance(a)
    <2>1. ApplicationInstance(a) # None => Matches(api[a].ref, ApplicationInstance(a))
      BY ResolveIs DEF ApplicationInstance
    <2>2. ApplicationInstance(a) # None => api[a].instance \in {None, ApplicationInstance(a)}
      BY <1>2, ResolveStays DEF ApplicationInstance, Bound
    <2>3. QED BY <1>3, <2>1, <2>2 DEF Present
  <1>4. RecordedInstance(a) = IF loc[a].bound = None THEN api[a].instance ELSE loc[a].bound
    BY <1>1 DEF RecordedInstance
  <1>5. QED BY <1>1, <1>2, <1>3, <1>4, CRStepIs DEF Present

\* A policy stays with its application as long as that stays where it is.
LEMMA PolicyStepStays ==
  ASSUME Typed, NEW p \in Policies, PolicyStays(p), CRStep(p)
  PROVE  PolicyStays(p)'
  <1> USE DEF PolicyStays, Reconciling, LivesOn
  <1> DEFINE a == AppOf[p]
  <1>1. p \in CRs /\ a \in CRs /\ a \in Apps /\ a # p /\ p \notin Apps /\ p \notin Owners
    BY CRsAssumption DEF CRs
  <1>2. api'[a] = api[a]
    BY <1>1, OneMoves DEF Typed
  <1>3. /\ api[a].id # None => api[a].instance # None
        /\ pc[p] \in {"call", "synced"} => loc[p].bound # None
    BY <1>1, CRsAssumption DEF Typed, TypeOK, WorkBound
  <1>4. CASE /\ api'[p] = api[p] /\ pc'[p] \in {"call", "failed"}
             /\ loc'[p].bound = PolicyInstance(p)
             /\ pc'[p] = "call" => PolicyInstance(p) # None /\ api[a].id # None
    <2>1. /\ PolicyInstance(p) # None => Present(api[a])
          /\ PolicyInstance(p) # None /\ api[a].instance # None
             => PolicyInstance(p) = api[a].instance
      BY PolicyInstanceIs DEF Typed
    <2>2. pc'[p] = "call" => LivesOn(p, loc'[p].bound)
      BY <1>3, <1>4, <2>1
    <2>3. loc'[p].bound # None /\ api[p].id # None => loc'[p].bound = api[p].id
      BY <1>4, <2>1 DEF Present
    <2>4. QED BY <1>2, <1>4, <2>2, <2>3
  <1>5. RecordedInstance(p) = IF loc[p].bound = None THEN api[p].instance ELSE loc[p].bound
    BY <1>1 DEF RecordedInstance
  <1> HIDE DEF a
  <1>6. QED BY <1>1, <1>2, <1>3, <1>4, <1>5, CRStepIs DEF a

LEMMA NextStays ==
  ASSUME Typed, Stays, [Next]_vars, moves' = moves
  PROVE  Stays'
  <1> USE DEF Stays
  <1>1. CASE UNCHANGED vars
    BY <1>1 DEF vars, AppStays, PolicyStays, LivesOn, Reconciling
  <1>2. CASE Crash
    <2>1. \A c \in CRs : pc'[c] = "idle" /\ api'[c] = api[c]
      BY <1>2 DEF Crash
    <2>2. Apps \subseteq CRs /\ Policies \subseteq CRs /\ \A p \in Policies : AppOf[p] \in CRs
      BY CRsAssumption DEF CRs
    <2>3. QED BY <2>1, <2>2 DEF AppStays, PolicyStays, LivesOn, Reconciling
  <1>3. ASSUME NEW i \in Instances,
               AdminCreates(i) \/ AdminDeletes(i) \/ ReleaseInstance(i) \/ InstanceGoes(i)
        PROVE  Stays'
    BY <1>3 DEF AdminCreates, AdminDeletes, ReleaseInstance, InstanceGoes,
                AppStays, PolicyStays, LivesOn, Reconciling
  <1>4. ASSUME NEW a \in Apps, NEW ref \in Refs, UserMoves(a, ref) PROVE FALSE
    BY <1>4, BoundsAssumption DEF UserMoves, Typed, TypeOK
  <1>5. ASSUME NEW c \in CRs, CRStep(c) PROVE Stays'
    <2>1. \A d \in CRs \ {c} : api'[d] = api[d] /\ pc'[d] = pc[d] /\ loc'[d] = loc[d]
      BY <1>5, OneMoves DEF Typed
    <2>2. ASSUME NEW a \in Apps
          PROVE  /\ AppStays(a)'
                 /\ api[a].instance # None
                    => api'[a].phase = "gone" \/ api'[a].instance = api[a].instance
                 /\ api[a].phase = "gone" => api'[a].phase = "gone"
      <3>1. CASE a = c
        BY <1>5, <3>1, AppStepStays
      <3>2. CASE a # c
        BY <2>1, <3>2 DEF AppStays, Reconciling, CRs
      <3>3. QED BY <3>1, <3>2
    <2>3. ASSUME NEW p \in Policies PROVE PolicyStays(p)'
      <3>1. CASE p = c
        BY <1>5, <3>1, PolicyStepStays
      <3>2. CASE p # c
        <4>1. AppOf[p] \in Apps /\ p \in CRs
          BY CRsAssumption DEF CRs
        <4>2. ASSUME NEW i, i # None, LivesOn(p, i) PROVE LivesOn(p, i)'
          BY <2>2, <4>1, <4>2 DEF LivesOn
        <4>3. api'[p] = api[p] /\ pc'[p] = pc[p] /\ loc'[p] = loc[p]
          BY <2>1, <3>2, <4>1
        <4>4. pc[p] \in {"call", "synced"} => loc[p].bound # None
          BY <4>1 DEF Typed, WorkBound
        <4>5. PolicyStays(p)
          OBVIOUS
        <4>6. QED BY <4>2, <4>3, <4>4, <4>5 DEF PolicyStays, LivesOn, Reconciling
      <3>3. QED BY <3>1, <3>2
    <2>4. QED BY <2>2, <2>3
  <1>6. CASE Next
    BY <1>2, <1>3, <1>4, <1>5, <1>6 DEF Next, CRStep
  <1>7. QED BY <1>1, <1>6

\* The edits of an instanceRef that are left are never more than there were.
LEMMA MovesSpent ==
  ASSUME TypeOK, [Next]_vars, moves' = MaxMoves
  PROVE  moves' = moves
  <1>1. ASSUME NEW a \in Apps, NEW ref \in Refs, UserMoves(a, ref) PROVE FALSE
    BY <1>1, BoundsAssumption DEF UserMoves, TypeOK
  <1>2. ASSUME NEW i \in Instances,
               AdminCreates(i) \/ AdminDeletes(i) \/ ReleaseInstance(i) \/ InstanceGoes(i)
        PROVE  moves' = moves
    BY <1>2 DEF AdminCreates, AdminDeletes, ReleaseInstance, InstanceGoes
  <1>3. ASSUME NEW c \in CRs, CRStep(c) PROVE moves' = moves
    BY <1>3, OneMoves
  <1>4. QED BY <1>1, <1>2, <1>3 DEF Next, vars, Crash, CRStep

\* Until somebody moves an application.
Unmoved == moves = MaxMoves => Stays

LEMMA InitUnmoved == Init => Unmoved
  BY CRsAssumption
  DEF Init, Unmoved, Stays, AppStays, PolicyStays, Reconciling, Blank, CRs

LEMMA NextUnmoved == Typed /\ Unmoved /\ [Next]_vars => Unmoved'
  BY NextStays, MovesSpent DEF Unmoved, Typed

\* Until somebody moves an application, the binding a policy records was made on the
\* instance it records: its cleanup looks for it where it is.
THEOREM BindingWhereRecorded == Spec => []RecordedWhereMade
  <1>1. Typed /\ Unmoved => RecordedWhereMade
    BY DEF Unmoved, Stays, PolicyStays, RecordedWhereMade
  <1>2. QED BY <1>1, InitTyped, NextTyped, InitUnmoved, NextUnmoved, PTL DEF Spec

-----------------------------------------------------------------------------
(* What others have under an application's slug is left alone.             *)

\* A version of an application that records an id was applied: what has the slug there
\* is not another's.
NotOthers(a, v) == v.id # None => v.instance # None /\ remote[v.instance][a] # "other"

\* So it is in the record, in the store and on its way to it, which the cleanup reads,
\* and in what a reconcile carries.
OthersLeft(a) ==
    /\ NotOthers(a, api[a]) /\ NotOthers(a, cache[a])
    /\ \A n \in DOMAIN pending[a] : NotOthers(a, pending[a][n])
    /\ pc[a] = "call" /\ loc[a].id # None => remote[loc[a].bound][a] # "other"
    /\ pc[a] \in {"synced", "cleanup"} => remote[loc[a].bound][a] # "other"

OnlyAppsTaken == \A i \in Instances, c \in CRs \ Apps : remote[i][c] # "other"

Left == OnlyAppsTaken /\ \A a \in Apps : OthersLeft(a)

\* What a CR's step adds to the versions known of it is what the API server has.
LEMMA VersionsMove ==
  ASSUME Typed, NEW c \in CRs, CRStep(c)
  PROVE  /\ cache'[c] = cache[c] \/ \E n \in DOMAIN pending[c] : cache'[c] = pending[c][n]
         /\ \A m \in DOMAIN pending'[c] :
               \/ pending'[c][m] = api'[c] /\ api'[c] # api[c]
               \/ \E n \in DOMAIN pending[c] : pending'[c][m] = pending[c][n]
  <1> USE DEF Typed, TypeOK
  <1>1. pending[c] \in Seq(Version) /\ api[c] \in Version
    OBVIOUS
  <1>2. ASSUME NEW v, v \in Version, Write(c, v), cache' = cache
        PROVE  /\ cache'[c] = cache[c]
               /\ \A m \in DOMAIN pending'[c] :
                     \/ pending'[c][m] = api'[c] /\ api'[c] # api[c]
                     \/ \E n \in DOMAIN pending[c] : pending'[c][m] = pending[c][n]
    <2>1. /\ api'[c] = v
          /\ \/ pending'[c] = pending[c]
             \/ pending'[c] = Append(pending[c], v) /\ api'[c] # api[c]
      BY <1>2 DEF Write
    <2>2. PICK old \in Seq(Version) : old = pending[c]
      BY <1>1
    <2>3. CASE pending'[c] = old
      BY <1>2, <2>2, <2>3
    <2>4. CASE pending'[c] = Append(old, v) /\ api'[c] # api[c]
      <3>1. \A m \in DOMAIN pending'[c] :
               \/ pending'[c][m] = v
               \/ m \in DOMAIN old /\ pending'[c][m] = old[m]
        BY <1>2, <2>2, <2>4
      <3>2. QED BY <1>2, <2>1, <2>2, <2>4, <3>1
    <2>5. QED BY <2>1, <2>2, <2>3, <2>4
  <1>3. CASE UNCHANGED <<cache, pending>>
    BY <1>3
  <1>4. ASSUME NEW ref \in FirstRefs \cup {None}, UserCreates(c, ref)
        PROVE  \E v \in Version : Write(c, v) /\ cache' = cache
    BY <1>4, BlankTypes, RefsAssumption DEF UserCreates, Version
  <1>5. CASE UserDeletes(c)
    BY <1>1, <1>2, <1>5 DEF UserDeletes, Version
  <1>6. CASE Deliver(c)
    <2>1. /\ pending[c] # <<>> /\ cache'[c] = Head(pending[c])
          /\ pending'[c] = Tail(pending[c])
      BY <1>6 DEF Deliver
    <2>2. QED BY <1>1, <2>1
  <1>7. CASE StartStep(c) \/ Call(c) \/ DeleteObject(c) \/ CallFails(c)
    BY <1>3, <1>7 DEF StartStep, FetchApp, FetchPolicy, FetchOwner, Cleanup, Call,
                      DeleteObject, CallFails
  <1>8. CASE Publish(c)
    <2>1. loc[c].id \in Bound /\ RecordedInstance(c) \in Bound
      BY <1>1 DEF RecordedInstance, Version, Work
    <2>2. [api[c] EXCEPT !.instance = RecordedInstance(c),
                         !.id = IF pc[c] = "synced" THEN loc[c].id ELSE @] \in Version
      BY <1>1, <2>1 DEF Version
    <2>3. QED BY <1>2, <1>3, <1>8, <2>2 DEF Publish
  <1>9. CASE RemoveFinalizer(c)
    <2>1. [Blank EXCEPT !.phase = "gone"] \in Version
      BY BlankTypes DEF Version
    <2>2. QED BY <1>2, <1>3, <1>9, <2>1 DEF RemoveFinalizer
  <1>10. QED BY <1>2, <1>4, <1>5, <1>6, <1>7, <1>8, <1>9 DEF CRStep, UserStep, WorkStep

\* A step takes nothing from another and gives nothing to another.
LEMMA TakesNothing ==
  ASSUME Typed, Left, NEW c \in CRs, CRStep(c)
  PROVE  \A i \in Instances, d \in CRs : remote[i][d] = "other" <=> remote'[i][d] = "other"
  <1> USE DEF Typed, TypeOK
  <1>1. pc[c] \in {"call", "cleanup"} => loc[c].bound \in Instances
    BY DEF WorkBound, Work, Bound
  <1>2. c \in Apps => OthersLeft(c)
    BY DEF Left
  <1>3. CASE Call(c)
    <2>1. CASE Updates(c) \/ Creates(c)
      <3>1. remote[loc[c].bound][c] # "other"
        <4>1. CASE c \in Apps
          BY <1>2, <1>3, <2>1, <4>1, CRsAssumption DEF Call, Updates, Creates, OthersLeft
        <4>2. CASE c \notin Apps
          BY <1>1, <1>3, <4>2 DEF Call, Left, OnlyAppsTaken
        <4>3. QED BY <4>1, <4>2
      <3>2. remote' = remote \/ remote' = [remote EXCEPT ![loc[c].bound][c] = "own"]
        BY <1>3 DEF Call
      <3>3. loc[c].bound \in Instances
        BY <1>1, <1>3 DEF Call
      <3>4. \A i \in Instances, d \in CRs :
               \/ remote'[i][d] = remote[i][d]
               \/ i = loc[c].bound /\ d = c /\ remote'[i][d] = "own"
        BY <3>2, <3>3
      <3>5. QED BY <3>1, <3>4
    <2>2. CASE ~(Updates(c) \/ Creates(c))
      BY <1>3, <2>2 DEF Call
    <2>3. QED BY <2>1, <2>2
  <1>4. CASE DeleteObject(c)
    <2>1. ASSUME NEW d \in Deletes(c) PROVE remote[loc[c].bound][d] # "other"
      <3>1. CASE d = c /\ c \in Apps
        BY <1>2, <1>4, <3>1 DEF DeleteObject, OthersLeft
      <3>2. CASE d \in CRs \ Apps
        BY <1>1, <1>4, <3>2 DEF DeleteObject, Left, OnlyAppsTaken
      <3>3. QED BY <2>1, <3>1, <3>2, CRsAssumption DEF Deletes, CRs
    <2>2. \/ remote' = remote
          \/ remote' = [remote EXCEPT ![loc[c].bound] =
                          [d \in CRs |-> IF d \in Deletes(c) THEN "nobody"
                                         ELSE remote[loc[c].bound][d]]]
      BY <1>4 DEF DeleteObject
    <2>3. QED BY <1>1, <1>4, <2>1, <2>2 DEF DeleteObject
  <1>5. CASE ~Call(c) /\ ~DeleteObject(c)
    BY <1>5 DEF CRStep, UserStep, UserCreates, UserDeletes, Deliver, StartStep, FetchApp,
                FetchPolicy, FetchOwner, Cleanup, WorkStep, Publish, RemoveFinalizer, CallFails
  <1>6. QED BY <1>3, <1>4, <1>5

\* An application's step keeps what it records, and what it carries, off what others have.
LEMMA AppStepLeft ==
  ASSUME Typed, Left, NEW a \in Apps, AppStays(a), CRStep(a)
  PROVE  OthersLeft(a)'
  <1> USE DEF Typed
  <1>1. a \in CRs /\ a \notin Owners /\ a \notin Policies /\ OthersLeft(a)
    BY CRsAssumption DEF CRs, Left
  <1>2. \A i \in Instances : remote[i][a] = "other" <=> remote'[i][a] = "other"
    BY <1>1, TakesNothing
  <1>3. ASSUME NEW v \in Version, NotOthers(a, v)
        PROVE  v.id # None => v.instance # None /\ remote'[v.instance][a] # "other"
    <2>1. v.instance \in Instances \cup {None}
      BY DEF Version, Bound
    <2>2. QED BY <1>2, <1>3, <2>1 DEF NotOthers
  <1>4. /\ api[a] \in Version /\ api'[a] \in Version /\ cache[a] \in Version
        /\ \A n \in DOMAIN pending[a] : pending[a][n] \in Version
        /\ loc[a] \in Work
        /\ pc[a] \in {"call", "synced", "cleanup"} => loc[a].bound \in Instances
        /\ pc[a] = "synced" => loc[a].id = loc[a].bound
    <2>1. api'[a] \in Version
      <3>1. Typed'
        BY <1>1, NextTyped DEF Next, CRStep
      <3>2. QED BY <1>1, <3>1 DEF TypeOK
    <2>2. \A n \in DOMAIN pending[a] : pending[a][n] \in Version
      BY <1>1, ElementOfSeq DEF TypeOK
    <2>3. QED BY <1>1, <2>1, <2>2 DEF TypeOK, WorkBound, Work, Bound
  \* What is recorded.
  <1>5. NotOthers(a, api'[a])
    <2>1. CASE api'[a].id = None
      BY <2>1 DEF NotOthers
    <2>2. CASE api'[a].id = api[a].id /\ api'[a].instance = api[a].instance
      BY <1>1, <2>2 DEF OthersLeft, NotOthers
    <2>3. CASE /\ pc[a] \in {"synced", "failed"}
               /\ api'[a].instance = RecordedInstance(a)
               /\ api'[a].id = IF pc[a] = "synced" THEN loc[a].bound ELSE api[a].id
      <3>1. RecordedInstance(a) = IF loc[a].bound = None THEN api[a].instance ELSE loc[a].bound
        BY <1>1 DEF RecordedInstance
      <3>2. CASE pc[a] = "synced"
        BY <1>1, <1>4, <2>3, <3>1, <3>2, InstancesAssumption DEF OthersLeft, NotOthers
      <3>3. CASE pc[a] = "failed" /\ api[a].id # None
        <4>1. api[a].instance # None /\ remote[api[a].instance][a] # "other"
          BY <1>1, <3>3 DEF OthersLeft, NotOthers
        <4>2. loc[a].bound # None => api[a].instance = loc[a].bound
          BY <3>3, <4>1 DEF AppStays, Reconciling
        <4>3. QED BY <2>3, <3>1, <3>3, <4>1, <4>2 DEF NotOthers
      <3>4. QED BY <2>3, <3>2, <3>3 DEF NotOthers
    <2>4. QED BY <1>1, <2>1, <2>2, <2>3, CRStepIs
  \* What is known of it.
  <1>6. /\ NotOthers(a, api[a])' /\ NotOthers(a, cache[a])'
        /\ \A m \in DOMAIN pending'[a] : NotOthers(a, pending[a][m])'
    <2>1. NotOthers(a, api[a])'
      BY <1>3, <1>4, <1>5 DEF NotOthers
    <2>2. /\ NotOthers(a, cache[a])
          /\ \A n \in DOMAIN pending[a] : NotOthers(a, pending[a][n])
      BY <1>1 DEF OthersLeft
    <2>3. cache'[a] \in Version /\ NotOthers(a, cache'[a])
      BY <1>1, <1>4, <2>2, VersionsMove
    <2>4. NotOthers(a, cache[a])'
      BY <1>3, <2>3 DEF NotOthers
    <2>5. ASSUME NEW m \in DOMAIN pending'[a] PROVE NotOthers(a, pending[a][m])'
      <3>1. pending'[a][m] \in Version /\ NotOthers(a, pending'[a][m])
        BY <1>1, <1>4, <1>5, <2>2, VersionsMove
      <3>2. QED BY <1>3, <3>1 DEF NotOthers
    <2>6. QED BY <2>1, <2>4, <2>5
  \* What is carried.
  <1>7. pc'[a] = "call" /\ loc'[a].id # None => remote'[loc'[a].bound][a] # "other"
    <2>1. CASE FetchApp(a) /\ pc'[a] = "call" /\ loc'[a].id # None
      <3>1. /\ loc'[a].id = api[a].id /\ loc'[a].bound = ApplicationInstance(a)
            /\ ApplicationInstance(a) # None
        BY <1>1, <2>1 DEF FetchApp, Goto, TypeOK
      <3>2. api[a].instance # None /\ remote[api[a].instance][a] # "other"
        BY <1>1, <2>1, <3>1 DEF OthersLeft, NotOthers
      <3>3. ApplicationInstance(a) = api[a].instance /\ api[a].instance \in Instances
        <4>1. api[a].instance \in Instances /\ Matches(api[a].ref, api[a].instance)
          BY <1>4, <3>2 DEF Version, Bound, AppStays
        <4>2. QED BY <3>1, <4>1, ResolveStays DEF ApplicationInstance
      <3>4. QED BY <1>2, <3>1, <3>2, <3>3
    <2>2. CASE pc'[a] = pc[a] /\ loc'[a] = loc[a]
      BY <1>1, <1>2, <1>4, <2>2 DEF OthersLeft
    <2>3. CASE pc'[a] # "call"
      BY <2>3
    <2>4. QED
      BY <1>1, <2>1, <2>2, <2>3
      DEF CRStep, UserStep, UserCreates, UserDeletes, Deliver, StartStep, FetchPolicy, FetchOwner,
          Cleanup, WorkStep, Call, Publish, DeleteObject, RemoveFinalizer, CallFails, Goto, TypeOK
  <1>8. pc'[a] \in {"synced", "cleanup"} => remote'[loc'[a].bound][a] # "other"
    <2>1. CASE Call(a) /\ pc'[a] = "synced"
      <3>1. loc'[a].bound = loc[a].bound /\ loc[a].bound \in Instances
        <4>1. loc'[a] = [loc[a] EXCEPT !.id = loc[a].bound]
          BY <1>1, <2>1 DEF Call, Goto, TypeOK
        <4>2. QED BY <1>4, <2>1, <4>1 DEF Call, Work
      <3>2. remote' = [remote EXCEPT ![loc[a].bound][a] = "own"]
        BY <1>1, <2>1 DEF Call, Goto, TypeOK
      <3>3. remote'[loc[a].bound][a] = "own"
        BY <1>1, <3>1, <3>2 DEF TypeOK
      <3>4. QED BY <3>1, <3>3
    <2>2. CASE Cleanup(a) /\ pc'[a] = "cleanup"
      <3>1. cache[a].id # None /\ loc'[a].bound = CleanupInstance(a)
        BY <1>1, <2>2 DEF Cleanup, Goto, TypeOK
      <3>2. cache[a].instance # None /\ remote[cache[a].instance][a] # "other"
        BY <1>1, <3>1 DEF OthersLeft, NotOthers
      <3>3. CleanupInstance(a) = cache[a].instance /\ cache[a].instance \in Instances
        BY <1>1, <1>4, <3>2 DEF CleanupInstance, Version, Bound
      <3>4. QED BY <1>2, <3>1, <3>2, <3>3
    <2>3. CASE pc'[a] = pc[a] /\ loc'[a] = loc[a]
      BY <1>1, <1>2, <1>4, <2>3 DEF OthersLeft
    <2>4. CASE pc'[a] \notin {"synced", "cleanup"}
      BY <2>4
    <2>5. QED
      BY <1>1, <2>1, <2>2, <2>3, <2>4
      DEF CRStep, UserStep, UserCreates, UserDeletes, Deliver, StartStep, FetchApp, FetchPolicy,
          FetchOwner, Cleanup, WorkStep, Call, Publish, DeleteObject, RemoveFinalizer, CallFails,
          Goto, TypeOK
  <1>9. QED BY <1>6, <1>7, <1>8 DEF OthersLeft

LEMMA NextLeft ==
  ASSUME Typed, Stays, Left, [Next]_vars, moves' = moves
  PROVE  Left'
  <1>1. CASE UNCHANGED vars
    BY <1>1 DEF vars, Left, OnlyAppsTaken, OthersLeft, NotOthers
  <1>2. CASE Crash
    <2>1. \A c \in CRs : pc'[c] = "idle" /\ pending'[c] = <<>> /\ cache'[c] = api[c]
      BY <1>2 DEF Crash
    <2>2. UNCHANGED <<api, remote>> /\ Apps \subseteq CRs
      BY <1>2 DEF Crash, CRs
    <2>3. QED BY <2>1, <2>2 DEF Left, OnlyAppsTaken, OthersLeft, NotOthers
  <1>3. ASSUME NEW i \in Instances,
               AdminCreates(i) \/ AdminDeletes(i) \/ ReleaseInstance(i) \/ InstanceGoes(i)
        PROVE  Left'
    BY <1>3 DEF AdminCreates, AdminDeletes, ReleaseInstance, InstanceGoes,
                Left, OnlyAppsTaken, OthersLeft, NotOthers
  <1>4. ASSUME NEW a \in Apps, NEW ref \in Refs, UserMoves(a, ref) PROVE FALSE
    BY <1>4, BoundsAssumption DEF UserMoves, Typed, TypeOK
  <1>5. ASSUME NEW c \in CRs, CRStep(c) PROVE Left'
    <2>1. \A i \in Instances, d \in CRs : remote[i][d] = "other" <=> remote'[i][d] = "other"
      BY <1>5, TakesNothing
    <2>2. OnlyAppsTaken'
      BY <2>1 DEF Left, OnlyAppsTaken
    <2>3. ASSUME NEW a \in Apps PROVE OthersLeft(a)'
      <3>1. CASE a = c
        BY <1>5, <3>1, AppStepLeft DEF Stays
      <3>2. CASE a # c
        <4>1. a \in CRs
          BY DEF CRs
        <4>2. /\ api'[a] = api[a] /\ cache'[a] = cache[a] /\ pending'[a] = pending[a]
              /\ pc'[a] = pc[a] /\ loc'[a] = loc[a]
          BY <1>5, <3>2, <4>1, OneMoves DEF Typed
        <4>3. ASSUME NEW v \in Version, NotOthers(a, v)
              PROVE  v.id # None => v.instance # None /\ remote'[v.instance][a] # "other"
          BY <2>1, <4>1, <4>3 DEF NotOthers, Version, Bound
        <4>4. /\ api[a] \in Version /\ cache[a] \in Version
              /\ \A n \in DOMAIN pending[a] : pending[a][n] \in Version
          BY <4>1, ElementOfSeq DEF Typed, TypeOK
        <4>5. pc[a] \in {"call", "synced", "cleanup"} => loc[a].bound \in Instances
          BY <4>1 DEF Typed, TypeOK, WorkBound, Work, Bound
        <4>6. OthersLeft(a)
          BY DEF Left
        <4>7. /\ NotOthers(a, api[a])' /\ NotOthers(a, cache[a])'
              /\ \A n \in DOMAIN pending'[a] : NotOthers(a, pending[a][n])'
          BY <4>2, <4>3, <4>4, <4>6 DEF OthersLeft, NotOthers
        <4>8. QED BY <2>1, <4>1, <4>2, <4>5, <4>6, <4>7 DEF OthersLeft
      <3>3. QED BY <3>1, <3>2
    <2>4. QED BY <2>2, <2>3 DEF Left
  <1>6. CASE Next
    BY <1>2, <1>3, <1>4, <1>5, <1>6 DEF Next, CRStep
  <1>7. QED BY <1>1, <1>6

UnmovedLeft == moves = MaxMoves => Stays /\ Left

LEMMA InitLeft == Init => UnmovedLeft
  <1> SUFFICES ASSUME Init PROVE Stays /\ Left
    BY DEF UnmovedLeft
  <1>1. Stays
    BY InitUnmoved DEF Init, Unmoved
  <1>2. Apps \subseteq CRs /\ \A c \in CRs : /\ api[c].id = None /\ cache[c].id = None
                                           /\ pending[c] = <<>> /\ pc[c] = "idle"
    BY DEF Init, Blank, CRs
  <1>3. OnlyAppsTaken
    BY DEF Init, OnlyAppsTaken
  <1>4. QED BY <1>1, <1>2, <1>3 DEF Left, OthersLeft, NotOthers

LEMMA NextUnmovedLeft == Typed /\ UnmovedLeft /\ [Next]_vars => UnmovedLeft'
  BY NextStays, NextLeft, MovesSpent DEF UnmovedLeft, Typed

\* Until a user edits an instanceRef, whatever has an application's slug on another
\* Authentik than its own is left alone.
THEOREM OthersLeftAlone == Spec => OwnUntilMoved
  <1>1. Typed /\ UnmovedLeft /\ [Next]_vars
        => [\A i \in Instances, c \in CRs : moves = MaxMoves /\ remote[i][c] = "other"
               => remote'[i][c] = "other"]_vars
    <2> SUFFICES ASSUME Typed, UnmovedLeft, Next, NEW i \in Instances, NEW c \in CRs,
                        moves = MaxMoves, remote[i][c] = "other"
                 PROVE  remote'[i][c] = "other"
      OBVIOUS
    <2>1. ASSUME NEW d \in CRs, CRStep(d) PROVE remote'[i][c] = "other"
      BY <2>1, TakesNothing DEF UnmovedLeft
    <2>2. CASE UNCHANGED remote
      BY <2>2
    <2>3. QED
      BY <2>1, <2>2 DEF Next, CRStep, UserMoves, AdminCreates, AdminDeletes, ReleaseInstance,
                        InstanceGoes, Crash
  <1>2. QED BY <1>1, InitTyped, NextTyped, InitLeft, NextUnmovedLeft, PTL
        DEF Spec, OwnUntilMoved

-----------------------------------------------------------------------------
(* An instance is released when nothing is on it.                          *)

\* A version of an application tells what the API server has, unless that is gone, but
\* for an instance recorded since.
Follows(a, v) ==
    /\ v.phase # "absent"
    /\ \/ api[a].phase = "gone"
       \/ /\ v.phase # "gone" /\ v.ref = api[a].ref
          /\ v.instance \in {None, api[a].instance}

HasObject(a) == \E i \in Instances : remote[i][a] = "own"

\* The store knows of an application before anything is done for it.
Followed(a) ==
    /\ api[a].phase = "absent" => cache[a].phase = "absent" /\ pending[a] = <<>>
    /\ cache[a].phase # "absent" => Follows(a, cache[a])
    /\ \A n \in DOMAIN pending[a] : Follows(a, pending[a][n])
    /\ cache[a].phase = "absent"
       => pc[a] = "idle" /\ api[a].instance = None /\ ~HasObject(a)

\* Without a failure, an application's object is where its record says or is about to.
Homed(a) ==
    faults = MaxFaults =>
       \A i \in Instances : remote[i][a] = "own" /\ Present(api[a])
          => api[a].instance = i \/ (pc[a] = "synced" /\ loc[a].bound = i)

\* A policy's binding is where its application is, for as long as that exists.
BindingHomed(p) == \A i \in Instances : remote[i][p] = "own" => LivesOn(p, i)

\* An object is made by a call, where the reconcile is bound.
LEMMA OwnIsMade ==
  ASSUME Typed, NEW c \in CRs, CRStep(c)
  PROVE  \A i \in Instances, d \in CRs : remote'[i][d] = "own" =>
            \/ remote[i][d] = "own"
            \/ /\ d = c /\ pc[c] = "call" /\ pc'[c] = "synced"
               /\ i = loc[c].bound /\ loc'[c].bound = loc[c].bound
  <1> USE DEF Typed, TypeOK
  <1>1. loc[c] \in Work /\ (pc[c] \in {"call", "cleanup"} => loc[c].bound \in Instances)
    BY DEF WorkBound, Work, Bound
  <1>2. CASE Call(c)
    <2>1. CASE UNCHANGED remote
      BY <2>1
    <2>2. CASE /\ remote' = [remote EXCEPT ![loc[c].bound][c] = "own"]
               /\ Goto(c, "synced", [loc[c] EXCEPT !.id = loc[c].bound])
      <3>1. loc'[c] = [loc[c] EXCEPT !.id = loc[c].bound] /\ pc'[c] = "synced"
        BY <2>2 DEF Goto
      <3>2. loc'[c].bound = loc[c].bound /\ pc[c] = "call" /\ loc[c].bound \in Instances
        BY <1>1, <1>2, <3>1 DEF Call, Work
      <3>3. \A i \in Instances, d \in CRs :
               \/ remote'[i][d] = remote[i][d]
               \/ i = loc[c].bound /\ d = c
        BY <2>2, <3>2
      <3>4. QED BY <3>1, <3>2, <3>3
    <2>3. QED BY <1>2, <2>1, <2>2 DEF Call
  <1>3. CASE DeleteObject(c)
    <2>1. \/ remote' = remote
          \/ remote' = [remote EXCEPT ![loc[c].bound] =
                          [d \in CRs |-> IF d \in Deletes(c) THEN "nobody"
                                         ELSE remote[loc[c].bound][d]]]
      BY <1>3 DEF DeleteObject
    <2>2. QED BY <1>1, <1>3, <2>1 DEF DeleteObject
  <1>4. CASE ~Call(c) /\ ~DeleteObject(c)
    BY <1>4 DEF CRStep, UserStep, UserCreates, UserDeletes, Deliver, StartStep, FetchApp,
                FetchPolicy, FetchOwner, Cleanup, WorkStep, Publish, RemoveFinalizer, CallFails
  <1>5. QED BY <1>2, <1>3, <1>4

\* A reconcile starts on what the store knows.
LEMMA StartsKnown ==
  ASSUME Typed, NEW c \in CRs, CRStep(c), cache[c].phase = "absent", pc[c] = "idle"
  PROVE  pc'[c] = "idle"
  BY DEF CRStep, UserStep, UserCreates, UserDeletes, Deliver, StartStep, FetchApp, FetchPolicy,
         FetchOwner, Cleanup, WorkStep, Call, Publish, DeleteObject, RemoveFinalizer, CallFails

LEMMA AppStepFollowed ==
  ASSUME Typed, NEW a \in Apps, AppStays(a), Followed(a), CRStep(a)
  PROVE  Followed(a)'
  <1>1. a \in CRs
    BY DEF CRs
  \* Every version known still tells what the API server has.
  <1>2. ASSUME NEW v, Follows(a, v), api[a].phase # "absent" PROVE Follows(a, v)'
    <2>1. /\ api[a].phase = "gone" => api'[a].phase = "gone"
          /\ api[a].instance # None
             => api'[a].phase = "gone" \/ api'[a].instance = api[a].instance
      BY <1>2, AppStepStays
    <2>2. api'[a].ref = api[a].ref \/ api'[a].phase = "gone"
      BY <1>1, <1>2, CRStepIs
    <2>3. QED BY <1>2, <2>1, <2>2 DEF Follows
  <1>3. api[a].phase = "absent" => api'[a].phase \in {"absent", "live"}
    BY <1>1, CRStepIs DEF Present
  <1>4. api'[a] # api[a] => api'[a].phase # "absent" /\ Follows(a, api[a])'
    <2>1. api'[a] # api[a] => api'[a].phase # "absent"
      BY <1>1, CRStepIs DEF Present
    <2>2. QED BY <2>1 DEF Follows
  <1>5. /\ cache'[a] = cache[a] \/ \E n \in DOMAIN pending[a] : cache'[a] = pending[a][n]
        /\ \A m \in DOMAIN pending'[a] :
              \/ pending'[a][m] = api'[a] /\ api'[a] # api[a]
              \/ \E n \in DOMAIN pending[a] : pending'[a][m] = pending[a][n]
    BY <1>1, VersionsMove
  <1>6. api'[a].phase = "absent" => cache'[a].phase = "absent" /\ pending'[a] = <<>>
    <2> SUFFICES ASSUME api'[a].phase = "absent"
                 PROVE  cache'[a].phase = "absent" /\ pending'[a] = <<>>
      OBVIOUS
    <2>1. api'[a] = api[a]
      BY <1>4
    <2>2. cache[a].phase = "absent" /\ pending[a] = <<>>
      BY <2>1 DEF Followed
    <2>3. cache'[a] = cache[a] /\ DOMAIN pending'[a] = {}
      BY <1>5, <2>1, <2>2
    <2>4. pending'[a] \in Seq(Version)
      BY <1>1, NextTyped DEF Next, CRStep, Typed, TypeOK
    <2>5. Len(pending'[a]) = 0
      <3>1. DOMAIN pending'[a] = 1..Len(pending'[a]) /\ Len(pending'[a]) \in Nat
        BY <2>4
      <3>2. Len(pending'[a]) >= 1 => 1 \in DOMAIN pending'[a]
        BY <3>1
      <3>3. QED BY <2>3, <3>1, <3>2
    <2>6. QED BY <2>2, <2>3, <2>4, <2>5, EmptySeq
  <1>7. cache'[a].phase # "absent" => Follows(a, cache[a])'
    <2>1. cache'[a].phase # "absent" => api[a].phase # "absent"
      BY <1>5 DEF Followed
    <2>2. cache'[a].phase # "absent" => Follows(a, cache'[a])
      BY <1>5 DEF Followed
    <2>3. QED BY <1>2, <2>1, <2>2 DEF Follows
  <1>8. ASSUME NEW m \in DOMAIN pending'[a] PROVE Follows(a, pending[a][m])'
    <2>1. CASE pending'[a][m] = api'[a] /\ api'[a] # api[a]
      BY <1>4, <2>1 DEF Follows
    <2>2. ASSUME NEW n \in DOMAIN pending[a], pending'[a][m] = pending[a][n]
          PROVE  Follows(a, pending[a][m])'
      <3>1. Follows(a, pending[a][n]) /\ api[a].phase # "absent"
        BY DEF Followed
      <3>2. QED BY <1>2, <2>2, <3>1 DEF Follows
    <2>3. QED BY <1>5, <2>1, <2>2
  <1>9. ASSUME cache'[a].phase = "absent"
        PROVE  pc'[a] = "idle" /\ api'[a].instance = None /\ ~HasObject(a)'
    <2>1. cache[a].phase = "absent"
      BY <1>5, <1>9 DEF Followed, Follows
    <2>2. pc[a] = "idle" /\ api[a].instance = None /\ ~HasObject(a)
      BY <2>1 DEF Followed
    <2>3. pc'[a] = "idle"
      BY <1>1, <2>1, <2>2, StartsKnown
    <2>4. api'[a].instance = None
      BY <1>1, <2>2, CRStepIs
    <2>5. ~HasObject(a)'
      BY <1>1, <2>2, OwnIsMade DEF HasObject
    <2>6. QED BY <2>3, <2>4, <2>5
  <1>10. QED BY <1>6, <1>7, <1>8, <1>9 DEF Followed

LEMMA AppStepHomed ==
  ASSUME Typed, NEW a \in Apps, AppStays(a), Followed(a), Homed(a), CRStep(a)
  PROVE  Homed(a)'
  <1> SUFFICES ASSUME faults' = MaxFaults, NEW i \in Instances, remote'[i][a] = "own",
                      Present(api'[a])
               PROVE  api'[a].instance = i \/ (pc'[a] = "synced" /\ loc'[a].bound = i)
    BY DEF Homed, Present
  <1>1. a \in CRs /\ a \notin Owners /\ a \notin Policies
    BY CRsAssumption DEF CRs
  <1>2. ~CallFails(a) /\ faults = MaxFaults
    <2>1. ~CallFails(a)
      BY FaultType DEF CallFails, Typed
    <2>2. faults' = faults
      BY <2>1 DEF CRStep, UserStep, UserCreates, UserDeletes, Deliver, StartStep, FetchApp,
                  FetchPolicy, FetchOwner, Cleanup, WorkStep, Call, Publish, DeleteObject,
                  RemoveFinalizer
    <2>3. QED BY <2>1, <2>2
  <1>3. CASE pc[a] = "call" /\ pc'[a] = "synced" /\ i = loc[a].bound /\ loc'[a].bound = loc[a].bound
    BY <1>3
  <1>4. CASE remote[i][a] = "own"
    <2>1. Present(api[a])
      <3>1. api[a].phase # "absent"
        BY <1>4 DEF Followed, HasObject
      <3>2. QED BY <1>1, <3>1, CRStepIs DEF Present
    <2>2. CASE api[a].instance = i
      <3>1. i # None
        BY InstancesAssumption
      <3>2. QED BY <2>2, <3>1, AppStepStays DEF Present
    <2>3. CASE pc[a] = "synced" /\ loc[a].bound = i
      <3>1. loc[a].bound # None
        BY <2>3, InstancesAssumption
      <3>2. CASE Publish(a)
        <4>1. api'[a] = [api[a] EXCEPT !.instance = RecordedInstance(a),
                                       !.id = IF pc[a] = "synced" THEN loc[a].id ELSE @]
          BY <1>1, <2>1, <3>2 DEF Publish, Write, Typed, TypeOK
        <4>2. api[a] \in Version
          BY <1>1 DEF Typed, TypeOK
        <4>3. api'[a].instance = RecordedInstance(a)
          BY <4>1, <4>2 DEF Version
        <4>4. QED BY <1>1, <2>3, <3>1, <4>3 DEF RecordedInstance
      <3>3. CASE pc'[a] = pc[a] /\ loc'[a] = loc[a]
        BY <2>3, <3>3
      <3>4. QED
        BY <1>1, <1>2, <2>3, <3>2, <3>3
        DEF CRStep, UserStep, UserCreates, UserDeletes, Deliver, StartStep, FetchApp,
            FetchPolicy, FetchOwner, Cleanup, Reconcilable, WorkStep, Call, DeleteObject,
            RemoveFinalizer
    <2>4. QED BY <1>2, <1>4, <2>1, <2>2, <2>3 DEF Homed
  <1>5. QED BY <1>1, <1>3, <1>4, OwnIsMade

Settling == /\ \A a \in Apps : Followed(a) /\ Homed(a)
            /\ \A p \in Policies : BindingHomed(p)

LEMMA NextSettling ==
  ASSUME Typed, Stays, Settling, [Next]_vars, moves' = moves
  PROVE  Settling'
  <1>1. Apps \subseteq CRs /\ Policies \subseteq CRs /\ \A p \in Policies : AppOf[p] \in Apps
    BY CRsAssumption DEF CRs
  <1>2. ASSUME UNCHANGED <<api, cache, pending, pc, loc, remote, faults>> PROVE Settling'
    BY <1>2 DEF Settling, Followed, Follows, HasObject, Homed, BindingHomed, LivesOn, Present
  <1>3. CASE UNCHANGED vars
    BY <1>2, <1>3 DEF vars
  <1>4. ASSUME NEW i \in Instances,
               AdminCreates(i) \/ AdminDeletes(i) \/ ReleaseInstance(i) \/ InstanceGoes(i)
        PROVE  Settling'
    BY <1>2, <1>4 DEF AdminCreates, AdminDeletes, ReleaseInstance, InstanceGoes
  <1>5. CASE Crash
    <2>1. /\ \A c \in CRs : cache'[c] = api[c] /\ pending'[c] = <<>> /\ pc'[c] = "idle"
          /\ api' = api /\ remote' = remote
      BY <1>5 DEF Crash
    <2>2. faults' # MaxFaults
      BY <1>5, FaultType DEF Crash, Typed
    <2>3. ASSUME NEW a \in Apps PROVE Followed(a)'
      <3>1. api[a].phase = "absent" => ~HasObject(a) /\ api[a].instance = None
        BY DEF Settling, Followed, Stays, AppStays
      <3>2. QED BY <1>1, <2>1, <3>1 DEF Followed, Follows, HasObject
    <2>4. QED BY <2>1, <2>2, <2>3 DEF Settling, Homed, BindingHomed, LivesOn
  <1>6. ASSUME NEW a \in Apps, NEW ref \in Refs, UserMoves(a, ref) PROVE FALSE
    BY <1>6, BoundsAssumption DEF UserMoves, Typed, TypeOK
  <1>7. ASSUME NEW c \in CRs, CRStep(c) PROVE Settling'
    <2>1. \A d \in CRs \ {c} :
             /\ api'[d] = api[d] /\ cache'[d] = cache[d] /\ pending'[d] = pending[d]
             /\ pc'[d] = pc[d] /\ loc'[d] = loc[d]
             /\ \A i \in Instances : remote'[i][d] = "own" => remote[i][d] = "own"
      BY <1>7, OneMoves, OwnIsMade DEF Typed
    <2>2. faults' = MaxFaults => faults = MaxFaults
      <3>1. CallFails(c) => faults' # MaxFaults
        BY FaultType DEF CallFails, Typed
      <3>2. CallFails(c) \/ faults' = faults
        BY <1>7 DEF CRStep, UserStep, UserCreates, UserDeletes, Deliver, StartStep, FetchApp,
                    FetchPolicy, FetchOwner, Cleanup, WorkStep, Call, Publish, DeleteObject,
                    RemoveFinalizer
      <3>3. QED BY <3>1, <3>2
    <2>3. ASSUME NEW a \in Apps PROVE Followed(a)' /\ Homed(a)'
      <3>1. CASE a = c
        BY <1>7, <3>1, AppStepFollowed, AppStepHomed DEF Settling, Stays
      <3>2. CASE a # c
        BY <1>1, <2>1, <2>2, <3>2 DEF Settling, Followed, Follows, HasObject, Homed, Present
      <3>3. QED BY <3>1, <3>2
    <2>4. ASSUME NEW p \in Policies PROVE BindingHomed(p)'
      <3>1. ASSUME NEW i \in Instances, LivesOn(p, i) PROVE LivesOn(p, i)'
        <4>1. i # None /\ AppOf[p] \in CRs
          BY <1>1, InstancesAssumption
        <4>2. CASE AppOf[p] = c
          BY <1>1, <1>7, <3>1, <4>1, <4>2, AppStepStays DEF LivesOn, Stays
        <4>3. CASE AppOf[p] # c
          BY <2>1, <3>1, <4>1, <4>3 DEF LivesOn
        <4>4. QED BY <4>2, <4>3
      <3>2. ASSUME NEW i \in Instances, remote'[i][p] = "own" PROVE LivesOn(p, i)
        <4>1. CASE remote[i][p] = "own"
          BY <4>1 DEF Settling, BindingHomed
        <4>2. CASE p = c /\ pc[c] = "call" /\ i = loc[c].bound
          BY <4>2 DEF Stays, PolicyStays
        <4>3. QED BY <1>1, <1>7, <3>2, <4>1, <4>2, OwnIsMade
      <3>3. QED BY <3>1, <3>2 DEF BindingHomed, LivesOn
    <2>5. QED BY <2>3, <2>4 DEF Settling
  <1>8. CASE Next
    BY <1>4, <1>5, <1>6, <1>7, <1>8 DEF Next, CRStep
  <1>9. QED BY <1>3, <1>8

UnmovedSettling == moves = MaxMoves => Stays /\ Settling

LEMMA InitSettling == Init => UnmovedSettling
  <1> SUFFICES ASSUME Init PROVE Stays /\ Settling
    BY DEF UnmovedSettling
  <1>1. Stays
    BY InitUnmoved DEF Init, Unmoved
  <1>2. /\ Apps \subseteq CRs /\ Policies \subseteq CRs
        /\ \A c \in CRs : /\ api[c] = Blank /\ cache[c] = Blank
                          /\ pending[c] = <<>> /\ pc[c] = "idle"
        /\ \A i \in Instances, c \in CRs : remote[i][c] # "own"
    BY DEF Init, CRs
  <1>3. \A a \in Apps : Followed(a) /\ Homed(a)
    BY <1>2 DEF Followed, Homed, HasObject, Blank
  <1>4. \A p \in Policies : BindingHomed(p)
    BY <1>2 DEF BindingHomed
  <1>5. QED BY <1>1, <1>3, <1>4 DEF Settling

LEMMA NextUnmovedSettling == Typed /\ UnmovedSettling /\ [Next]_vars => UnmovedSettling'
  BY NextStays, NextSettling, MovesSpent DEF UnmovedSettling, Typed

\* An application that is recorded, or has its object, on an instance is one of those its
\* finalizer finds.
LEMMA FoundDependent ==
  ASSUME Typed, Stays, Settling, faults = MaxFaults, NEW i \in Instances, NEW a \in Apps,
         Present(api[a]), remote[i][a] = "own" \/ api[a].instance = i
  PROVE  a \in Dependents(i)
  <1>1. a \in CRs /\ i # None /\ AppStays(a) /\ Followed(a) /\ Homed(a)
    BY InstancesAssumption DEF CRs, Stays, Settling
  <1>2. cache[a].phase # "absent"
    BY <1>1 DEF Followed, HasObject
  <1>3. /\ Present(cache[a]) /\ cache[a].ref = api[a].ref
        /\ cache[a].instance \in {None, api[a].instance}
    <2>1. cache[a] \in Version
      BY <1>1 DEF Typed, TypeOK
    <2>2. QED BY <1>1, <1>2, <2>1 DEF Followed, Follows, Present, Version
  <1>4. api[a].instance = i \/ (pc[a] = "synced" /\ loc[a].bound = i)
    BY <1>1 DEF Homed
  <1>5. BoundTo(a, i)
    BY <1>1, <1>3, <1>4 DEF AppStays, Reconciling, BoundTo
  <1>6. QED BY <1>1, <1>3, <1>5 DEF Dependents

\* When the release of an instance is granted, no application has its object there,
\* recorded or not, nor has a policy its binding whose application still exists: without
\* a failure, and until an application is moved.
THEOREM ReleasedUnused == Spec => ReleasedWhenUnused
  <1>1. Typed /\ UnmovedSettling /\ [Next]_vars
        => [\A i \in Instances :
               inst[i] = "deleting" /\ inst'[i] = "released"
               /\ moves = MaxMoves /\ faults = MaxFaults =>
               /\ \A a \in Apps : remote[i][a] = "own" => ~Present(api[a])
               /\ \A p \in Policies : remote[i][p] = "own"
                     => ~Present(api[p]) \/ ~Present(api[AppOf[p]])]_vars
    <2> SUFFICES ASSUME Typed, UnmovedSettling, Next, NEW i \in Instances,
                        inst[i] = "deleting", inst'[i] = "released",
                        moves = MaxMoves, faults = MaxFaults
                 PROVE  /\ \A a \in Apps : remote[i][a] = "own" => ~Present(api[a])
                        /\ \A p \in Policies : remote[i][p] = "own" => ~Present(api[AppOf[p]])
      OBVIOUS
    <2>1. Stays /\ Settling
      BY DEF UnmovedSettling
    <2>2. inst \in [Instances -> {"absent", "live", "deleting", "released", "gone"}]
      BY DEF Typed, TypeOK
    <2>3. Dependents(i) = {}
      <3>1. ASSUME NEW c \in CRs, CRStep(c) PROVE FALSE
        BY <3>1 DEF CRStep, UserStep, UserCreates, UserDeletes, Deliver, StartStep, FetchApp,
                    FetchPolicy, FetchOwner, Cleanup, WorkStep, Call, Publish, DeleteObject,
                    RemoveFinalizer, CallFails
      <3>2. ~Crash /\ \A a \in Apps, ref \in Refs : ~UserMoves(a, ref)
        BY <2>2 DEF Crash, UserMoves
      <3>3. ASSUME NEW j \in Instances, AdminCreates(j) \/ AdminDeletes(j) \/ InstanceGoes(j)
            PROVE  FALSE
        BY <2>2, <3>3 DEF AdminCreates, AdminDeletes, InstanceGoes
      <3>4. PICK j \in Instances : ReleaseInstance(j)
        BY <3>1, <3>2, <3>3 DEF Next, CRStep
      <3>5. i = j
        BY <2>2, <3>4 DEF ReleaseInstance
      <3>6. QED BY <3>4, <3>5 DEF ReleaseInstance
    <2>4. ASSUME NEW a \in Apps, remote[i][a] = "own" PROVE ~Present(api[a])
      BY <2>1, <2>3, <2>4, FoundDependent
    <2>5. ASSUME NEW p \in Policies, remote[i][p] = "own" PROVE ~Present(api[AppOf[p]])
      <3>1. AppOf[p] \in Apps /\ LivesOn(p, i)
        BY <2>1, <2>5, CRsAssumption DEF Settling, BindingHomed
      <3>2. QED BY <2>1, <2>3, <3>1, FoundDependent DEF LivesOn, Present
    <2>6. QED BY <2>4, <2>5
  <1>2. QED BY <1>1, InitTyped, NextTyped, InitSettling, NextUnmovedSettling, PTL
        DEF Spec, ReleasedWhenUnused
=============================================================================
