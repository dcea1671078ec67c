-------------------------- MODULE InstanceBinding --------------------------
(***************************************************************************)
(* On which Authentik a CR's object lives                                  *)
(* (crates/adapters-inbound/src/controller/mod.rs, app.rs,                 *)
(* access_policy.rs, instance.rs, local_instance.rs and                    *)
(* crates/adapters-outbound/src/gateway_factory.rs).                       *)
(*                                                                         *)
(* An application designates its instance by name, or by name and kind.    *)
(* What that resolves to is recorded in its status and kept.  An access    *)
(* policy lives where its application does.  The cluster-scoped kinds live *)
(* on the only cluster instance, when there is only one.  An instance's    *)
(* finalizer waits until the watch stores show no CR bound to it.          *)
(*                                                                         *)
(* Abstractions: a remote object is there or not, what it holds is         *)
(* RemoteObject's and Application's.  An application is addressed by its   *)
(* slug, the same on every instance, where somebody else may have it.  A   *)
(* binding or a cluster-scoped object is addressed by a key taken to be    *)
(* known only where it was made: a uuid, as of bindings, groups, outposts, *)
(* brands, mappings and blueprints; a user's small number (users.rs:44)    *)
(* and a flow's slug could be somebody else's elsewhere.  Namespaces and   *)
(* access to local instances are the resolver's.  A CR name and an         *)
(* instance are used once.                                                 *)
(***************************************************************************)
EXTENDS Naturals, Sequences, FiniteSets

CONSTANTS
    Instances,   \* the instances there may be: records of a name and a kind
    Apps,        \* AuthentikApplications
    Policies,    \* AuthentikAccessPolicies
    Owners,      \* CRs of the cluster-scoped kinds
    AppOf,       \* AppOf[p]: the application policy p refers to
    FirstRefs,   \* bound: the instanceRefs applications are created with
    Together,    \* bound: the sets of CRs that are created in one behaviour
    MaxLag,      \* bound: CR versions the watch has not delivered
    MaxMoves,    \* bound: edits of an application's instanceRef
    MaxFaults,   \* bound: failed calls, operator crashes, and those edits
    None         \* no instance

Kinds == {"Instance", "LocalInstance"}

ASSUME InstancesAssumption ==
    /\ Instances \subseteq [name : {i.name : i \in Instances}, kind : Kinds]
    /\ IsFiniteSet(Instances) /\ None \notin Instances
ASSUME CRsAssumption ==
    /\ Apps \cap Policies = {} /\ Apps \cap Owners = {} /\ Policies \cap Owners = {}
    /\ AppOf \in [Policies -> Apps]
ASSUME BoundsAssumption ==
    /\ MaxLag \in Nat \ {0}
    /\ MaxMoves \in Nat /\ MaxFaults \in Nat

CRs == Apps \cup Policies \cup Owners
Bound == Instances \cup {None}

Refs ==  \* spec.instanceRef: by name, or pinned by its kind
    [name : {i.name : i \in Instances}, kind : Kinds \cup {"any"}]

ASSUME RefsAssumption == FirstRefs \subseteq Refs

Version ==  \* one version of a CR
    [phase : {"absent", "live", "deleting", "gone"},
     ref : Refs \cup {None},
     instance : Bound,  \* status.instance
     id : Bound]        \* status.authentikId, as the instance it was given on
Work ==  \* what one reconcile carries across its await points
    [bound : Bound, id : Bound]
Steps == {"idle", "call", "synced", "failed", "cleanup", "cleaned"}

VARIABLES
    inst,                 \* the instances
    api, cache, pending,  \* a CR at the API server, in the watch store, on its way
    due, pc, loc,         \* its reconciles: scheduled, under way
    remote,               \* remote[i][c]: who has c's object on Authentik i
    moves, faults         \* what is left of the budgets

vars == <<inst, api, cache, pending, due, pc, loc, remote, moves, faults>>

-----------------------------------------------------------------------------
Blank == [phase |-> "absent", ref |-> None, instance |-> None, id |-> None]
NoWork == [bound |-> None, id |-> None]

Present(v) == v.phase \in {"live", "deleting"}
HasRoom(c) == Len(pending[c]) < MaxLag

Write(c, v) ==
    /\ api' = [api EXCEPT ![c] = v]
    /\ pending' = IF v = api[c] THEN pending
                  ELSE [pending EXCEPT ![c] = Append(@, v)]

Goto(c, step, work) ==
    /\ pc' = [pc EXCEPT ![c] = step]
    /\ loc' = [loc EXCEPT ![c] = work]

Init ==
    /\ inst = [i \in Instances |-> "absent"]
    /\ api = [c \in CRs |-> Blank] /\ cache = api
    /\ pending = [c \in CRs |-> <<>>]
    /\ due = {}
    /\ pc = [c \in CRs |-> "idle"] /\ loc = [c \in CRs |-> NoWork]
    /\ \E i \in Instances : remote = [j \in Instances |-> [c \in CRs |->
            IF c \in Apps /\ j = i THEN "other" ELSE "nobody"]]
    /\ moves = MaxMoves /\ faults = MaxFaults
-----------------------------------------------------------------------------
(* The people who own the instances and the CRs.                           *)

AdminCreates(i) ==
    /\ inst[i] = "absent"
    /\ inst' = [inst EXCEPT ![i] = "live"]
    /\ UNCHANGED <<api, cache, pending, due, pc, loc, remote, moves, faults>>

AdminDeletes(i) ==
    /\ inst[i] = "live"
    /\ inst' = [inst EXCEPT ![i] = "deleting"]
    /\ UNCHANGED <<api, cache, pending, due, pc, loc, remote, moves, faults>>

UserCreates(c, ref) ==
    /\ api[c].phase = "absent"
    /\ \E S \in Together : {d \in CRs : api[d].phase # "absent"} \cup {c} \subseteq S
    /\ c \in Apps <=> ref # None
    /\ Write(c, [Blank EXCEPT !.phase = "live", !.ref = ref])
    /\ UNCHANGED <<inst, cache, due, pc, loc, remote, moves, faults>>

Fault == faults > 0 /\ faults' = faults - 1

UserMoves(a, ref) ==
    /\ Fault
    /\ moves > 0 /\ moves' = moves - 1
    /\ api[a].phase = "live" /\ HasRoom(a) /\ ref # api[a].ref
    /\ Write(a, [api[a] EXCEPT !.ref = ref])
    /\ UNCHANGED <<inst, cache, due, pc, loc, remote>>

UserDeletes(c) ==
    /\ api[c].phase = "live" /\ HasRoom(c)
    /\ Write(c, [api[c] EXCEPT !.phase = "deleting"])
    /\ UNCHANGED <<inst, cache, due, pc, loc, remote, moves, faults>>
-----------------------------------------------------------------------------
(* Which instance.                                                         *)

Deliver(c) ==
    /\ pending[c] # <<>>
    /\ cache' = [cache EXCEPT ![c] = Head(pending[c])]
    /\ pending' = [pending EXCEPT ![c] = Tail(@)]
    /\ due' = IF Present(Head(pending[c])) THEN due \cup {c} ELSE due
    /\ UNCHANGED <<inst, api, pc, loc, remote, moves, faults>>

\* The instances there are, deleted ones included until they are gone.  The store may be
\* late to know of one that comes or goes: as if it had come or gone later.
There == {i \in Instances : inst[i] \in {"live", "deleting", "released"}}
ClusterThere == {i \in There : i.kind = "Instance"}

\* The kit's rules: a name designates the cluster instance before the local one; what
\* is recorded is only left for an instance pinned by its kind.
Matches(ref, i) == ref.name = i.name /\ ref.kind \in {"any", i.kind}
Designated(ref) ==
    LET found == {i \in There : Matches(ref, i)}
        cluster == {i \in found : i.kind = "Instance"}
    IN IF found = {} THEN None
       ELSE CHOOSE i \in found : cluster # {} => i \in cluster
Resolve(ref, recorded) ==
    IF recorded # None /\ ref.kind = "any" /\ Designated(ref) # recorded
    THEN None ELSE Designated(ref)

\* A bug: what the status records is not looked at.
ApplicationInstanceNow(a) == Resolve(api[a].ref, None)

\* application_instance.
ApplicationInstance(a) == Resolve(api[a].ref, api[a].instance)

\* A bug: the policy's instance is what its application's instanceRef leads to.
PolicyInstanceResolved(p) ==
    IF Present(api[AppOf[p]]) THEN Resolve(api[AppOf[p]].ref, None) ELSE None

\* The policy's: the one its application records, or would be resolved to.
PolicyInstance(p) ==
    LET a == AppOf[p]
    IN IF ~Present(api[a]) THEN None
       ELSE IF api[a].instance # None THEN api[a].instance ELSE ApplicationInstance(a)

\* default_gateway: the only cluster instance.
DefaultInstance ==
    IF Cardinality(ClusterThere) = 1 THEN CHOOSE i \in ClusterThere : TRUE ELSE None
-----------------------------------------------------------------------------
(* One reconcile.                                                          *)

Reconcilable(c) == pc[c] = "idle" /\ c \in due

\* The CR, and the application of a policy, are read from the API server, instances
\* from the store.  What is resolved is recorded whatever comes of it.
FetchApp(a) ==
    /\ Reconcilable(a) /\ cache[a].phase = "live" /\ Present(api[a])
    /\ LET bound == ApplicationInstance(a)
       IN Goto(a, IF bound = None THEN "failed" ELSE "call",
               [bound |-> bound, id |-> api[a].id])
    /\ UNCHANGED <<inst, api, cache, pending, due, remote, moves, faults>>

FetchPolicy(p) ==
    /\ Reconcilable(p) /\ cache[p].phase = "live" /\ Present(api[p])
    /\ LET bound == PolicyInstance(p)
       IN Goto(p, IF bound \in There /\ api[AppOf[p]].id # None THEN "call" ELSE "failed",
               [bound |-> bound, id |-> api[p].id])
    /\ UNCHANGED <<inst, api, cache, pending, due, remote, moves, faults>>

FetchOwner(o) ==
    /\ Reconcilable(o) /\ cache[o].phase = "live" /\ Present(api[o])
    /\ Goto(o, IF DefaultInstance = None THEN "failed" ELSE "call",
            [bound |-> DefaultInstance, id |-> api[o].id])
    /\ UNCHANGED <<inst, api, cache, pending, due, remote, moves, faults>>

\* The object is updated: an application by its slug, whoever has it; else by its key.
Updates(c) ==
    LET there == remote[loc[c].bound][c]
    IN IF c \in Apps THEN loc[c].id # None /\ there # "nobody"
       ELSE loc[c].id = loc[c].bound /\ there = "own"
\* Gone, or never there: it is created, unless it collides.
Creates(c) ==
    LET there == remote[loc[c].bound][c]
    IN ~Updates(c) /\ (c \notin Policies => there = "nobody")
\* A policy binds to the application its instance has under the slug.
TargetThere(c) == c \in Policies => remote[loc[c].bound][AppOf[c]] # "nobody"

Call(c) ==
    /\ pc[c] = "call"
    /\ IF TargetThere(c) /\ (Updates(c) \/ Creates(c))
       THEN /\ remote' = [remote EXCEPT ![loc[c].bound][c] = "own"]
            /\ Goto(c, "synced", [loc[c] EXCEPT !.id = loc[c].bound])
       ELSE Goto(c, "failed", loc[c]) /\ UNCHANGED remote
    /\ UNCHANGED <<inst, api, cache, pending, due, moves, faults>>

\* A bug: a policy whose application is not there yet waits for a change of its own.
RequeuedUnlessUnbound(c) == IF c \in Policies /\ pc[c] = "failed" THEN due \ {c} ELSE due

\* requeue_after: sooner or later, but always.
Requeued(c) == due \cup {c}

\* A bug: a refused resolution erases what was recorded.
RecordedAsResolved(c) == IF c \in Owners THEN None ELSE loc[c].bound

\* status.instance: what was resolved, or as it was; cluster-scoped kinds have none.
RecordedInstance(c) ==
    IF c \in Owners \/ loc[c].bound = None THEN api[c].instance ELSE loc[c].bound

Publish(c) ==
    /\ pc[c] \in {"synced", "failed"}
    /\ IF Present(api[c])
       THEN LET v == [api[c] EXCEPT !.instance = RecordedInstance(c),
                                    !.id = IF pc[c] = "synced" THEN loc[c].id ELSE @]
            IN /\ HasRoom(c) \/ v = api[c]
               /\ Write(c, v)
       ELSE UNCHANGED <<api, pending>>
    /\ due' = Requeued(c)
    /\ Goto(c, "idle", NoWork)
    /\ UNCHANGED <<inst, cache, remote, moves, faults>>

\* A bug: the cleanup goes where the instanceRef leads now.
CleanupInstanceNow(c) ==
    IF c \in Apps THEN Designated(cache[c].ref)
    ELSE IF c \in Policies THEN PolicyInstance(c) ELSE DefaultInstance

\* The cleanup: the store's copy of the status says what to delete, and where; one that
\* does not (of an earlier release) leaves the same rules as before to tell.
CleanupInstance(c) ==
    IF c \in Owners THEN DefaultInstance
    ELSE IF cache[c].instance # None THEN cache[c].instance
    ELSE IF c \in Apps THEN Designated(cache[c].ref)
    ELSE IF Present(api[AppOf[c]]) THEN PolicyInstance(c) ELSE DefaultInstance

Cleanup(c) ==
    /\ Reconcilable(c) /\ cache[c].phase = "deleting"
    /\ IF cache[c].id = None THEN Goto(c, "cleaned", NoWork)
       ELSE /\ CleanupInstance(c) \in There
            /\ Goto(c, "cleanup", [bound |-> CleanupInstance(c), id |-> cache[c].id])
    /\ UNCHANGED <<inst, api, cache, pending, due, remote, moves, faults>>

\* What is not there counts as deleted.  Bindings go with their application.
Deletes(c) == {c} \cup {p \in Policies : AppOf[p] = c}

DeleteObject(c) ==
    /\ pc[c] = "cleanup"
    /\ remote' = IF c \in Apps \/ loc[c].id = loc[c].bound
                 THEN [remote EXCEPT ![loc[c].bound] =
                          [d \in CRs |-> IF d \in Deletes(c) THEN "nobody" ELSE @[d]]]
                 ELSE remote
    /\ Goto(c, "cleaned", loc[c])
    /\ UNCHANGED <<inst, api, cache, pending, due, moves, faults>>

RemoveFinalizer(c) ==
    /\ pc[c] = "cleaned"
    /\ IF Present(api[c])
       THEN /\ HasRoom(c)
            /\ Write(c, [Blank EXCEPT !.phase = "gone"])
       ELSE UNCHANGED <<api, pending>>
    /\ due' = due \ {c}
    /\ Goto(c, "idle", NoWork)
    /\ UNCHANGED <<inst, cache, remote, moves, faults>>
-----------------------------------------------------------------------------
(* The deletion of an instance.                                            *)

\* A bug: an application not resolved yet is not counted.
BoundToRecorded(a, i) == cache[a].instance = i

\* application_bound_to: as recorded, or else as its instanceRef may be resolved.
BoundTo(a, i) ==
    IF cache[a].instance # None THEN cache[a].instance = i ELSE Matches(cache[a].ref, i)

\* instance_dependents, on the stores.
Dependents(i) ==
    {c \in CRs :
        /\ Present(cache[c])
        /\ \/ c \in Apps /\ BoundTo(c, i)
           \/ c \in Policies /\ cache[c].instance = i
           \/ c \in Owners /\ ClusterThere = {i} /\ cache[c].id # None}

\* release_instance; InstanceInUse is retried.
ReleaseInstance(i) ==
    /\ inst[i] = "deleting"
    /\ Dependents(i) = {}
    /\ inst' = [inst EXCEPT ![i] = "released"]
    /\ UNCHANGED <<api, cache, pending, due, pc, loc, remote, moves, faults>>

\* The finalizer goes, and the instance with it.
InstanceGoes(i) ==
    /\ inst[i] = "released"
    /\ inst' = [inst EXCEPT ![i] = "gone"]
    /\ UNCHANGED <<api, cache, pending, due, pc, loc, remote, moves, faults>>
-----------------------------------------------------------------------------
(* Faults.                                                                 *)

\* Of a token read, of Authentik, or of the status patch, which no failure gets past.
CallFails(c) ==
    /\ Fault
    /\ \/ pc[c] = "call" /\ Goto(c, "failed", loc[c])
       \/ pc[c] \in {"synced", "cleanup", "cleaned"} /\ Goto(c, "idle", NoWork)
    /\ UNCHANGED <<inst, api, cache, pending, due, remote, moves>>

Crash ==
    /\ Fault
    /\ inst' = [i \in Instances |-> IF inst[i] = "released" THEN "deleting" ELSE inst[i]]
    /\ cache' = api /\ pending' = [c \in CRs |-> <<>>]
    /\ due' = CRs
    /\ pc' = [c \in CRs |-> "idle"] /\ loc' = [c \in CRs |-> NoWork]
    /\ UNCHANGED <<api, remote, moves>>
-----------------------------------------------------------------------------
UserStep(c) ==
    \/ \E ref \in FirstRefs \cup {None} : UserCreates(c, ref)
    \/ UserDeletes(c)
StartStep(c) ==
    \/ c \in Apps /\ FetchApp(c)
    \/ c \in Policies /\ FetchPolicy(c)
    \/ c \in Owners /\ FetchOwner(c)
    \/ Cleanup(c)
WorkStep(c) == Call(c) \/ Publish(c) \/ DeleteObject(c) \/ RemoveFinalizer(c)

Next ==
    \/ \E c \in CRs : \/ UserStep(c) \/ Deliver(c) \/ StartStep(c)
                      \/ WorkStep(c) \/ CallFails(c)
    \/ \E a \in Apps, ref \in Refs : UserMoves(a, ref)
    \/ \E i \in Instances : AdminCreates(i) \/ AdminDeletes(i)
                               \/ ReleaseInstance(i) \/ InstanceGoes(i)
    \/ Crash

Spec == Init /\ [][Next]_vars

\* The watch delivers, a due reconcile is started and takes its next step (the two are
\* never enabled together), and so for the deletion of an instance.
Fairness ==
    /\ \A c \in CRs : WF_vars(Deliver(c)) /\ WF_vars(StartStep(c) \/ WorkStep(c))
    /\ \A i \in Instances : WF_vars(ReleaseInstance(i) \/ InstanceGoes(i))
FairSpec == Spec /\ Fairness
-----------------------------------------------------------------------------
(* Properties.                                                             *)

\* The values every variable ranges over; an id is recorded with its instance, but for
\* the cluster-scoped kinds, which record none.
TypeOK ==
    /\ \A c \in CRs \ Owners : api[c].id # None => api[c].instance # None
    /\ \A o \in Owners : api[o].instance = None
    /\ inst \in [Instances -> {"absent", "live", "deleting", "released", "gone"}]
    /\ api \in [CRs -> Version] /\ cache \in [CRs -> Version]
    /\ pending \in [CRs -> Seq(Version)]
    /\ due \subseteq CRs
    /\ pc \in [CRs -> Steps] /\ loc \in [CRs -> Work]
    /\ remote \in [Instances -> [CRs -> {"nobody", "own", "other"}]]
    /\ moves \in 0..MaxMoves /\ faults \in 0..MaxFaults

\* Until a user edits an instanceRef, whatever has an application's slug on another
\* Authentik than its own is left alone: its applies and its cleanup go where it was made,
\* whichever instances of that name are created, deleted or found meanwhile.
OwnUntilMoved ==
    [][\A i \in Instances, c \in CRs : moves = MaxMoves /\ remote[i][c] = "other"
          => remote'[i][c] = "other"]_vars

\* Until then too, the binding a policy records was made on the instance it records:
\* that is where its cleanup deletes it, taking a binding it does not find for deleted.
RecordedWhereMade ==
    moves = MaxMoves => \A p \in Policies :
        api[p].id \in {None, api[p].instance}

\* When the release of an instance is granted, no application has its object there,
\* recorded or not (but one whose record was lost, or that was moved), nor has a policy
\* its binding whose application still exists.
ReleasedWhenUnused ==
    [][\A i \in Instances :
          inst[i] = "deleting" /\ inst'[i] = "released"
          /\ moves = MaxMoves /\ faults = MaxFaults =>
          /\ \A a \in Apps : remote[i][a] = "own" => ~Present(api[a])
          /\ \A p \in Policies : remote[i][p] = "own"
                => ~Present(api[p]) \/ ~Present(api[AppOf[p]])]_vars

\* An application that cannot be applied: nothing to resolve it to, or its slug taken
\* (perhaps by its own object, if that could not be recorded).
Refused(a) ==
    \/ ApplicationInstance(a) = None
    \/ api[a].id = None /\ remote[ApplicationInstance(a)][a] # "nobody"

Settled ==
    /\ \A a \in Apps : api[a].phase = "live" =>
          Refused(a) \/ (api[a].id # None /\ api[a].instance = ApplicationInstance(a))
    /\ \A p \in Policies : api[p].phase = "live" =>
          LET a == AppOf[p]
          IN Present(api[a]) /\ api[a].id # None /\ api[a].instance \in There
             => api[p].id = api[a].instance /\ remote[api[p].id][p] = "own"
    /\ \A c \in CRs : api[c].phase = "deleting" =>
          api[c].id # None /\ CleanupInstance(c) \notin There
    /\ \A i \in Instances : inst[i] = "deleting" => Dependents(i) # {}

\* Once people and faults stop, every application is applied where it belongs or
\* refused, every policy is bound on its application's instance though nothing tells
\* it that its application was synced, and every deletion has completed, but for those
\* whose instance is gone or in use.
Settles == <>[]Settled
=============================================================================
