---------------------------- MODULE RemoteObject ----------------------------
(***************************************************************************)
(* The reconcile loop of the kinds whose CR stands for ONE Authentik       *)
(* object: AuthentikGroup, AuthentikUser, AuthentikOutpost, AuthentikFlow  *)
(* and AuthentikScopeMapping                                               *)
(* (crates/adapters-inbound/src/controller/{group,user,outpost,flow,       *)
(* scope_mapping}.rs, their use cases in crates/application and their      *)
(* gateway halves in crates/adapters-outbound/src/authentik_http).         *)
(*                                                                         *)
(* Three parties share the state.  The Kubernetes API server holds the CR; *)
(* the operator sees it through a watch cache that lags behind, and reads  *)
(* it again (controller::current) at the start of an apply; Authentik      *)
(* holds the remote objects, which people and other CRs change too.  A     *)
(* reconcile is the sequence of its await points: every other party may    *)
(* move between two of them.                                               *)
(*                                                                         *)
(* Abstractions: a spec is its generation and the unique name (a flow's    *)
(* slug) it asks for; the other fields are one body, the generation they   *)
(* were written from (0 when a person wrote them).  Resolving a parent     *)
(* group and building the gateway can fail, and only that is kept of them. *)
(* A CR name is used once.                                                 *)
(***************************************************************************)
EXTENDS Naturals, Sequences

CONSTANTS
    CRs,        \* the CRs of this kind
    Names,      \* what Authentik keeps unique: group name, flow slug...
    Kind,       \* the kind they are of
    MaxGen,     \* bound: generations of a CR's spec
    MaxUid,     \* bound: Authentik objects ever created
    MaxLag,     \* bound: CR versions the watch has not delivered
    MaxFaults,  \* bound: failed calls, lost replies and operator crashes
    MaxHuman,   \* bound: changes people make in Authentik's own UI
    NoId        \* status.authentikId unset

Kinds == {"group", "user", "outpost", "flow", "scope_mapping"}

ASSUME BoundsAssumption ==
    /\ MaxGen \in Nat \ {0} /\ MaxUid \in Nat /\ MaxLag \in Nat \ {0}
    /\ MaxFaults \in Nat /\ MaxHuman \in Nat
ASSUME KindAssumption == Kind \in Kinds

\* Flows are addressed by slug, every other kind by primary key.
SlugKeyed == Kind = "flow"

Uids    == 1..MaxUid
Ids     == IF SlugKeyed THEN Names ELSE Uids
Human   == "human"
Fields  == {"name", "body"}

ASSUME NameAssumption == Names # {} /\ NoId \notin Names /\ NoId \notin Uids
ASSUME OwnerAssumption == Human \notin CRs

Version ==  \* one version of a CR at the API server
    [phase    : {"absent", "live", "deleting", "gone"},
     paused   : BOOLEAN,                \* annotation import-pending
     orphan   : BOOLEAN,                \* annotation force-orphan
     fin      : BOOLEAN,                \* the operator's finalizer
     gen      : 0..MaxGen,
     name     : Names,
     id       : Ids \cup {NoId},        \* status.authentikId
     observed : 0..MaxGen,              \* status.observedGeneration
     ready    : {"none", "synced", "failed"}]

Steps == {"idle", "fetched", "retrieved", "recreate", "synced", "failed", "cleaned"}

Work ==  \* what one reconcile carries across its await points
    [gen  : 0..MaxGen, name : Names,    \* the spec it applies
     id   : Ids \cup {NoId},            \* authentikId as read
     rgen : 0..MaxGen,                  \* generation as read, published
     drift: SUBSET Fields,              \* fields the PATCH carries
     out  : Ids \cup {NoId}]            \* authentikId of the outcome

Object == [owner : CRs \cup {Human}, name : Names, body : 0..MaxGen, live : BOOLEAN]

VARIABLES
    api,      \* api[c]: CR c at the API server
    cache,    \* cache[c]: CR c in the operator's watch store
    pending,  \* pending[c]: versions of c written but not delivered yet
    due,      \* the CRs a reconcile is scheduled for
    pc, loc,  \* the reconcile of c under way
    made,     \* Authentik objects created so far: their uids are 1..made
    objs,     \* objs[u]: the Authentik object of uid u
    seeds,    \* seeds[c]: the id the importer adopts for c, NoId for none
    faults, human  \* what is left of the two budgets

vars == <<api, cache, pending, due, pc, loc, made, objs, seeds, faults, human>>

-----------------------------------------------------------------------------
Blank == [phase |-> "absent", paused |-> FALSE, orphan |-> FALSE, fin |-> FALSE,
          gen |-> 0, name |-> CHOOSE n \in Names : TRUE, id |-> NoId,
          observed |-> 0, ready |-> "none"]
NoWork == [gen |-> 0, name |-> CHOOSE n \in Names : TRUE, id |-> NoId, rgen |-> 0,
           drift |-> {}, out |-> NoId]
NoObject == [owner |-> Human, name |-> CHOOSE n \in Names : TRUE, body |-> 0,
             live |-> FALSE]

Present(v) == v.phase \in {"live", "deleting"}

\* The id an object answers to, and the objects an id designates right now.
IdOf(u)  == IF SlugKeyed THEN objs[u].name ELSE u
At(id)   == {u \in 1..made : objs[u].live /\ IdOf(u) = id}
Taken(n) == \E u \in 1..made : objs[u].live /\ objs[u].name = n

\* Every write to a CR is a version the watch still has to deliver.
Write(c, v) ==
    /\ api' = [api EXCEPT ![c] = v]
    /\ pending' = IF v = api[c] THEN pending
                  ELSE [pending EXCEPT ![c] = Append(@, v)]
HasRoom(c) == Len(pending[c]) < MaxLag

Goto(c, step, work) ==
    /\ pc' = [pc EXCEPT ![c] = step]
    /\ loc' = [loc EXCEPT ![c] = work]

Init ==
    /\ api = [c \in CRs |-> Blank]
    /\ cache = [c \in CRs |-> Blank]
    /\ pending = [c \in CRs |-> <<>>]
    /\ due = {}
    /\ pc = [c \in CRs |-> "idle"]
    /\ loc = [c \in CRs |-> NoWork]
    /\ made = 0
    /\ objs = [u \in Uids |-> NoObject]
    /\ seeds = [c \in CRs |-> NoId]
    /\ faults = MaxFaults
    /\ human = MaxHuman

-----------------------------------------------------------------------------
(* The people who own the CRs.                                             *)

UserCreates(c, n) ==
    /\ api[c].phase = "absent"
    /\ HasRoom(c)
    /\ Write(c, [Blank EXCEPT !.phase = "live", !.gen = 1, !.name = n])
    /\ UNCHANGED <<cache, due, pc, loc, made, objs, seeds, faults, human>>

UserEdits(c, n) ==
    /\ api[c].phase = "live"
    /\ api[c].gen < MaxGen
    /\ HasRoom(c)
    /\ Write(c, [api[c] EXCEPT !.gen = @ + 1, !.name = n])
    /\ UNCHANGED <<cache, due, pc, loc, made, objs, seeds, faults, human>>

\* A CR with the finalizer only gets a deletionTimestamp.
UserDeletes(c) ==
    /\ api[c].phase = "live"
    /\ HasRoom(c)
    /\ Write(c, [api[c] EXCEPT !.phase = IF api[c].fin THEN "deleting" ELSE "gone"])
    /\ UNCHANGED <<cache, due, pc, loc, made, objs, seeds, faults, human>>

UserOrphans(c) ==
    /\ api[c].phase = "deleting"
    /\ HasRoom(c)
    /\ Write(c, [api[c] EXCEPT !.orphan = TRUE])
    /\ UNCHANGED <<cache, due, pc, loc, made, objs, seeds, faults, human>>

-----------------------------------------------------------------------------
(* `importer --apply`: create the CR paused, seed its status, release it.  *)

ImportCreates(c, u) ==
    /\ api[c].phase = "absent"
    /\ objs[u].live /\ objs[u].owner = Human
    /\ \A d \in CRs : seeds[d] # IdOf(u)
    /\ HasRoom(c)
    /\ seeds' = [seeds EXCEPT ![c] = IdOf(u)]
    /\ Write(c, [Blank EXCEPT !.phase = "live", !.paused = TRUE, !.gen = 1,
                              !.name = objs[u].name])
    /\ UNCHANGED <<cache, due, pc, loc, made, objs, faults, human>>

\* The id is the one the import read: what a person made there is now the CR's.
ImportSeeds(c) ==
    /\ api[c].phase = "live" /\ api[c].paused /\ api[c].id = NoId
    /\ HasRoom(c)
    /\ Write(c, [api[c] EXCEPT !.id = seeds[c]])
    /\ objs' = [u \in Uids |->
                  IF u \in At(seeds[c]) /\ objs[u].owner = Human
                  THEN [objs[u] EXCEPT !.owner = c] ELSE objs[u]]
    /\ UNCHANGED <<cache, due, pc, loc, made, seeds, faults, human>>

ImportReleases(c) ==
    /\ api[c].phase = "live" /\ api[c].paused /\ api[c].id # NoId
    /\ HasRoom(c)
    /\ Write(c, [api[c] EXCEPT !.paused = FALSE])
    /\ UNCHANGED <<cache, due, pc, loc, made, objs, seeds, faults, human>>

-----------------------------------------------------------------------------
(* People working in Authentik itself.                                     *)

HumanCreates(n) ==
    /\ human > 0 /\ made < MaxUid /\ ~Taken(n)
    /\ made' = made + 1
    /\ objs' = [objs EXCEPT ![made + 1] =
                    [owner |-> Human, name |-> n, body |-> 0, live |-> TRUE]]
    /\ human' = human - 1
    /\ UNCHANGED <<api, cache, pending, due, pc, loc, seeds, faults>>

HumanEdits(u, n) ==
    /\ human > 0 /\ objs[u].live
    /\ n = objs[u].name \/ ~Taken(n)
    /\ objs' = [objs EXCEPT ![u].name = n, ![u].body = 0]
    /\ human' = human - 1
    /\ UNCHANGED <<api, cache, pending, due, pc, loc, made, seeds, faults>>

HumanDeletes(u) ==
    /\ human > 0 /\ objs[u].live
    /\ objs' = [objs EXCEPT ![u].live = FALSE]
    /\ human' = human - 1
    /\ UNCHANGED <<api, cache, pending, due, pc, loc, made, seeds, faults>>

-----------------------------------------------------------------------------
(* The operator.  The kube runtime's scheduler runs one reconcile per CR   *)
(* at a time, each handed the watch cache's copy of the CR: one is due     *)
(* when the watch delivers a version (meanwhile included), and again after *)
(* every outcome but a finished cleanup (requeue_after, error_policy).     *)

Deliver(c) ==
    /\ pending[c] # <<>>
    /\ cache' = [cache EXCEPT ![c] = Head(pending[c])]
    /\ pending' = [pending EXCEPT ![c] = Tail(@)]
    /\ due' = IF Present(Head(pending[c])) THEN due \cup {c} ELSE due
    /\ UNCHANGED <<api, pc, loc, made, objs, seeds, faults, human>>

\* reconcile(): left alone while paused by the importer.
Reconcilable(c) ==
    /\ pc[c] = "idle" /\ c \in due
    /\ Present(cache[c])
    /\ cache[c].paused => cache[c].phase = "deleting"

\* finalizer(): the first pass only adds it, and waits for that version; the patch
\* tests that it is absent.
AddFinalizer(c) ==
    /\ Reconcilable(c)
    /\ cache[c].phase = "live" /\ ~cache[c].fin
    /\ Present(api[c]) /\ ~api[c].fin
    /\ HasRoom(c)
    /\ Write(c, [api[c] EXCEPT !.fin = TRUE])
    /\ due' = due \ {c}
    /\ UNCHANGED <<cache, pc, loc, made, objs, seeds, faults, human>>

\* Mutant of UserSpec: the watch cache's copy.
UserSpecCached(c) == cache[c]

\* apply(): the copy of the spec the use case is given, the one just read or the
\* watch cache's, kind by kind.
GroupSpec(c)        == cache[c]
UserSpec(c)         == api[c]
OutpostSpec(c)      == api[c]
FlowSpec(c)         == cache[c]
ScopeMappingSpec(c) == cache[c]
AppliedSpec(c) ==
    CASE Kind = "group"         -> GroupSpec(c)
      [] Kind = "user"          -> UserSpec(c)
      [] Kind = "outpost"       -> OutpostSpec(c)
      [] Kind = "flow"          -> FlowSpec(c)
      [] Kind = "scope_mapping" -> ScopeMappingSpec(c)

\* Mutant of Fetch: the recorded id comes from the watch cache too.
FetchCachedId(c) ==
    /\ Reconcilable(c)
    /\ cache[c].phase = "live" /\ cache[c].fin
    /\ Present(api[c])
    /\ Goto(c, "fetched", [gen |-> AppliedSpec(c).gen, name |-> AppliedSpec(c).name,
                           id |-> cache[c].id, rgen |-> api[c].gen,
                           drift |-> {}, out |-> NoId])
    /\ due' = due \ {c}
    /\ UNCHANGED <<api, cache, pending, made, objs, seeds, faults, human>>

\* current() reads the CR again: its status and generation are always fresh.
Fetch(c) ==
    /\ Reconcilable(c)
    /\ cache[c].phase = "live" /\ cache[c].fin
    /\ Present(api[c])
    /\ Goto(c, "fetched", [gen |-> AppliedSpec(c).gen, name |-> AppliedSpec(c).name,
                           id |-> api[c].id, rgen |-> api[c].gen,
                           drift |-> {}, out |-> NoId])
    /\ due' = due \ {c}
    /\ UNCHANGED <<api, cache, pending, made, objs, seeds, faults, human>>

\* What a PATCH of the object u would have to carry.
DriftOf(c, u) == {f \in Fields : IF f = "name" THEN objs[u].name # loc[c].name
                                               ELSE objs[u].body # loc[c].gen}

\* The id the outcome records: a flow follows the slug it was patched to.
OutId(c) == IF SlugKeyed THEN loc[c].name ELSE loc[c].id

\* Mutant of Retrieve: an object gone from Authentik is an error, not recreated.
RetrieveGoneFails(c) ==
    /\ pc[c] = "fetched" /\ loc[c].id # NoId
    /\ \/ /\ At(loc[c].id) = {}
          /\ Goto(c, "failed", loc[c])
       \/ \E u \in At(loc[c].id) :
             IF DriftOf(c, u) = {}
             THEN Goto(c, "synced", [loc[c] EXCEPT !.out = OutId(c)])
             ELSE Goto(c, "retrieved", [loc[c] EXCEPT !.drift = DriftOf(c, u)])
    /\ UNCHANGED <<api, cache, pending, due, made, objs, seeds, faults, human>>

\* update_*: reads the object; a 404 there is Gone, in sync is no write.
Retrieve(c) ==
    /\ pc[c] = "fetched" /\ loc[c].id # NoId
    /\ \/ /\ At(loc[c].id) = {}
          /\ Goto(c, "recreate", loc[c])
       \/ \E u \in At(loc[c].id) :
             IF DriftOf(c, u) = {}
             THEN Goto(c, "synced", [loc[c] EXCEPT !.out = OutId(c)])
             ELSE Goto(c, "retrieved", [loc[c] EXCEPT !.drift = DriftOf(c, u)])
    /\ UNCHANGED <<api, cache, pending, due, made, objs, seeds, faults, human>>

\* The PATCH: only the drifted fields; a name taken by another is refused.
Patched(c, u) == [objs[u] EXCEPT
    !.name = IF "name" \in loc[c].drift THEN loc[c].name ELSE @,
    !.body = IF "body" \in loc[c].drift THEN loc[c].gen ELSE @]

PatchRefused(c, u) ==
    "name" \in loc[c].drift /\ objs[u].name # loc[c].name /\ Taken(loc[c].name)

Patch(c) ==
    /\ pc[c] = "retrieved"
    /\ \/ /\ At(loc[c].id) = {}
          /\ Goto(c, "recreate", loc[c])
          /\ UNCHANGED objs
       \/ \E u \in At(loc[c].id) :
             IF PatchRefused(c, u)
             THEN Goto(c, "failed", loc[c]) /\ UNCHANGED objs
             ELSE /\ objs' = [objs EXCEPT ![u] = Patched(c, u)]
                  /\ Goto(c, "synced", [loc[c] EXCEPT !.out = OutId(c)])
    /\ UNCHANGED <<api, cache, pending, due, made, seeds, faults, human>>

\* create_*: attempted without looking first; nothing recorded, or Gone.
Creating(c) == pc[c] = "recreate" \/ (pc[c] = "fetched" /\ loc[c].id = NoId)

\* Mutant of NewObject: written one generation ahead.
NewObjectAhead(c) ==
    [owner |-> c, name |-> loc[c].name, body |-> loc[c].gen + 1, live |-> TRUE]

\* Mutant of Create: an object found under the name is adopted.
CreateAdopts(c) ==
    /\ Creating(c)
    /\ \/ \E u \in 1..made :
             /\ objs[u].live /\ objs[u].name = loc[c].name
             /\ objs' = [objs EXCEPT ![u].body = loc[c].gen]
             /\ Goto(c, "synced", [loc[c] EXCEPT !.out = IdOf(u)])
             /\ UNCHANGED made
       \/ /\ ~Taken(loc[c].name) /\ made < MaxUid
          /\ made' = made + 1
          /\ objs' = [objs EXCEPT ![made + 1] =
                 [owner |-> c, name |-> loc[c].name, body |-> loc[c].gen, live |-> TRUE]]
          /\ Goto(c, "synced", [loc[c] EXCEPT
                 !.out = IF SlugKeyed THEN loc[c].name ELSE made + 1])
    /\ UNCHANGED <<api, cache, pending, due, seeds, faults, human>>

NewObject(c) == [owner |-> c, name |-> loc[c].name, body |-> loc[c].gen, live |-> TRUE]

Create(c) ==
    /\ Creating(c)
    /\ \/ /\ Taken(loc[c].name)   \* AuthentikObjectAlreadyExists
          /\ Goto(c, "failed", loc[c])
          /\ UNCHANGED <<made, objs>>
       \/ /\ ~Taken(loc[c].name) /\ made < MaxUid
          /\ made' = made + 1
          /\ objs' = [objs EXCEPT ![made + 1] = NewObject(c)]
          /\ Goto(c, "synced", [loc[c] EXCEPT
                 !.out = IF SlugKeyed THEN loc[c].name ELSE made + 1])
    /\ UNCHANGED <<api, cache, pending, due, seeds, faults, human>>

\* patch_reconcile_outcome: success records the id and the generation read;
\* requeue_after has every outcome looked at again, sooner or later.
Publish(c) ==
    /\ pc[c] \in {"synced", "failed"}
    /\ IF ~Present(api[c])
       THEN UNCHANGED <<api, pending>>
       ELSE /\ HasRoom(c)
            /\ Write(c, IF pc[c] = "synced"
                        THEN [api[c] EXCEPT !.id = loc[c].out, !.ready = "synced",
                                            !.observed = loc[c].rgen]
                        ELSE [api[c] EXCEPT !.ready = "failed"])
    /\ Goto(c, "idle", NoWork)
    /\ due' = due \cup {c}
    /\ UNCHANGED <<cache, made, objs, seeds, faults, human>>

\* Mutant of Cleanup: a 404 fails it.
CleanupNeedsObject(c) ==
    /\ Reconcilable(c)
    /\ cache[c].phase = "deleting" /\ cache[c].fin
    /\ LET id == IF cache[c].orphan THEN NoId ELSE cache[c].id IN
       /\ id = NoId \/ At(id) # {}
       /\ objs' = [u \in Uids |-> IF u \in At(id) THEN [objs[u] EXCEPT !.live = FALSE]
                                                ELSE objs[u]]
       /\ Goto(c, "cleaned", [NoWork EXCEPT !.id = id])
    /\ due' = due \ {c}
    /\ UNCHANGED <<api, cache, pending, made, seeds, faults, human>>

\* cleanup(): deletes what the cache's copy records; a 404 counts as done.
\* force-orphan on that copy skips it.
Cleanup(c) ==
    /\ Reconcilable(c)
    /\ cache[c].phase = "deleting" /\ cache[c].fin
    /\ LET id == IF cache[c].orphan THEN NoId ELSE cache[c].id IN
       /\ objs' = [u \in Uids |-> IF u \in At(id) THEN [objs[u] EXCEPT !.live = FALSE]
                                                ELSE objs[u]]
       /\ Goto(c, "cleaned", [NoWork EXCEPT !.id = id])
    /\ due' = due \ {c}
    /\ UNCHANGED <<api, cache, pending, made, seeds, faults, human>>

RemoveFinalizer(c) ==
    /\ pc[c] = "cleaned"
    /\ IF Present(api[c])
       THEN HasRoom(c) /\ Write(c, [api[c] EXCEPT !.fin = FALSE, !.phase = "gone"])
       ELSE UNCHANGED <<api, pending>>
    /\ Goto(c, "idle", NoWork)
    /\ UNCHANGED <<cache, due, made, objs, seeds, faults, human>>

-----------------------------------------------------------------------------
(* Faults, from one budget.                                                *)

Fault == faults > 0 /\ faults' = faults - 1

\* Mutant of CallFails: any error of an update recreates the object.
CallFailsRecreates(c) ==
    /\ Fault
    /\ pc[c] \in {"fetched", "retrieved"}
    /\ Goto(c, "recreate", loc[c])
    /\ UNCHANGED <<api, cache, pending, due, made, objs, seeds, human>>

\* A call fails without effect: no gateway, a reference that does not resolve,
\* Authentik unreachable or refusing.  An apply reports it in the status.
CallFails(c) ==
    /\ Fault
    /\ pc[c] \in {"fetched", "retrieved", "recreate"}
    /\ Goto(c, "failed", loc[c])
    /\ UNCHANGED <<api, cache, pending, due, made, objs, seeds, human>>

\* Authentik does the write but its answer never arrives.
ReplyLost(c) ==
    /\ Fault
    /\ \/ /\ Creating(c) /\ ~Taken(loc[c].name) /\ made < MaxUid
          /\ made' = made + 1
          /\ objs' = [objs EXCEPT ![made + 1] = NewObject(c)]
       \/ /\ pc[c] = "retrieved"
          /\ \E u \in At(loc[c].id) :
                /\ ~PatchRefused(c, u)
                /\ objs' = [objs EXCEPT ![u] = Patched(c, u)]
          /\ UNCHANGED made
    /\ Goto(c, "failed", loc[c])
    /\ UNCHANGED <<api, cache, pending, due, seeds, human>>

\* The status patch, or the removal of the finalizer, does not get through.
WriteBackFails(c) ==
    /\ Fault
    /\ pc[c] \in {"synced", "failed", "cleaned"}
    /\ Goto(c, "idle", NoWork)
    /\ due' = due \cup {c}
    /\ UNCHANGED <<api, cache, pending, made, objs, seeds, human>>

\* The process dies or loses its lease: the next one lists everything first.
Crash ==
    /\ Fault
    /\ cache' = api
    /\ pending' = [c \in CRs |-> <<>>]
    /\ due' = CRs
    /\ pc' = [c \in CRs |-> "idle"]
    /\ loc' = [c \in CRs |-> NoWork]
    /\ UNCHANGED <<api, made, objs, seeds, human>>

-----------------------------------------------------------------------------
UserStep(c) ==
    \/ \E n \in Names : UserCreates(c, n) \/ UserEdits(c, n)
    \/ UserDeletes(c) \/ UserOrphans(c)
ImportStep(c) ==
    \/ \E u \in 1..made : ImportCreates(c, u)
    \/ ImportSeeds(c) \/ ImportReleases(c)
HumanStep ==
    \/ \E n \in Names : HumanCreates(n)
    \/ \E u \in 1..made, n \in Names : HumanEdits(u, n)
    \/ \E u \in 1..made : HumanDeletes(u)
OperatorStep(c) ==
    \/ Deliver(c) \/ AddFinalizer(c) \/ Fetch(c) \/ Retrieve(c) \/ Patch(c)
    \/ Create(c) \/ Publish(c) \/ Cleanup(c) \/ RemoveFinalizer(c)
FaultStep(c) == CallFails(c) \/ ReplyLost(c) \/ WriteBackFails(c)

Next ==
    \/ \E c \in CRs : UserStep(c) \/ ImportStep(c) \/ OperatorStep(c) \/ FaultStep(c)
    \/ HumanStep
    \/ Crash

Spec == Init /\ [][Next]_vars

\* The watch delivers, and the scheduler keeps running reconciles it started or
\* requeued; people, the importer and the faults owe nothing.
Fairness == \A c \in CRs :
    /\ WF_vars(Deliver(c))
    /\ WF_vars(AddFinalizer(c) \/ Fetch(c) \/ Cleanup(c))
    /\ WF_vars(Retrieve(c) \/ Patch(c) \/ Create(c) \/ Publish(c) \/ RemoveFinalizer(c))
FairSpec == Spec /\ Fairness
-----------------------------------------------------------------------------
(* Properties.                                                             *)

\* The values every variable ranges over.
TypeOK ==
    /\ api \in [CRs -> Version]
    /\ cache \in [CRs -> Version]
    /\ pending \in [CRs -> Seq(Version)]
    /\ due \subseteq CRs
    /\ pc \in [CRs -> Steps]
    /\ loc \in [CRs -> Work]
    /\ made \in 0..MaxUid
    /\ objs \in [Uids -> Object]
    /\ seeds \in [CRs -> Ids \cup {NoId}]
    /\ faults \in 0..MaxFaults
    /\ human \in 0..MaxHuman

\* status.authentikId never designates a live object of someone else: the CR
\* created it, or the importer handed it over (api/src/status.rs: "presence means
\* this CR actually owns/created the corresponding Authentik object").
RecordedIsOwned ==
    \A c \in CRs, u \in Uids :
        u \in At(api[c].id) => objs[u].owner = c

\* A reconcile of c never patches or deletes an object of a person or of another
\* CR, whatever crashed, was lost or was renamed under it: a collision is
\* reported, never adopted (ports.rs, create_application's contract).
OnlyOwnObjects ==
    [][\A u \in Uids : objs'[u] # objs[u] /\ pc' # pc =>
          \E c \in CRs :
              /\ pc'[c] # pc[c]
              /\ objs'[u].owner = c
              /\ u <= made => objs[u].owner = c]_vars

\* Until a call is lost, a CR never has two live objects: the status is read
\* again before each create, so a lagging watch never makes a second one
\* (controller/mod.rs, current()).
AtMostOneObject ==
    faults = MaxFaults =>
        \A u, v \in Uids :
            /\ objs[u].live /\ objs[v].live
            /\ objs[u].owner = objs[v].owner /\ objs[u].owner # Human
            => u = v

\* The object a CR records carries the spec of its observedGeneration, or a later
\* one, or a person's edit: what is published as applied was applied.
ObservedIsApplied ==
    \A c \in CRs, u \in Uids :
        /\ Present(api[c]) /\ u \in At(api[c].id) /\ objs[u].owner = c
        => objs[u].body = 0 \/ objs[u].body >= api[c].observed

\* The recorded id only changes when the object it designated is gone: no error
\* but a 404 on its own object makes a CR create another one.
RecordMovesOnlyWhenGone ==
    [][\A c \in CRs :
          /\ api[c].id # NoId /\ api'[c].id # api[c].id
          => ~\E u \in At(api[c].id) : TRUE]_vars

\* A deleted CR leaves no object behind once the operator has seen it go, short of
\* force-orphan and of lost calls
\* (docs: "Deleting a CR deletes its Authentik object first (the finalizer)").
NoOrphan ==
    faults = MaxFaults =>
        \A c \in CRs, u \in Uids :
            /\ cache[c].phase = "gone" /\ ~cache[c].orphan /\ pc[c] = "idle"
            => ~(objs[u].live /\ objs[u].owner = c)

Converged(c) ==
    /\ api[c].ready = "synced" /\ api[c].observed = api[c].gen
    /\ \E u \in At(api[c].id) : objs[u].name = api[c].name /\ objs[u].body = api[c].gen
\* Another object has the name, and the CR says so: somebody else's, unless a call
\* was lost, or a person renamed it, and it is one of its own it does not know of.
Collides(c) ==
    /\ api[c].ready = "failed"
    /\ \E u \in Uids \ At(api[c].id) :
          /\ objs[u].live /\ objs[u].name = api[c].name
          /\ faults = MaxFaults /\ human = MaxHuman => objs[u].owner # c

\* Once people and faults stop, every CR ends up applied, or reporting the
\* collision that keeps it from being.
Converges ==
    \A c \in CRs :
        <>[](api[c].phase = "live" /\ ~api[c].paused => Converged(c) \/ Collides(c))

\* A CR being deleted is eventually gone.
DeletionCompletes ==
    \A c \in CRs : api[c].phase = "deleting" ~> api[c].phase = "gone"
=============================================================================
