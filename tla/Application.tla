---------------------------- MODULE Application ----------------------------
(***************************************************************************)
(* The reconcile of an AuthentikApplication: one CR that stands for an     *)
(* application, its provider, the provider's credentials and its place in  *)
(* an outpost, written one call at a time                                  *)
(* (crates/adapters-inbound/src/controller/app.rs and                      *)
(* crates/application/src/use_cases/reconcile_application.rs).             *)
(*                                                                         *)
(* Any of those calls can fail, be refused or lose its answer, and the     *)
(* status is written once, at the end, with whatever the reconcile knows   *)
(* to exist by then.  The next attempt, or the cleanup, has nothing but    *)
(* that status to find what earlier ones left in Authentik.                *)
(*                                                                         *)
(* Abstractions: a spec is its slug, its provider kind and whether it      *)
(* allows a disruptive change of kind; spec.name, unique among providers,  *)
(* is the CR's own and never edited.  Fields without a say in the control  *)
(* flow are left out (drift is RemoteObject's), and so reading an object   *)
(* and patching it is one step.  An instance, policy or store refusal is a *)
(* call that fails.  The secret targets of a CR are one, and outposts are  *)
(* one: which is OutpostProviders' subject.  The kinds are oauth2 and      *)
(* proxy: left out are a spec of another kind, which is refused before any *)
(* call, and a provider of a kind the operator never makes, which people   *)
(* may have an application point at and which it replaces, if allowed to,  *)
(* and cleans up around without deleting it.  CRs held by the importer     *)
(* (app.rs:31) and force-orphan are RemoteObject's.  A CR name is used     *)
(* once.                                                                   *)
(***************************************************************************)
EXTENDS Naturals, Sequences

CONSTANTS
    CRs,       \* the AuthentikApplications
    Slugs,     \* what Authentik keeps unique, and addresses applications by
    MaxGen,    \* bound: generations of a CR's spec
    MaxProv,   \* bound: providers ever created
    MaxLag,    \* bound: CR versions the watch has not delivered
    MaxFaults, \* bound: failed calls, lost replies and operator crashes
    MaxHuman,  \* bound: changes people make in Authentik's own UI
    NoId       \* status.authentikId unset

ASSUME BoundsAssumption ==
    /\ MaxGen \in Nat \ {0} /\ MaxProv \in Nat /\ MaxLag \in Nat \ {0}
    /\ MaxFaults \in Nat /\ MaxHuman \in Nat
ASSUME NameAssumption == Slugs # {} /\ NoId \notin Slugs

Kinds    == {"oauth2", "proxy"}
Human    == "human"
ASSUME OwnerAssumption == Human \notin CRs

Pks      == 1..MaxProv
NoPk     == 0

Version ==  \* one version of a CR at the API server
    [phase : {"absent", "live", "deleting", "gone"},
     fin : BOOLEAN, gen : 0..MaxGen,
     slug : Slugs, kind : Kinds, allow : BOOLEAN,  \* allow-disruptive-update
     id : Slugs \cup {NoId},                       \* status.authentikId
     prov : Pks \cup {NoPk},                       \* status.providerId
     observed : 0..MaxGen, ready : {"none", "synced", "failed"}]

Applying == {"fetched", "replace", "provider", "discard", "credentials",
             "application", "attach"}
Cleaning == {"cleanup", "its_provider", "its_record", "its_application",
             "its_credentials"}
Steps == {"idle", "synced", "failed", "cleaned"} \cup Applying \cup Cleaning

Work ==  \* what one reconcile carries across its await points
    [gen : 0..MaxGen, slug : Slugs, kind : Kinds, allow : BOOLEAN,
     id : Slugs \cup {NoId}, prov : Pks \cup {NoPk},  \* what the status records
     app : Slugs \cup {NoId},                         \* the application found
     target : Pks \cup {NoPk},                        \* the provider to deal with
     wprov : Pks \cup {NoPk}, wapp : Slugs \cup {NoId}]  \* Written, so far

Provider == [owner : CRs \cup {Human}, name : CRs \cup {Human}, kind : Kinds,
             attached : BOOLEAN, live : BOOLEAN]
App == [owner : CRs \cup {Human}, prov : Pks \cup {NoPk}, live : BOOLEAN]

VARIABLES
    api, cache, pending,  \* a CR at the API server, in the watch store, on its way
    due, pc, loc,         \* its reconciles: scheduled, under way
    made, provs,          \* providers: pks 1..made exist or existed
    apps,                 \* apps[s]: the application of slug s
    creds,                \* creds[c]: the provider whose credentials c's target holds
    faults, human         \* what is left of the two budgets

authentik == <<made, provs, apps>>
vars == <<api, cache, pending, due, pc, loc, made, provs, apps, creds, faults, human>>

-----------------------------------------------------------------------------
Blank == [phase |-> "absent", fin |-> FALSE, gen |-> 0,
          slug |-> CHOOSE s \in Slugs : TRUE, kind |-> "oauth2", allow |-> FALSE,
          id |-> NoId, prov |-> NoPk, observed |-> 0, ready |-> "none"]
NoWork == [gen |-> 0, slug |-> CHOOSE s \in Slugs : TRUE, kind |-> "oauth2",
           allow |-> FALSE, id |-> NoId, prov |-> NoPk, app |-> NoId,
           target |-> NoPk, wprov |-> NoPk, wapp |-> NoId]
NoProvider == [owner |-> Human, name |-> Human, kind |-> "oauth2",
               attached |-> FALSE, live |-> FALSE]
NoApp == [owner |-> Human, prov |-> NoPk, live |-> FALSE]

Present(v)   == v.phase \in {"live", "deleting"}
Live(p)      == p # NoPk /\ provs[p].live
Found(s)     == s # NoId /\ apps[s].live
\* Provider names are unique; a provider is one application's at most.
NameTaken(c, p) == \E q \in Pks \ {p} : provs[q].live /\ provs[q].name = c
UsedBut(s, p)   == \E t \in Slugs \ {s} : apps[t].live /\ apps[t].prov = p

Write(c, v) ==
    /\ api' = [api EXCEPT ![c] = v]
    /\ pending' = IF v = api[c] THEN pending
                  ELSE [pending EXCEPT ![c] = Append(@, v)]
HasRoom(c) == Len(pending[c]) < MaxLag

Goto(c, step, work) ==
    /\ pc' = [pc EXCEPT ![c] = step]
    /\ loc' = [loc EXCEPT ![c] = work]

Init ==
    /\ api = [c \in CRs |-> Blank] /\ cache = [c \in CRs |-> Blank]
    /\ pending = [c \in CRs |-> <<>>]
    /\ due = {}
    /\ pc = [c \in CRs |-> "idle"] /\ loc = [c \in CRs |-> NoWork]
    /\ made = 0 /\ provs = [p \in Pks |-> NoProvider]
    /\ apps = [s \in Slugs |-> NoApp]
    /\ creds = [c \in CRs |-> NoPk]
    /\ faults = MaxFaults /\ human = MaxHuman
-----------------------------------------------------------------------------
(* The people who own the CRs, and those who work in Authentik itself.     *)

UserCreates(c, s, k) ==
    /\ api[c].phase = "absent" /\ HasRoom(c)
    /\ Write(c, [Blank EXCEPT !.phase = "live", !.gen = 1, !.slug = s, !.kind = k])
    /\ UNCHANGED <<cache, due, pc, loc, authentik, creds, faults, human>>

UserEdits(c, s, k, allow) ==
    /\ api[c].phase = "live" /\ api[c].gen < MaxGen /\ HasRoom(c)
    /\ Write(c, [api[c] EXCEPT !.gen = @ + 1, !.slug = s, !.kind = k, !.allow = allow])
    /\ UNCHANGED <<cache, due, pc, loc, authentik, creds, faults, human>>

UserDeletes(c) ==
    /\ api[c].phase = "live" /\ HasRoom(c)
    /\ Write(c, [api[c] EXCEPT !.phase = IF api[c].fin THEN "deleting" ELSE "gone"])
    /\ UNCHANGED <<cache, due, pc, loc, authentik, creds, faults, human>>

\* An application survives its provider, pointing at none.
WithoutProvider(p) == [s \in Slugs |->
    IF apps[s].prov = p THEN [apps[s] EXCEPT !.prov = NoPk] ELSE apps[s]]

HumanDeletesProvider(p) ==
    /\ human > 0 /\ Live(p)
    /\ provs' = [provs EXCEPT ![p].live = FALSE]
    /\ apps' = WithoutProvider(p)
    /\ human' = human - 1
    /\ UNCHANGED <<api, cache, pending, due, pc, loc, made, creds, faults>>

\* A provider survives its application.
HumanDeletesApp(s) ==
    /\ human > 0 /\ Found(s)
    /\ apps' = [apps EXCEPT ![s] = NoApp]
    /\ human' = human - 1
    /\ UNCHANGED <<api, cache, pending, due, pc, loc, made, provs, creds, faults>>

\* An application of theirs takes a slug, or points an existing one at a provider
\* of theirs.
HumanPoints(s, k) ==
    /\ human > 0 /\ made < MaxProv
    /\ made' = made + 1
    /\ provs' = [provs EXCEPT ![made + 1] =
                    [NoProvider EXCEPT !.kind = k, !.live = TRUE]]
    /\ apps' = [apps EXCEPT ![s].prov = made + 1, ![s].live = TRUE]
    /\ human' = human - 1
    /\ UNCHANGED <<api, cache, pending, due, pc, loc, creds, faults>>
-----------------------------------------------------------------------------
(* The operator: scheduling and the finalizer, as in RemoteObject.         *)

Deliver(c) ==
    /\ pending[c] # <<>>
    /\ cache' = [cache EXCEPT ![c] = Head(pending[c])]
    /\ pending' = [pending EXCEPT ![c] = Tail(@)]
    /\ due' = IF Present(Head(pending[c])) THEN due \cup {c} ELSE due
    /\ UNCHANGED <<api, pc, loc, authentik, creds, faults, human>>

Reconcilable(c) == pc[c] = "idle" /\ c \in due /\ Present(cache[c])

AddFinalizer(c) ==
    /\ Reconcilable(c) /\ cache[c].phase = "live" /\ ~cache[c].fin
    /\ Present(api[c]) /\ ~api[c].fin
    /\ HasRoom(c)
    /\ Write(c, [api[c] EXCEPT !.fin = TRUE])
    /\ due' = due \ {c}
    /\ UNCHANGED <<cache, pc, loc, authentik, creds, faults, human>>

\* apply(): the whole CR is read again, spec included.
Fetch(c) ==
    /\ Reconcilable(c) /\ cache[c].phase = "live" /\ cache[c].fin
    /\ Present(api[c])
    /\ Goto(c, "fetched",
            [NoWork EXCEPT !.gen = api[c].gen, !.slug = api[c].slug, !.kind = api[c].kind,
                           !.allow = api[c].allow, !.id = api[c].id, !.prov = api[c].prov])
    /\ due' = due \ {c}
    /\ UNCHANGED <<api, cache, pending, authentik, creds, faults, human>>
-----------------------------------------------------------------------------
(* The reconcile: the status is all it knows; each step is one call.       *)

\* classify_provider_kind_change: the provider the application found points at is of
\* the other kind.
OtherKind(c) ==
    LET p == apps[loc[c].id].prov IN p # NoPk /\ provs[p].kind # loc[c].kind

\* The provider to patch: the application's, else the recorded one.
ExistingProvider(c) ==
    IF Found(loc[c].id) /\ apps[loc[c].id].prov # NoPk
    THEN apps[loc[c].id].prov ELSE loc[c].prov

\* Bugs these decisions could have: the annotation is not asked for; a recorded
\* application that is gone is an error.
NextUngated(c, found) == IF found /\ OtherKind(c) THEN "replace" ELSE "provider"
NextNeedsApp(c, found) ==
    IF IF found THEN OtherKind(c) ELSE loc[c].id # NoId THEN "failed" ELSE "provider"

AfterGet(c, found) ==
    IF ~found \/ ~OtherKind(c) THEN "provider"
    ELSE IF loc[c].allow THEN "replace" ELSE "failed"

\* get_application, on what is recorded: 404 there means recreating it.
GetApplication(c) ==
    /\ pc[c] = "fetched"
    /\ LET found == Found(loc[c].id) IN
       Goto(c, AfterGet(c, found),
            [loc[c] EXCEPT !.app = IF found THEN loc[c].id ELSE NoId,
                           !.target = ExistingProvider(c)])
    /\ UNCHANGED <<api, cache, pending, due, authentik, creds, faults, human>>

DeletesProvider(p) ==
    /\ provs' = IF p \in Pks THEN [provs EXCEPT ![p].live = FALSE] ELSE provs
    /\ apps' = IF p \in Pks THEN WithoutProvider(p) ELSE apps
    /\ UNCHANGED made

\* An authorized change of kind: the provider of the old kind goes first.
ReplaceProvider(c) ==
    /\ pc[c] = "replace"
    /\ DeletesProvider(loc[c].target)
    /\ Goto(c, "provider", [loc[c] EXCEPT !.target = NoPk])
    /\ UNCHANGED <<api, cache, pending, due, creds, faults, human>>

\* A bug: the application does not wait for the credentials.
AfterProviderAtOnce(c, p) ==
    Goto(c, "application", [loc[c] EXCEPT !.target = p, !.wprov = p])

\* Written.provider is set as soon as the provider exists, the credentials come next.
AfterProvider(c, p) ==
    Goto(c, IF loc[c].kind = "oauth2" THEN "credentials" ELSE "application",
         [loc[c] EXCEPT !.target = p, !.wprov = p])

PatchesProvider(c) ==
    /\ provs' = [provs EXCEPT ![loc[c].target].name = c]
    /\ UNCHANGED <<made, apps>>

\* The kind's own endpoint: a provider that is gone, or of the other kind, is a 404.
PatchProvider(c) ==
    /\ pc[c] = "provider" /\ loc[c].target # NoPk
    /\ \/ /\ ~Live(loc[c].target) \/ provs[loc[c].target].kind # loc[c].kind
          /\ Goto(c, "discard", loc[c])
          /\ UNCHANGED authentik
       \/ /\ Live(loc[c].target) /\ provs[loc[c].target].kind = loc[c].kind
          /\ IF NameTaken(c, loc[c].target)
             THEN Goto(c, "failed", loc[c]) /\ UNCHANGED authentik
             ELSE PatchesProvider(c) /\ AfterProvider(c, loc[c].target)
    /\ UNCHANGED <<api, cache, pending, due, creds, faults, human>>

\* Gone: deleted whatever its kind, then created again.
DiscardProvider(c) ==
    /\ pc[c] = "discard"
    /\ DeletesProvider(loc[c].target)
    /\ Goto(c, "provider", [loc[c] EXCEPT !.target = NoPk])
    /\ UNCHANGED <<api, cache, pending, due, creds, faults, human>>

CreatesProvider(c) ==
    /\ made < MaxProv
    /\ made' = made + 1
    /\ provs' = [provs EXCEPT ![made + 1] =
           [owner |-> c, name |-> c, kind |-> loc[c].kind, attached |-> FALSE, live |-> TRUE]]
    /\ UNCHANGED apps

CreateProvider(c) ==
    /\ pc[c] = "provider" /\ loc[c].target = NoPk
    /\ IF NameTaken(c, NoPk)
       THEN Goto(c, "failed", loc[c]) /\ UNCHANGED authentik
       ELSE CreatesProvider(c) /\ AfterProvider(c, made + 1)
    /\ UNCHANGED <<api, cache, pending, due, creds, faults, human>>

WriteCredentials(c) ==
    /\ pc[c] = "credentials"
    /\ creds' = [creds EXCEPT ![c] = loc[c].wprov]
    /\ Goto(c, "application", loc[c])
    /\ UNCHANGED <<api, cache, pending, due, authentik, faults, human>>

\* What Authentik refuses: another's slug, a provider gone or in use elsewhere.
AppRefused(c) ==
    \/ loc[c].slug # loc[c].app /\ apps[loc[c].slug].live
    \/ ~Live(loc[c].wprov)
    \/ UsedBut(IF loc[c].app = NoId THEN loc[c].slug ELSE loc[c].app, loc[c].wprov)

WritesApp(c) ==
    /\ apps' = [s \in Slugs |->
           IF s = loc[c].slug
           THEN [owner |-> IF loc[c].app = NoId THEN c ELSE apps[loc[c].app].owner,
                 prov |-> loc[c].wprov, live |-> TRUE]
           ELSE IF s = loc[c].app THEN NoApp ELSE apps[s]]
    /\ UNCHANGED <<made, provs>>

\* update_application (gone meanwhile, it fails), or create_application: the record
\* follows the slug.
UpsertApplication(c) ==
    /\ pc[c] = "application"
    /\ IF AppRefused(c) \/ (loc[c].app # NoId /\ ~Found(loc[c].app))
       THEN Goto(c, "failed", loc[c]) /\ UNCHANGED authentik
       ELSE /\ WritesApp(c)
            /\ Goto(c, IF loc[c].kind = "proxy" THEN "attach" ELSE "synced",
                    [loc[c] EXCEPT !.wapp = loc[c].slug])
    /\ UNCHANGED <<api, cache, pending, due, creds, faults, human>>

AttachOutpost(c) ==
    /\ pc[c] = "attach"
    /\ IF Live(loc[c].wprov)
       THEN /\ provs' = [provs EXCEPT ![loc[c].wprov].attached = TRUE]
            /\ Goto(c, "synced", loc[c])
       ELSE Goto(c, "failed", loc[c]) /\ UNCHANGED provs
    /\ UNCHANGED <<api, cache, pending, due, made, apps, creds, faults, human>>

\* Bugs: only a success is recorded; the two ids are swapped.
RecordedIfSynced(c) == [api[c] EXCEPT
    !.id   = IF pc[c] = "synced" THEN loc[c].wapp ELSE @,
    !.prov = IF pc[c] = "synced" THEN loc[c].wprov ELSE @,
    !.observed = IF pc[c] = "synced" THEN loc[c].gen ELSE @,
    !.ready = pc[c]]
RecordedSwapped(c) == [api[c] EXCEPT
    !.id   = IF loc[c].wapp # NoId THEN loc[c].wprov ELSE @,
    !.ready = pc[c]]

\* The status: what is known to exist is recorded even when a later step failed.
Recorded(c) == [api[c] EXCEPT
    !.id   = IF loc[c].wapp # NoId THEN loc[c].wapp ELSE @,
    !.prov = IF loc[c].wprov # NoPk THEN loc[c].wprov ELSE @,
    !.observed = IF pc[c] = "synced" THEN loc[c].gen ELSE @,
    !.ready = pc[c]]

Publish(c) ==
    /\ pc[c] \in {"synced", "failed"}
    /\ IF Present(api[c]) THEN HasRoom(c) /\ Write(c, Recorded(c))
                          ELSE UNCHANGED <<api, pending>>
    /\ due' = due \cup {c}
    /\ Goto(c, "idle", NoWork)
    /\ UNCHANGED <<cache, authentik, creds, faults, human>>
-----------------------------------------------------------------------------
(* The cleanup, on the watch cache's copy; every delete takes a 404 as done. *)

Cleanup(c) ==
    /\ Reconcilable(c) /\ cache[c].phase = "deleting" /\ cache[c].fin
    /\ Goto(c, IF cache[c].id = NoId /\ cache[c].prov = NoPk THEN "cleaned" ELSE "cleanup",
            [NoWork EXCEPT !.slug = cache[c].slug, !.kind = cache[c].kind,
                           !.id = cache[c].id, !.prov = cache[c].prov])
    /\ due' = due \ {c}
    /\ UNCHANGED <<api, cache, pending, authentik, creds, faults, human>>

\* A bug: an application already gone stops the cleanup, which is retried.
CleanupReadsNeedsApp(c) ==
    /\ pc[c] = "cleanup"
    /\ IF loc[c].id # NoId /\ ~Found(loc[c].id)
       THEN Goto(c, "idle", NoWork) /\ due' = due \cup {c}
       ELSE /\ Goto(c, "its_provider", [loc[c] EXCEPT !.app = loc[c].id,
                 !.target = IF Found(loc[c].id) THEN apps[loc[c].id].prov ELSE NoPk])
            /\ UNCHANGED due
    /\ UNCHANGED <<api, cache, pending, authentik, creds, faults, human>>

\* get_application: the provider it points at, before it is deleted.
CleanupReads(c) ==
    /\ pc[c] = "cleanup"
    /\ Goto(c, "its_provider",
            [loc[c] EXCEPT !.app = IF Found(loc[c].id) THEN loc[c].id ELSE NoId,
                           !.target = IF Found(loc[c].id) THEN apps[loc[c].id].prov ELSE NoPk])
    /\ UNCHANGED <<api, cache, pending, due, authentik, creds, faults, human>>

CleanupProvider(c) ==
    /\ pc[c] = "its_provider"
    /\ DeletesProvider(loc[c].target)
    /\ Goto(c, "its_record", loc[c])
    /\ UNCHANGED <<api, cache, pending, due, creds, faults, human>>

\* A bug: what is recorded counts only if the application is there.
CleanupRecordWithApp(c) ==
    /\ pc[c] = "its_record"
    /\ DeletesProvider(IF loc[c].app = NoId THEN NoPk ELSE loc[c].prov)
    /\ Goto(c, "its_application", loc[c])
    /\ UNCHANGED <<api, cache, pending, due, creds, faults, human>>

\* The recorded provider too, when the application had been pointed at another.
CleanupRecord(c) ==
    /\ pc[c] = "its_record"
    /\ DeletesProvider(loc[c].prov)
    /\ Goto(c, "its_application", loc[c])
    /\ UNCHANGED <<api, cache, pending, due, creds, faults, human>>

CleanupApplication(c) ==
    /\ pc[c] = "its_application"
    /\ apps' = IF loc[c].app # NoId THEN [apps EXCEPT ![loc[c].app] = NoApp] ELSE apps
    /\ Goto(c, "its_credentials", loc[c])
    /\ UNCHANGED <<api, cache, pending, due, made, provs, creds, faults, human>>

\* delete_credentials: only when the spec is of the kind that has some.
CleanupCredentials(c) ==
    /\ pc[c] = "its_credentials"
    /\ creds' = IF loc[c].kind = "oauth2" THEN [creds EXCEPT ![c] = NoPk] ELSE creds
    /\ Goto(c, "cleaned", loc[c])
    /\ UNCHANGED <<api, cache, pending, due, authentik, faults, human>>

RemoveFinalizer(c) ==
    /\ pc[c] = "cleaned"
    /\ IF Present(api[c])
       THEN HasRoom(c) /\ Write(c, [api[c] EXCEPT !.fin = FALSE, !.phase = "gone"])
       ELSE UNCHANGED <<api, pending>>
    /\ Goto(c, "idle", NoWork)
    /\ UNCHANGED <<cache, due, authentik, creds, faults, human>>
-----------------------------------------------------------------------------
(* Faults, from one budget.                                                *)

Fault == faults > 0 /\ faults' = faults - 1

\* A call fails without effect: the apply reports it, the cleanup is retried whole.
CallFails(c) ==
    /\ Fault
    /\ \/ pc[c] \in Applying /\ Goto(c, "failed", loc[c]) /\ UNCHANGED due
       \/ pc[c] \in Cleaning /\ Goto(c, "idle", NoWork) /\ due' = due \cup {c}
    /\ UNCHANGED <<api, cache, pending, authentik, creds, human>>

\* Authentik does the write, its answer never arrives.  (The other writes can be
\* repeated: losing their answer is the same as failing after them.)
ReplyLost(c) ==
    /\ Fault
    /\ \/ /\ pc[c] = "provider" /\ loc[c].target = NoPk /\ ~NameTaken(c, NoPk)
          /\ CreatesProvider(c)
       \/ /\ pc[c] = "application" /\ ~AppRefused(c)
          /\ loc[c].app = NoId \/ Found(loc[c].app)
          /\ WritesApp(c)
    /\ Goto(c, "failed", loc[c])
    /\ UNCHANGED <<api, cache, pending, due, creds, human>>

\* The status patch, or the removal of the finalizer, does not get through.
WriteBackFails(c) ==
    /\ Fault
    /\ pc[c] \in {"synced", "failed", "cleaned"}
    /\ Goto(c, "idle", NoWork)
    /\ due' = due \cup {c}
    /\ UNCHANGED <<api, cache, pending, authentik, creds, human>>

\* The process dies or loses its lease: the next one lists everything first.
Crash ==
    /\ Fault
    /\ cache' = api /\ pending' = [c \in CRs |-> <<>>]
    /\ due' = CRs
    /\ pc' = [c \in CRs |-> "idle"] /\ loc' = [c \in CRs |-> NoWork]
    /\ UNCHANGED <<api, authentik, creds, human>>
-----------------------------------------------------------------------------
UserStep(c) ==
    \/ \E s \in Slugs, k \in Kinds : UserCreates(c, s, k)
    \/ \E s \in Slugs, k \in Kinds, allow \in BOOLEAN : UserEdits(c, s, k, allow)
    \/ UserDeletes(c)
HumanStep ==
    \/ \E p \in 1..made : HumanDeletesProvider(p)
    \/ \E s \in Slugs : HumanDeletesApp(s)
    \/ \E s \in Slugs, k \in Kinds : HumanPoints(s, k)
ApplyStep(c) ==
    \/ GetApplication(c) \/ ReplaceProvider(c) \/ PatchProvider(c) \/ DiscardProvider(c)
    \/ CreateProvider(c) \/ WriteCredentials(c) \/ UpsertApplication(c)
    \/ AttachOutpost(c) \/ Publish(c)
CleanupStep(c) ==
    \/ CleanupReads(c) \/ CleanupProvider(c) \/ CleanupRecord(c)
    \/ CleanupApplication(c) \/ CleanupCredentials(c) \/ RemoveFinalizer(c)
StartStep(c) == AddFinalizer(c) \/ Fetch(c) \/ Cleanup(c)
FaultStep(c) == CallFails(c) \/ ReplyLost(c) \/ WriteBackFails(c)

Next ==
    \/ \E c \in CRs : \/ UserStep(c) \/ Deliver(c) \/ StartStep(c)
                      \/ ApplyStep(c) \/ CleanupStep(c) \/ FaultStep(c)
    \/ HumanStep
    \/ Crash

Spec == Init /\ [][Next]_vars

\* The watch delivers, what is due is started and what is started goes on; people
\* and faults owe nothing.
Fairness == \A c \in CRs :
    /\ WF_vars(Deliver(c))
    /\ WF_vars(StartStep(c))
    /\ WF_vars(ApplyStep(c) \/ CleanupStep(c))
FairSpec == Spec /\ Fairness
-----------------------------------------------------------------------------
(* Properties.                                                             *)

\* The values every variable ranges over.
TypeOK ==
    /\ api \in [CRs -> Version] /\ cache \in [CRs -> Version]
    /\ pending \in [CRs -> Seq(Version)]
    /\ due \subseteq CRs
    /\ pc \in [CRs -> Steps] /\ loc \in [CRs -> Work]
    /\ made \in 0..MaxProv /\ provs \in [Pks -> Provider]
    /\ apps \in [Slugs -> App]
    /\ creds \in [CRs -> Pks \cup {NoPk}]
    /\ faults \in 0..MaxFaults /\ human \in 0..MaxHuman

Own(c, object) == object.live /\ object.owner = c

\* As long as no call is lost, whatever a reconcile made before it failed is in the
\* status when it ends: the next attempt, or the cleanup, can still find it
\* (app.rs: "What exists in Authentik is recorded even when a later step failed").
NothingLost ==
    faults = MaxFaults => \A c \in CRs :
        pc[c] = "idle" /\ Present(api[c]) =>
            /\ \A p \in Pks : Own(c, provs[p]) =>
                  \/ p = api[c].prov
                  \/ Found(api[c].id) /\ apps[api[c].id].prov = p
            /\ \A s \in Slugs : Own(c, apps[s]) => s = api[c].id

\* While a CR lives, the application it records never points at an oauth2 provider of its own whose
\* credentials its consumers do not hold: they are written before it is pointed
\* there and removed after it is gone.
CredentialsPrecedeUse ==
    \A c \in CRs :
        LET s == api[c].id
            p == apps[s].prov
        IN api[c].phase = "live" /\ Found(s) /\ Own(c, apps[s]) /\ p # NoPk
           /\ Own(c, provs[p]) /\ provs[p].kind = "oauth2"
           => creds[c] = p

\* An apply never deletes the provider of the application its CR records unless the
\* CR carries allow-disruptive-update, however the spec, the application and the
\* provider changed since they were read.  (An application whose creation got no
\* answer is not recorded, and can lose its provider to a change of kind.)
NoDisruptionUnasked ==
    [][\A c \in CRs :
          LET s == loc[c].id IN
          /\ pc[c] \in Applying /\ pc'[c] # pc[c] /\ Found(s)
          /\ Live(apps[s].prov) /\ ~provs'[apps[s].prov].live
          => loc[c].allow]_vars

\* A finished cleanup that was given what the CR records has deleted it, however many
\* attempts it took and whatever people did in between; if no call was ever lost
\* nothing the CR made is left.
CleanupLeavesNothing ==
    \A c \in CRs :
        pc[c] = "cleaned" /\ loc[c].id = api[c].id /\ loc[c].prov = api[c].prov =>
            /\ ~Live(api[c].prov)
            /\ Found(api[c].id) => apps[api[c].id].owner # c
            /\ faults = MaxFaults => /\ \A p \in Pks : ~Own(c, provs[p])
                                     /\ \A s \in Slugs : ~Own(c, apps[s])

\* The finalizer removes the credentials from every target the application owns
\* (reconcile_application.rs, delete_credentials).
CredentialsRemoved ==
    \A c \in CRs :
        pc[c] = "cleaned" /\ loc[c].id = api[c].id /\ loc[c].prov = api[c].prov
        => creds[c] = NoPk

Converged(c) ==
    /\ api[c].ready = "synced" /\ api[c].observed = api[c].gen
    /\ api[c].id = api[c].slug /\ Found(api[c].id)
    /\ LET p == apps[api[c].id].prov IN
       /\ Live(p) /\ p = api[c].prov /\ provs[p].kind = api[c].kind
       /\ IF api[c].kind = "oauth2" THEN creds[c] = p ELSE provs[p].attached
\* The CR says it failed, and it must: its slug is another application's, its
\* provider's name another provider's, its provider serves an application it does not
\* know of, or the provider's kind may not change.
Blocked(c) ==
    LET p == IF Found(api[c].id) THEN apps[api[c].id].prov ELSE NoPk
        slugTaken == api[c].slug # api[c].id /\ apps[api[c].slug].live
        nameTaken == NameTaken(c, IF p = NoPk THEN api[c].prov ELSE p)
        inUse     == api[c].prov # NoPk /\ UsedBut(api[c].id, api[c].prov)
        kindKept  == p # NoPk /\ provs[p].kind # api[c].kind /\ ~api[c].allow
    IN api[c].ready = "failed" /\ (slugTaken \/ nameTaken \/ inUse \/ kindKept)

\* Once people and faults stop, every CR is applied whole, or says why it cannot be.
Converges ==
    \A c \in CRs : <>[](api[c].phase = "live" => Converged(c) \/ Blocked(c))

\* A CR being deleted is eventually gone.
DeletionCompletes ==
    \A c \in CRs : api[c].phase = "deleting" ~> api[c].phase = "gone"
=============================================================================
