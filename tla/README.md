# Verification of weebo-authentik

TLA+ models of the operator that keeps Authentik in step with Kubernetes custom
resources, checked with TLC and proved with TLAPS. Paths below are
relative to `src/`; `PROJECT.json` maps every definition to the lines it models.

Run a check with `tlc -workers 2 -config X.cfg MCModule`, a proof with
`tlapm X_proofs.tla`: each component has its proofs in a module of their own.

1. [The system](#1-the-system)
2. [Modules](#2-modules)
3. [Runs: what is checked, bounds](#3-runs)
4. [Fairness](#4-fairness)
5. [Proofs](#5-proofs)
6. [Disagreements found](#6-disagreements-found)
7. [Not modelled](#7-not-modelled)
8. [Plan](#8-plan)

## 1. The system

A user writes CRs (`AuthentikGroup`, `AuthentikApplication`, ...). One operator
process, elected by a lease, watches them and calls Authentik's HTTP API until what
is there agrees. People also change Authentik through its own UI, and an importer
turns what is already there into CRs. Three stores of state, none transactional with
another:

- **the API server**: spec, generation, finalizers, annotations, and the status the
  operator writes (`authentikId`, `providerId`, `observedGeneration`, `Ready`);
- **the watch store** of the operator: copies of the CRs, late by an unbounded
  amount, rebuilt by a list when a process starts;
- **Authentik**: the objects, with its own uniqueness rules (names, slugs, domains, one
  default brand, one application per provider).

A reconcile is a sequence of awaits; whatever it read may be old at the next one.
One CR has one reconcile at a time, different CRs run concurrently.

| component | state | operations | talks to | right when |
|---|---|---|---|---|
| Remote object lifecycle: group, user, outpost, flow, scope mapping (`controller/*.rs`, `use_cases/reconcile_*.rs`, `authentik_http/*.rs`) | recorded id, the remote object | add finalizer, read fresh, retrieve, PATCH drift, create, recreate on 404, publish, cleanup, force-orphan | API server, watch store, Authentik | it touches only its own object, never makes a second, loses none, converges, lets deletions finish |
| Application (`controller/app.rs`, `reconcile_application.rs`, `applications.rs`, `providers.rs`) | ids of application and provider, the credentials written | the ordered calls of an apply; those of a cleanup | the same, a secret store, an outpost | partial work is always recorded, credentials come first, nothing disruptive unasked, the cleanup finds everything |
| Default brand (`brand_election.rs`, `reconcile_brand.rs`, `controller/brand.rs`) | claims, Authentik's single default flag | elect on the store, read / disable / enable the default, release, delete | the other brands' CRs through the store | the oldest claimant ends up the default, and only claimants take it |
| Importer (`importer/src/*.rs`) | what a run has listed, the files written; a CR paused, seeded, released | list each kind, write files, adopt | Authentik, API server | the files of a run name each other consistently, each object has its CR, and adopting a CR changes nothing but what no CR can say; the operator never reconciles a CR before it holds its id |
| Reconcile loop (`controller/mod.rs`) | what is due | `current`, `requeue_after`, `error_policy`, `finalize`, status patch, policy fan-out | all controllers | everything not done is looked at again |
| Leader election and start-up (`operator/src/main.rs`) | the lease | acquire, list, start controllers | API server | one active reconciler |
| Outpost provider lists (`outposts.rs`) | each outpost's list, one lock per outpost | attach, detach elsewhere | Authentik | concurrent edits are all kept |
| Access policies (`access_policy.rs`, `policy_bindings.rs`) | bindings on an application | bind, re-bind, unbind | applications' status, instances | bound where the application is, unbound where it was |
| Instances (`instance.rs`, `local_instance.rs`, `gateway_factory.rs`) | the instance a CR is bound to | bind, refuse a switch, release when unused | every CR | no CR loses the gateway its cleanup needs |
| Blueprints (`blueprint.rs`, `reconcile_blueprint.rs`) | content, Authentik's asynchronous apply state | create, update, apply, report | Authentik's worker | the reported state is that of this content |
| Namespace policies and admission (`webhook/mod.rs`, `evaluate_admission.rs`, `namespace_policy.rs`) | rules, in stores of different age | admit, re-check at reconcile, wake dependants | applications, access policies | admitted and applied under the same rules, eventually |

The hard parts: stale copies used for decisions (the cleanup never reads fresh); a
status written once, after several remote writes; creations whose answer is lost;
concurrent edits by people; read-then-write sequences over a flag shared by several
reconciles; re-tried cleanups; names that designate another instance as instances come
and go; an answer that tells of the apply before; rules known at different times by
different replicas; listings that are made one after the other. `PROJECT.json` lists 40 such hazards at their lines,
and which property covers each.

## 2. Modules

The model is split by what a reconcile shares with others: one CR and one object
(`RemoteObject`, `Application`, `Blueprint`), a flag shared by CRs (`BrandElection`), a list
shared by them (`OutpostProviders`), the instance they are on (`InstanceBinding`), the
rules they obey (`Admission`), and what is there before there are CRs (`Importer`).

All but `OutpostLists`, `OutpostProviders` and `Importer` share a frame (`Admission` without
the CRs' store: what it is about is the policies'). `api[c]` is CR c at the API server, `pending[c]` the
versions written but not delivered, `cache[c]` the store's copy; `due` is what the
scheduler will start, `pc[c]`/`loc[c]` where c's reconcile is and what it has read.
**Each action is one await point**: the guard is what the code tests at that point, and
other parties act between two of them. `Deliver`, `AddFinalizer`, `Fetch`, `Publish`,
`RemoveFinalizer` stand for the runtime's watch, finalizer helper and status patch. A
fault takes one unit of `MaxFaults`: a call that fails (`CallFails`), a write whose
answer is lost (`ReplyLost`), a status patch that does not go through
(`WriteBackFails`), a process that is replaced (`Crash`: stores equal to the API
server, every CR due, reconciles forgotten). People take from `MaxHuman`.

### RemoteObject

The five kinds of one CR / one object. `Kind` chooses the two things in which they
differ: whether the spec applied is the fresh copy (`UserSpec`, `OutpostSpec`) or the
store's (`GroupSpec`, `FlowSpec`, `ScopeMappingSpec`), and whether the object is addressed
by its primary key or by a slug the spec can change (`SlugKeyed`, flows).

| action | code |
|---|---|
| `Fetch` | `apply` up to `current()` |
| `Retrieve`, `Patch` | `update_*`: GET, compare, PATCH what drifted |
| `Create` | `create_*`, after no id or a 404; a name conflict is `AuthentikObjectAlreadyExists` |
| `Publish` | `patch_reconcile_outcome`, `requeue_after` |
| `Cleanup`, `RemoveFinalizer` | `finalize` and `cleanup` |
| `ImportCreates`, `ImportSeeds`, `ImportReleases` | `importer --apply` |

Objects keep a ghost `owner` (the CR that made or adopted them, or a person) no guard
of the operator reads: the properties are about it.

### Application

One CR, its application, provider, credentials and place in an outpost. The steps of
`pc`: `fetched` (`GetApplication`: the recorded application, the provider it points at,
the kind check) → `replace` (authorized kind change: delete first) → `provider`
(`PatchProvider`, or `CreateProvider`; a 404 passes through `DiscardProvider`) →
`credentials` (oauth2) → `application` → `attach` (proxy) → `synced` or `failed` →
`Publish`. `loc.wprov`/`loc.wapp` are the code's `Written`, filled as objects come to
exist and published whatever happened after. Cleanup: `CleanupReads`,
`CleanupProvider`, `CleanupRecord`, `CleanupApplication`, `CleanupCredentials`.

### BrandElection

Several brands, numbered in the order of their names. `Elected` reads the CR fresh and its rivals
from the store (`list_all`); `SyncBrand` is the election plus the call on the brand itself;
`GetDefault` → `DisableCurrent` → `EnableOwn`, or `ReleaseOwn`, are `toggle_default`. A toggle's
answer may be lost (`ReplyLost`), and one that outlives the client's timeout
(`gateway_factory.rs:158`) may be executed at any later time or never (`ToggleTimesOut`,
`LateToggle`): the reconcile has gone on without it. What no
reconcile reads from the store (generation, conditions) is kept in `gen` and `status` and
not carried through `pending`, which makes no difference to anyone and many fewer states.
External assumption: Authentik refuses a second default brand (`.prompt/plan.md`:
"un seul `default=true` valide à la fois, côté Authentik comme côté CRD").

### OutpostProviders, over OutpostLists

Authentik has no call to add one provider to an outpost, so `edit_providers` reads the
whole list, edits it and writes it back. `OutpostLists` is what that should amount to: a
set per outpost which providers enter and leave one at a time (`Attach`, `Detach`),
and which deletions clear. `OutpostProviders` is the code; with
`lists[o] <- outposts[o].list` it implements `OutpostLists` (`EditsAreAtomic`).

| action | code |
|---|---|
| `Start` | a reconcile with its provider upserted, `resolve_outpost` |
| `ListHolding` | `attach_outpost_impl`: which other outposts hold the provider |
| `AskLock`, `ReadList`, `WriteList` | `edit_providers`: queue for the lock, GET, PATCH; the others first, the target last |
| `Cleanup` | the application's cleanup deletes its provider |
| `CreateOutpost`, `DeleteOutpost` | what `AuthentikOutpost` reconciles and people do |
| `WriteTimesOut`, `LateWrite` | a PATCH that outlives the client's timeout, the lock let go |
| `HumanEditsList` | an edit in Authentik's UI |

`queue[o]` is the lock of outpost o, a `tokio::sync::Mutex`, granted in the order asked
for: its head holds it. An application's provider bears the application's name; the rest of its
reconcile is in `Application`, where attaching is one step. An update of the outpost's own CR
PATCHes without `providers` (`update_outpost_impl`), so it changes no list; that it may change the
outpost's *name* (`outposts.rs:97`), and with it what an `outpostRef` resolves to, is left out.
External assumptions: Authentik refuses a list naming a provider that is gone, and takes a
deleted provider off every list. The lock's key is the instance's base path and the
outpost; one base path is modelled. (Two `spec.url`s for one Authentik would have two
locks for one outpost.)

### InstanceBinding

Instances (a name and a kind, cluster or local), an application, its access policy, a CR of
a cluster-scoped kind. `api[c].instance` is `status.instance`, `api[c].id` the recorded id
*as the instance that gave it*, `remote[i][c]` who has c's object on Authentik i (`own`, or
`other` for an application whose slug somebody has there: an application is addressed by
its slug, everything else by a key taken to be known only where it was made, which a uuid is
and a user's number or a flow's slug is not: for those two kinds this is an assumption).

| definition | code |
|---|---|
| `Resolve`, `Designated`, `ApplicationInstance` | the resolver's rules, `application_instance` |
| `PolicyInstance` | `apply` of `access_policy.rs`: the one its application records, or resolves to |
| `DefaultInstance` | `default_gateway`: the only cluster instance |
| `FetchApp`, `FetchPolicy`, `FetchOwner`, `Call`, `Publish` | a reconcile; `RecordedInstance` is what the status keeps |
| `CleanupInstance`, `Cleanup`, `DeleteObject`, `RemoveFinalizer` | the cleanup, on the store's copy |
| `Dependents`, `ReleaseInstance`, `InstanceGoes` | `instance_dependents`, `release_instance` and the finalizer |

A policy's instance is taken from its application as it is *now* when it is applied, and
as recorded when it is cleaned up.

### Blueprint

One CR and the one name it asks for; Authentik's worker is the other actor. A reconcile goes
`Fetch` → `Retrieve` → `Patch` or `Create` → `GetState` → `AskApply` → `Publish`, and
does not wait. `WorkerTakes` begins an apply of what is stored *then*; `WorkerSucceeds` and
`WorkerFails` end it whenever they like, on the instance if it is still there, and several run
at once. `inst.applied` is `last_applied_hash`, which a failure leaves as it was. `Applied`
is the code's test that the last success was of the stored content. `resolvable` stands for
validation: what Authentik refuses when it is written. Authentik's side is external.

### Admission

`log` is the history of the namespace policies, `seen[r]` how much of it replica r's store
holds. `Admits` is the webhook of any replica, `Reconcile` the leader's re-check;
both evaluate `Allowed` on `Known(r)` and skip a CR on a local instance. `Learns` delivers a
policy to a replica and, on the leader, wakes every CR (`Woken`, `on_policy_change`); the removal of a policy
may wake none, for the removed object is not in the store that the mapper reads. `Recheck` is the
steady requeue, `Failover` another leader with the store it has. Deletions are not
reviewed and `Cleanup` is not refused. Every replica here knows the cluster kinds and has listed the
policies once; until it has, the code lists them at each call (`namespace_policies.rs:39-53`), which is
a store of the current age.

### Importer

A run is the sequence of its list calls, one action each (`ListGroups` ... `ListBindings`),
in the order of `main.rs`; people may act between any two. `read` keeps the names by which
the run knows groups, flows and mappings, `files` the CRs written with the run that
wrote them: those of an earlier run stay. `Pages` is a list's limit (1000 in the code,
`Page` here); an application's bindings are asked for without one (`applications.rs:264`), so theirs is Authentik's
own (`BindingsPage`). `CrName` makes a Kubernetes name and may make the same one of two objects;
one file is then left. (An access policy's name is a pair of names here, which the code joins with a
dash: `a-b`, `c` and `a`, `b-c` would share a file and do not here.) Adopting the files is
`RemoteObject`'s `Import*` actions; what it does to references is stated by `LeavesAlone`, from what the operator
writes: `Replaced` for the references a PATCH replaces, `attach_outpost_impl` for an application's outposts.

## 3. Runs

`CHECK_DEADLOCK FALSE` everywhere: a CR name is used once, so the system does stop when
every CR is gone or the bounds are used up. Any bound is named in CONSTANTS.

| run | bounds | shows |
|---|---|---|
| `remote_safety` | a user, 2 names, 2 generations, 3 objects, 2 undelivered versions, 1 fault, 2 edits by people | types; the recorded id is owned, at most one object until a call is lost, only own objects touched, a record moves only off a gone object, `observedGeneration` was applied |
| `remote_live` | a flow, 4 objects, as above | `Converges`, `DeletionCompletes` |
| `app` | 1 application, 2 slugs, 2 generations, 3 providers, 2 undelivered versions, 1 fault, 1 edit by people | `NothingLost`, `CredentialsPrecedeUse`, `NoDisruptionUnasked`, `CleanupLeavesNothing`, `Converges`, `DeletionCompletes` |
| `brand_safety` | 2 brands, 2 generations, 1 fault | `ReleasedIsNotDefault`, `OnlyClaimantsTakeOver` |
| `brand_live` | 2 brands, 1 generation, 1 fault, 1 change of the default by people or by a toggle executed late | `Settles` |
| `outposts` | 2 applications, 2 outpost names, 2 outposts ever, 1 change of `outpostRef`, 1 fault, which may be an edit by people or a late write | `EditsAreAtomic`, `ServedWhereSynced`, `Settles` |
| `instance` | a cluster and a local instance of one name; an application and its policy, or a cluster-scoped CR; 1 undelivered version, 1 fault, which may be an edit of `instanceRef` | `OwnUntilMoved`, `RecordedWhereMade`, `ReleasedWhenUnused`, `Settles` |
| `blueprint` | 3 specs (2 contents, a context, one disabled), 1 edit, 2 instances ever, 1 apply waiting and 2 running, 1 undelivered version, 1 fault, 1 change by people | `NoSelfCollision`, `SyncedIsApplied`, `Settles` |
| `admission` | 2 replicas, an application and its policy, 2 namespace policies of 2 contents, 1 change of them, 1 fault or failover | `SharedOnlyIfAllowed`, `DeniedNeverStored`, `WokenByPolicies`, `Settles` |
| `import` | 14 objects of the 8 kinds, a group with two parents among them, 4 names of which 2 share a slug, pages of 3 (of 1 for an application's bindings), 2 runs, 1 fault, 1 change by people | `AsListed`, `FilesAgree` |
| `remote_orphan`, `app_leak` | no faults | violations, section 6 |

Why these bounds are enough to be interesting. Two names and two generations are a
rename, and a rename back against a stale copy; three objects are the first, its
replacement after a loss or an out-of-band deletion, and one of a person; two undelivered
versions let a store be behind both a spec and a status write; one fault is any single
crash or lost answer at any await point. Two edits by people cover delete and
re-create under the CR's name. For applications, three providers are the old
kind's, the new kind's and a person's. In a two-brand election, every rival is
either older or younger, equal timestamps (`tick = 0`) included, and the native brand is a
third holder. Two applications on two outposts are the lost update and the move between
outposts; two outposts in all include one deleted and made again under its name. What several CRs of the first kind do to each other is covered by
people (who create, rename and take names in every way another CR would) and, for
ownership, by the proof for any number of CRs.

Two instances of one name are all that can change what a name designates: one comes before
or after the other, goes, or is pinned by an edit. One undelivered version suffices where
what is at stake is not in the spec: the store is behind a status write or the deletion, and
delivery may come at any later time. Two blueprint contents are one being applied
and one that replaced it, and two applies running end in either order. In `admission` a
change of the policies is an addition, a replacement or a removal, from no policy or from one
that denies; two replicas are the one that admits and the one that reconciles, of
any two ages. The importer's small Authentik has one object for each case of its code
(24 combinations of a managed mapping, an outpost type without a CRD, a provider's
kind, and an application with two bindings or two with one each). Its three groups, one of which has the
other two as parents, are one page, and the limit bites as soon as a person creates a fourth;
that of bindings does from the start in half of the combinations. One change by people puts an application on no outpost, or on two.

Some properties deserve a word on their conditions.

- `AtMostOneObject`, `NothingLost`, `NoOrphan` and the last part of
  `CleanupLeavesNothing` hold until a call is lost (`faults = MaxFaults`). The code has
  no recovery from a create whose answer is lost: the object exists, nothing records
  it, and the retry collides with its own name. This is by design ("collisions are
  reported, never adopted", `ports.rs`), and the other properties hold through it.
- `NoDisruptionUnasked` speaks of the *recorded* application. One whose creation got
  no answer is not recorded: it is not looked up, so its kind is not checked.
- `Converges` allows a CR that reports a failure that a person must clear. For an application
  these are exactly four (`Blocked`): slug taken, provider name taken, the recorded
  provider serving an application the CR does not know of, and a kind that may not
  change. The name taken may be the CR's own: a crash between `ReplaceProvider` and
  `Publish` leaves the new provider unrecorded under the CR's name.
- `EditsAreAtomic` stops promising at a disturbance (people's edit, or a request that
  outlives its timeout: the lock serializes neither), and `ServedWhereSynced` needs that no
  call failed either. What comes after is `Settles`: it includes all of them.
- `Settles` (brands): a loser is not woken when the winner goes; the steady requeue has it
  look again. The property is what would break if that requeue did not happen
  (its mutant).
- `OwnUntilMoved` and `RecordedWhereMade` hold until somebody edits an `instanceRef`
  (`moves = MaxMoves`). Moving an application is allowed and is not a migration: what follows is
  in section 6. `Settles` includes the moves.
- `ReleasedWhenUnused` also needs that no call failed, and says nothing of the
  cluster-scoped kinds: one whose creation is under way is not yet seen as a dependent. It is
  a condition on what has been made, not on what is being made: an application that was
  resolved to the instance counts already (`BoundTo`).
- `SyncedIsApplied` (blueprints) holds while people leave the instance alone, `NoSelfCollision` until a
  call fails. A context that changes alone is stored and is not a new content, so neither property,
  nor `Settles`, speaks of which context was applied.
- `SharedOnlyIfAllowed` is unconditional. It rests on two things: each replica learns of
  policies in the order in which they were written, so a CR that no version of the policies allowed
  is refused whatever the stores' ages, and the binding is recorded before it can
  change. `DeniedNeverStored` leaves out what a local instance let in.
- `WokenByPolicies` does without the steady re-check, for what has been applied on the
  shared instance, as long as no policy is removed; `Settles` assumes the steady re-check.
- `ReleasedIsNotDefault` holds until people set the default or a toggle outlives its timeout
  (`disturb = MaxDisturb`): "enable" executed after the claim was withdrawn and published makes the brand
  the default, until its next reconcile. `Settles` (brands) includes both.
- `AsListed` is about a run during which nobody changed Authentik and every list fits. It says that each
  CR names what its object refers to, as far as the CRD has room for it (`Meant`), and that adopting it leaves
  the object's references alone if *and only if* the CRD has room for them (`Expressible`): the "only if" is
  the disagreement with the migration guide quoted in section 6. `FilesAgree` holds whatever people do, for groups and flows (a mapping is named by a second
  list, which a rename may separate from the first).

Each property of a passing run is paired in `PROJECT.json` ("mutants") with a bug of
the code that breaks it: the definitions beside the one they replace, with comments
"Mutant of" or "A bug".

## 4. Fairness

Weak, per CR, of three things: the watch delivers what is pending; a due reconcile is
started; a started reconcile takes its next step. The kube watch re-lists until it is
current; the scheduler starts due objects in turn, one reconcile per object; every call
to Authentik has a timeout (`gateway_factory.rs:175`), so a step ends in success or failure. Nothing is asked of
users, people, the importer or faults: the budgets end, and the properties say what
follows; nor of a request given up on (`LateWrite`, `LateToggle`), which Authentik may never execute. In
`OutpostProviders` a reconcile may start at any time, for every outcome is requeued, and
one of its steps is taken when none is blocked: a waiter's turn at the lock comes by
`queue`, and not by assumption. What is due is the code's doing and not assumed: `requeue_after` and
`error_policy` requeue every outcome, which `Publish`, `WriteBackFails` and
the failing branches of cleanups do explicitly.

`InstanceBinding` asks the same of the deletion of an instance. `Blueprint` asks of
Authentik's worker that it takes what it is asked and ends what it runs, successfully if no
fault is left. In `Admission` every replica's watch of the policies delivers; the steady
re-check (`requeue_after` of a Synced CR, minutes later) is not in `FairSpec` but an
assumption of `Settles`, so that `WokenByPolicies` shows what the wake-up does by itself.
`Importer` is a program a person runs: it has no liveness.

## 5. Proofs

Each theorem holds for every value of the constants: any number of CRs, names, generations,
undelivered versions, objects, faults and interventions. Each proof module has a `TypeCorrect`
(`Spec => []TypeOK`), and the rest:

| module | theorem | states | under |
|---|---|---|---|
| `RemoteObject_proofs` | `RecordedOwned`, `TouchesOnlyOwn` | `RecordedIsOwned`, `OnlyOwnObjects` | `PrimaryKeyed` |
| | `OneObject`, `RecordFollowsObject` | `AtMostOneObject`, `RecordMovesOnlyWhenGone` | `PrimaryKeyed` |
| | `PublishedIsApplied` | `ObservedIsApplied` | `PrimaryKeyed`, `AppliesFresh` |
| | `FlowRecordsItsOwn`, `FlowTouchesOnlyOwn` | `RecordedIsOwned`, `OnlyOwnObjects` | flows: `[]Reserved(Home)`, `[][KeepOff(Home)]_vars` |
| `Application_proofs` | `CredentialsFirst`, `NothingIsLost` | `CredentialsPrecedeUse`, `NothingLost` | `[]Apart` |
| | `CleanupIsThorough`, `NoneDisruptedUnasked` | `CleanupLeavesNothing`, `NoDisruptionUnasked` | `[]Apart` |
| | `OneAlone` | the four above | one CR |
| | `ApartWhenReserved`, `EachItsSlugs` | `Apart`; the four above | `[]Reserved(Home)` |
| `OutpostProviders_proofs` | `ListsImplemented` | `EditsAreAtomic`, the refinement of `OutpostLists` | |
| | `ServedThere` | `ServedWhereSynced` | |
| `BrandElection_proofs` | `TakenOnlyByClaimants`, `ReleasedStays` | `OnlyClaimantsTakeOver`, `ReleasedIsNotDefault` | |
| `InstanceBinding_proofs` | `BindingWhereRecorded`, `OthersLeftAlone` | `RecordedWhereMade`, `OwnUntilMoved` | |
| | `ReleasedUnused` | `ReleasedWhenUnused` | |
| `Blueprint_proofs` | `OwnNameFree`, `SyncedMeansApplied` | `NoSelfCollision`, `SyncedIsApplied` | |
| `Admission_proofs` | `AllowedOnShared`, `DeniedTurnedAway` | `SharedOnlyIfAllowed`, `DeniedNeverStored` | |
| `Importer_proofs` | `CrsAgree`, `WhatIsThere` | `FilesAgree`, `AsListed` | |

Assumptions on the constants are those their modules declare (ASSUME; TLC evaluates them on every
run): bounds are naturals, names differ from the values that stand for none, the initial
states offered are made of values there are (`RefsAssumption`) and, for the importer, of
finitely many objects that keep Authentik's own constraints (`BeginningsAssumption`: a name is unique in its
kind, what is referred to is there) and whose slugs, names and keys differ from `None`. The last column has the rest:

- `PrimaryKeyed == ~SlugKeyed`: users, groups, outposts, scope mappings. For flows the same
  statements are false without more: a flow is addressed by the slug its status records, which
  another CR may have taken once this one was renamed and its store lags (section 6). Two of them
  hold of flows where each slug is of one CR (`Reserved(Home)`, which the specs keep to) and people, in
  Authentik's UI, put no flow but a CR's own at a slug of a CR there is (`KeepOff(Home)`). They may
  still rename a CR's flow away, delete it, edit it, and take a slug before its CR comes.
  The other three stay false even so: a flow renamed away from its slug is not followed, and another is
  made; a change of slug moves the record of a live flow; and flows apply the store's copy.
- `AppliesFresh == Kind \in {"user", "outpost"}`: the kinds that apply the copy they just
  read. For the others `PublishedIsApplied` is false (section 6, `controller/group.rs:42`).
- `Apart`: no reconcile deals with an application or a provider that another CR
  made, and no two with one provider. Applications are addressed by slug: once c's application was deleted
  in Authentik's UI (or by c's own cleanup or rename, the write-back of which was lost) another CR
  may create its own at that slug, and c, which still records it, patches and later
  deletes it. The code cannot tell, so with several CRs the properties hold of behaviours in
  which this does not happen; one CR meets nobody, hence `OneAlone` has no hypothesis.
- `Reserved(Home)`: each slug is of one CR (`Home`), and specs keep to theirs. Two applications that are
  never given the same slug stay apart whatever fails and whatever people do in Authentik: `Apart` is
  then a theorem, and the four properties need no more than this of users.

### RemoteObject

`RecordedIsOwned` is not inductive: an id gets into `api[c]` from `loc[c].out`, into
`loc[c].id` from a copy read, into `cache[c]` through `pending[c]`, and from `seeds[c]`
by the importer. The invariant is

    Ownership == RecordsOwned /\ CacheOwned /\ WorkOwned /\ SeedsReserved

the ids in each of those places designate only objects the CR owns — live *or dead*, since a
primary key is not used again —, and a seed designates an object that is its CR's or
still a person's, for one CR only, so seeding steals nothing. `CacheOwned`
covers the store and every version on its way to it, which is why a cleanup acting
on the oldest of them still deletes nothing of another's. `TouchesOnlyOwn` is the
same invariant, read at `Patch`, `Create` and `Cleanup`.

The other three theorems share

    Recording == Followed /\ \A c : Unrecorded(c) /\ ReadStands(c) /\ Replaces(c)
                                    /\ OnlyCurrent(c) /\ Applied(c)

A create is attempted on the record just *read*; it makes a second object unless that record is
still the one there is. `ReadStands` says that it is: no step but the reconcile's own writes an
id, once the importer has let go. Whether it has is judged by the store's copy, so the
store must lag behind one history (`Followed`): unpaused, with a finalizer or gone, a CR stays so.
`Replaces` then says that an id about to be published replaces none, itself, or a dead one; `OnlyCurrent` that
the object recorded, or about to be, is the only live one of its CR until a call is lost; `Applied`
which generation it carries at each step.

For flows, ids are slugs and name whatever is there *now*, so ownership cannot be of the object, dead or
alive: the invariant (`Flows(Home)`) is of the slug. What a CR records, caches or carries is a slug
of its own, and the flow there, if any, is its flow; no two live flows share a slug (`Unique`); a CR found
in sync, or patched without its slug, has the slug it looked it up by. `Motion` is the one fact about steps the
parts need: whatever becomes live or is renamed, whoever does it, comes to be its slug's CR's.

### Application

    Ordered == Objects /\ \A c : Seen(c) /\ Counted(c) /\ Working(c)

is the base: providers are numbered and never come back, what is recorded or carried was made,
and what a reconcile carries is what its step needs. On it, per CR: `Credited` (a pair of own
application and own oauth2 provider seen at any step has its credentials written, or is about to be
taken apart by this reconcile), `Tracked` (each object a CR made is the one recorded or the one carried, and a
reconcile that found none has none to find), `Cleaned` (what is gone, by the step the cleanup is at:
it reads the provider before deleting, so a retry must still find it) and `Gated` (the kind check made
calls earlier still holds when the provider is replaced, though people repointed the
application meanwhile: the one deleted is not the one it has now).

CRs whose slugs are `Reserved` stay apart by an invariant of its own, `Realms`: what a CR records,
carries or is still to be delivered names slugs of its own (`Named`), an application is made by the CR its slug
is of, or by people (`Placed`), and no provider known of to one CR, or pointed at from its slugs, is
another's or known of to another (`Parted`): each step makes one CR know of at most one provider more, a new one.

### OutpostProviders

What a PATCH writes is one addition to, or removal from, what Authentik has *at that
moment*, though the list was read earlier. The invariant says why:

    Inv == TypeOK /\ WorkMade /\ WritersHold /\ OutpostsMade
           /\ ReadsKnown /\ ReadsCurrent /\ LateDisturbs

A reconcile about to write heads the lock's queue (`WritersHold`), so there is one per
outpost, and the list it read is still that of the outpost but for providers deleted
meanwhile (`ReadsCurrent`), which never come back since their CR is gone (`ReadsKnown`; a
list naming one is refused). Outposts it works on were made before, and a new one
takes a new pk (`WorkMade`, `OutpostsMade`). `MoveKeeps` (a reconcile moves, to any step
but a write) and `StayKeeps` (none moves) carry most of the actions; then each action
maps to an abstract step or a stutter.

`ServedThere` follows each reconcile (`AllPlaced == Untroubled => \A c : Placed(c)`): until
something fails, the outposts that serve a provider are among the target, those left to
edit (`todo`) and the one being edited (`at`), the target coming last, so that at Synced it is
alone. Reconciles of others write one list at a time under its lock, on a reading that is
current (`WriteIs`), and so neither add the provider nor take it off (`Spared`). The outpost a provider ended
Synced on was made, so a new one, under a new pk, is not it.

### BrandElection, InstanceBinding, Blueprint, Admission, Importer

- *Brands*: a claim is carried to the calls that take the default (`TakersClaim`); generations tell specs
  apart, so what a reconcile fetched is what the CR asks for while it is of its generation (`SpecKnown`),
  and one that released the default ends without it and stays so, since only claimants set it
  (`FlagReleased`, `StaysReleased`), and no toggle is late while nobody has disturbed it (`NoneLate`).
- *Instances*, until a move: what is recorded, or about to be, is what the reference designates, and
  never differs from what is recorded already (`AppStays`, `PolicyStays`). For
  `OthersLeftAlone`, an id known anywhere (record, store, on its way, in a reconcile) is not of another's
  object (`Left`). For `ReleasedUnused`, the store knows of an application before anything is made for it,
  and its object is where its record says or is about to (`Followed`, `Homed`, `BindingHomed`): dependents
  are counted on the store.
- *Blueprints*: the instance a CR made is recorded or about to be (`OwnKnown`); the worker's
  last success is of a content it did apply, and the stored content is the reconcile's from its
  write to its answer (`ContentStored`), so equality of the two means this content was applied.
- *Admission*: the history of the policies only grows, so what no version allowed is refused by a
  store of any age; what is on its way to the shared instance was allowed (`CallsAllowed`), and what is resolved stays
  there (`BoundThere`).
- *Importer*: whatever the run knows by name, and whatever its CRs refer to, is filed under that name
  (`Agreed`), at every point between two lists. `AsListed` adds `Coherent(objs)`, which people's changes
  keep, and, of a run nobody disturbed and whose lists fit their pages, that what it read is what
  is there (`Knows`), that each CR stands for an object (`FilesRight`), an access policy's beside that of its
  application (`BesideTheirs`), and that all it has dealt with has its CR (`Covered`). A page that
  holds as many objects as there are is the whole list, which takes the finiteness. That a CR leaves its
  object alone exactly when the object is `Expressible` follows from these at the end of the run
  (`MeantIsAll` for a group's parents, `OutpostNamed` for an application's outposts).

Steps are split by action, and by the parts of the invariant within each; facts about `Write`,
`Goto`, what a step does to the other CRs (`OneMoves`, `OthersStay`) and what it may do to the objects are lemmas.

Checked only by TLC: all liveness (fairness and `ENABLED` are out of the prover's reach);
the two runs that find a disagreement.

## 6. Disagreements found

| run | what the code does | what is said |
|---|---|---|
| `remote_orphan` | the cleanup decides on the store's status: deleted before its status patch was delivered, a CR has no id there, and its finalizer goes with the object left (`controller/user.rs:63` and every other kind) | "Deleting a CR deletes its Authentik object first (the finalizer)" (`docs/content/docs/guides/install.mdx:67`) |
| `app_leak` | credentials are removed only if the spec is oauth2 at deletion (`controller/app.rs:222`) | "removes the credentials from every target this application owns" (`reconcile_application.rs:479`) |

Seen while modelling, without a run of their own:

*Said otherwise in the repository.*
- Group, flow, scope mapping and blueprint apply the store's spec and publish the fresh
  generation (`controller/group.rs:42`), where "its `observedGeneration` is the last applied
  one" (`controller/mod.rs:835`).
- A flow is deleted by the slug recorded, which another CR's flow may have after a rename
  (`controller/flow.rs:63`); an id recorded means "this CR actually owns/created the corresponding
  Authentik object" (`api/src/status.rs:13`).
- A younger brand whose store lags elects itself and goes to Authentik, until the older
  one takes the default back (`brand.rs:167`, `brand_live`); "Seule la plus ancienne va
  effectivement toucher l'API Authentik" (`.prompt/plan.md:197`). The plan also has losers woken
  by a change of the winner (`.prompt/plan.md:209`); the code waits for the steady requeue.
- Adopting what the importer wrote is not without effect, where the guide says "Adopt the Authentik objects an
  existing Terraform module manages into weebo-authentik CRDs, without recreating or disrupting
  them" (`docs/content/docs/guides/migrate-from-terraform.mdx:3`) and lists its caveats (`:201`) without
  these. `AsListed` states the first three, as what happens to the objects that are not `Expressible`:
  - *a group with several parents* gets a CR that names the first (`importer/src/groups.rs:47-56`); the update
    then writes `parents` as that one (`authentik_http/groups.rs:52-55`, `:90`), and the group loses the others;
  - *an application on no outpost* is put on Authentik's own one, which is what a CR without `outpostRef` asks for
    (`outposts.rs:44`), and *an application on several* is taken off all but one
    (`applications.rs:170-180`, `outposts.rs:167`);
  - *an application on an outpost whose name is not its own slug* gets an `outpostRef` that is the slug
    (`applications.rs:177`), while the operator looks an outpost up by its exact name in Authentik
    (`outposts.rs:44`) and the reference says it names an `AuthentikOutpost` CR
    (`authentikapplication.mdx:100`): the CR is refused, or designates another outpost of that name;
  - *attributes of a group that are not strings* are dropped (`importer/src/groups.rs:64`), and the update writes the
    whole map back; attributes are not modelled.
- "re-triggers all of them whenever an `AuthentikNamespacePolicy` changes"
  (`docs/content/docs/guides/allow-list.mdx:57-59`): the removal of a policy may wake none, for the mapper reads a
  store in which it is not an object any more. What the removal allows waits for the steady re-check, which is why
  `WokenByPolicies` is stated for histories without a removal.
- The advisory `NoAccessPolicyBound` is documented (`reason-codes.mdx:35`), the outcome's
  advisories are always empty (`controller/mod.rs:746`).
- A provider made before its application is refused is recorded and kept
  (`reconcile_application.rs:288`); the plan has it deleted at once (`.prompt/plan.md:376`).

*Of consequence, and nothing says otherwise.*
- An application moved by an edit of `instanceRef` is updated by its slug where it arrives,
  whoever has that slug there, and its objects stay on the instance it left.
- An application is looked up by the slug recorded (`reconcile_application.rs:221`): deleted in
  Authentik's UI, and its slug taken by another CR since, it is the other's that the first CR patches,
  and deletes with itself. Each claims it, and nothing tells (`Apart`, section 5).
- A cluster-scoped CR whose creation is under way does not hold the default instance, so its
  release may come first.
- A change of a blueprint's `context` alone is stored and applied only with the next
  change of content.
- An application refused by the policies while no instance of its name was there is not woken when
  a local instance of that name comes, where the policies have no say: it waits for the
  steady re-check.
- A toggle of the default that outlives its timeout may be executed after the claim it was made for was
  withdrawn, and the withdrawal reported; the next reconcile takes the default away again.
- Importer: two applications
  whose slugs make one CR name mix their access policies; files of earlier runs stay and are
  adopted again, so what was renamed or deleted since comes back; objects beyond a list's page
  (1000, and Authentik's own for an application's bindings),
  and references to what appeared between two lists, are left out silently.

## 7. Not modelled

- CRD types, chart generation, telemetry and Events: declarations, generated code or pure
  output. The generated Authentik client is not in the repository.
- The lease protocol, the watch and finalizer runtime, the secret store backends, the instance
  resolver (the `weebo_kit` crates): not in this repository; modelled as the code uses them
  (one active process, `Crash`, `Failover`; `Deliver`, `AddFinalizer`; `WriteCredentials`;
  `Resolve`). That the lease outlives the work of whoever loses it is assumed, so two active
  reconcilers are in no run.
- The connection probe that sets an instance's own status, the validation that sets a
  namespace policy's, TLS and tokens: they write nothing another component reads.
- The Vault paths a namespace policy may restrict (`evaluate_admission.rs`): a second
  allow-list evaluated at the same two places in the same way.
- The importer's `--force`, which adopts over a CR that exists, and the settings it copies: a group's
  attributes, of which those that are not strings are lost; a flow beyond its list, which is written as `""`
  (`applications.rs:116`) and is no reference in `Importer`.
- The watches by which one kind's change wakes another's CRs (other than the policies'): they make a
  reconcile due earlier, while the models requeue every outcome at once.
- Within what is modelled: the data of specs (one body per generation), resolution of
  references and building a gateway (calls that may fail), several secret targets,
  several base paths of one Authentik, re-use of a CR name, namespaces of instances.
  `Application`: provider kinds other than oauth2 and proxy, in a spec (refused before any call) or in Authentik
  (pointed at by people: replaced if allowed, never deleted); CRs held by the importer (`app.rs:31`) and
  force-orphan, which are `RemoteObject`'s. `OutpostProviders`: a change of an outpost's name. `InstanceBinding`: that a user's
  number or a flow's slug may be somebody else's on another instance. `Blueprint`: a change of `spec.name`
  (`blueprints.rs:54`), the refusal of a context that is no object; that the worker's end writes only status and
  hash is assumed. `Admission`: a process without the cluster kinds (`controller/mod.rs:319`), which refuses
  nothing; the webhook's denial of an unknown kind or after a failed list; an age of the webhook's
  own store of instances.

## 8. Plan

Every component has its model, its runs and its proofs. What is left:

- *Liveness*, which stays with TLC, at the bounds of section 3.
