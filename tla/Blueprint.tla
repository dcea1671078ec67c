----------------------------- MODULE Blueprint -----------------------------
(***************************************************************************)
(* An AuthentikBlueprint: content the operator stores in Authentik, whose  *)
(* worker applies it later                                                 *)
(* (crates/adapters-inbound/src/controller/blueprint.rs,                   *)
(* crates/application/src/use_cases/reconcile_blueprint.rs,                *)
(* crates/adapters-outbound/src/authentik_http/blueprints.rs).             *)
(*                                                                         *)
(* A reconcile stores the content, reads what the last apply left, asks    *)
(* for another one when that was not of the stored content, and answers    *)
(* without waiting.  The applies asked for run when the worker gets to     *)
(* them, several at a time, on what is stored when each begins.            *)
(*                                                                         *)
(* Abstractions: one CR, and the one name it asks for, which at most one   *)
(* instance has; a content is a model value, and so is its hash.  Left     *)
(* out are a change of spec.name, which is PATCHed like the rest           *)
(* (blueprints.rs:54), and the refusal of a context that is no object.  Of *)
(* the worker it is assumed that an apply's end writes the status and the  *)
(* hash and leaves what the operator stores.  The finalizer's addition,    *)
(* the importer and force-orphan are RemoteObject's.  A CR name is used    *)
(* once.                                                                   *)
(***************************************************************************)
EXTENDS Naturals, Sequences

CONSTANTS
    Contents,    \* blueprints
    Contexts,    \* values for their !Context tags
    Specs,       \* bound: the specs users write
    MaxEdits,    \* bound: edits of the spec
    MaxUid,      \* bound: instances ever created
    MaxLag,      \* bound: CR versions the watch has not delivered
    MaxAsked,    \* bound: applies of an instance that wait for the worker
    MaxRunning,  \* bound: applies the worker runs at once
    MaxFaults,   \* bound: failed calls, lost replies, failed applies, crashes
    MaxHuman,    \* bound: changes people make in Authentik's own UI
    None         \* no id, no context, never applied

ASSUME ValuesAssumption ==
    /\ Contents # {} /\ None \notin Contents \cup Contexts \cup 1..MaxUid
    /\ Specs # {}
    /\ Specs \subseteq [content : Contents, context : Contexts \cup {None}, enabled : BOOLEAN]
ASSUME BoundsAssumption ==
    /\ MaxEdits \in Nat /\ MaxUid \in Nat /\ MaxLag \in Nat \ {0}
    /\ MaxAsked \in Nat \ {0} /\ MaxRunning \in Nat \ {0}
    /\ MaxFaults \in Nat /\ MaxHuman \in Nat

Spec0 == CHOOSE s \in Specs : TRUE
Uids == 1..MaxUid
Outcomes == {"none", "synced", "invalid", "exists", "pending", "failed", "error"}

Version ==  \* one version of the CR
    [phase : {"absent", "live", "deleting", "gone"},
     spec : Specs,
     id : Uids \cup {None},        \* status.authentikId
     ready : Outcomes]             \* the condition Ready, by its reason
Fields == {"content", "context", "enabled"}
Statuses == {"unknown", "successful", "failed"}
Instance ==  \* a BlueprintInstance; uid None when there is none of that name
    [uid : Uids \cup {None}, mine : BOOLEAN,
     content : Contents, context : Contexts \cup {None}, enabled : BOOLEAN,
     status : Statuses,
     applied : Contents \cup {None}]  \* last_applied_hash
Work ==  \* what one reconcile carries across its await points
    [spec : Specs, id : Uids \cup {None},
     drift : SUBSET Fields,        \* the fields the PATCH carries
     out : Uids \cup {None},       \* the instance it knows to exist
     status : Statuses,            \* of the last apply
     outcome : Outcomes]
Steps == {"idle", "retrieve", "patch", "create", "state", "ask", "publish", "delete", "cleaned"}
Tasks == [uid : Uids, content : Contents]

VARIABLES
    api, cache, pending,  \* the CR at the API server, in the watch store, on its way
    due, pc, loc,         \* its reconcile: scheduled, under way
    inst, made,           \* the instance of that name, how many were created
    asked, running,       \* the worker: applies that wait, by uid, and that run
    done,                 \* the contents an apply has succeeded with
    resolvable,           \* the contents whose references Authentik resolves
    edits, faults, human  \* what is left of the budgets

people == <<edits, faults, human>>
authentik == <<inst, made, asked, running, done, resolvable>>
vars == <<api, cache, pending, due, pc, loc, authentik, people>>

-----------------------------------------------------------------------------
Blank == [phase |-> "absent", spec |-> Spec0, id |-> None, ready |-> "none"]
NoWork == [spec |-> Spec0, id |-> None, drift |-> {}, out |-> None,
           status |-> "unknown", outcome |-> "none"]
NoInstance == [uid |-> None, mine |-> FALSE, content |-> Spec0.content, context |-> None,
               enabled |-> TRUE, status |-> "unknown", applied |-> None]

Present(v) == v.phase \in {"live", "deleting"}
HasRoom == Len(pending) < MaxLag

Write(v) ==
    /\ api' = v
    /\ pending' = IF v = api THEN pending ELSE Append(pending, v)
Goto(step, work) == pc' = step /\ loc' = work
Ends(outcome, work) == Goto("publish", [work EXCEPT !.outcome = outcome])

Init ==
    /\ api = Blank /\ cache = Blank /\ pending = <<>>
    /\ due = FALSE /\ pc = "idle" /\ loc = NoWork
    /\ inst = NoInstance /\ made = 0
    /\ asked = [u \in Uids |-> 0] /\ running = <<>>
    /\ done = {} /\ resolvable \in SUBSET Contents
    /\ edits = MaxEdits /\ faults = MaxFaults /\ human = MaxHuman
-----------------------------------------------------------------------------
(* The people who own the CR, and those who work in Authentik itself.      *)

UserCreates(s) ==
    /\ api.phase = "absent"
    /\ Write([Blank EXCEPT !.phase = "live", !.spec = s])
    /\ UNCHANGED <<cache, due, pc, loc, authentik, people>>

UserEdits(s) ==
    /\ api.phase = "live" /\ HasRoom
    /\ edits > 0 /\ edits' = edits - 1
    /\ Write([api EXCEPT !.spec = s])
    /\ UNCHANGED <<cache, due, pc, loc, authentik, faults, human>>

UserDeletes ==
    /\ api.phase = "live" /\ HasRoom
    /\ Write([api EXCEPT !.phase = "deleting"])
    /\ UNCHANGED <<cache, due, pc, loc, authentik, people>>

Human == human > 0 /\ human' = human - 1 /\ UNCHANGED <<edits, faults>>

HumanCreates(k) ==
    /\ Human
    /\ inst.uid = None /\ made < MaxUid /\ made' = made + 1
    /\ inst' = [NoInstance EXCEPT !.uid = made + 1, !.content = k]
    /\ UNCHANGED <<api, cache, pending, due, pc, loc, asked, running, done, resolvable>>

HumanEdits(k, x, on) ==
    /\ Human
    /\ inst.uid # None
    /\ inst' = [inst EXCEPT !.content = k, !.context = x, !.enabled = on]
    /\ UNCHANGED <<api, cache, pending, due, pc, loc, made, asked, running, done, resolvable>>

HumanDeletes ==
    /\ Human
    /\ inst.uid # None /\ inst' = NoInstance
    /\ UNCHANGED <<api, cache, pending, due, pc, loc, made, asked, running, done, resolvable>>

\* What a content refers to comes into being.
Resolves(k) ==
    /\ k \notin resolvable /\ resolvable' = resolvable \cup {k}
    /\ UNCHANGED <<api, cache, pending, due, pc, loc, inst, made, asked, running, done, people>>
-----------------------------------------------------------------------------
(* Authentik's worker.                                                     *)

\* An apply works on what is stored when it begins, and skips a disabled instance.
WorkerTakes(u) ==
    /\ asked[u] > 0 /\ Len(running) < MaxRunning
    /\ asked' = [asked EXCEPT ![u] = @ - 1]
    /\ running' = IF inst.uid = u /\ inst.enabled
                  THEN Append(running, [uid |-> u, content |-> inst.content]) ELSE running
    /\ UNCHANGED <<api, cache, pending, due, pc, loc, inst, made, done, resolvable, people>>

Without(n) == SubSeq(running, 1, n - 1) \o SubSeq(running, n + 1, Len(running))

\* What it leaves on an instance that is still there; a failure keeps the hash of the
\* last success.
WorkerSucceeds(n) ==
    /\ n \in DOMAIN running /\ running' = Without(n)
    /\ LET task == running[n]
       IN /\ done' = done \cup {task.content}
          /\ inst' = IF inst.uid = task.uid
                     THEN [inst EXCEPT !.status = "successful", !.applied = task.content]
                     ELSE inst
    /\ UNCHANGED <<api, cache, pending, due, pc, loc, made, asked, resolvable, people>>

Fault == faults > 0 /\ faults' = faults - 1 /\ UNCHANGED <<edits, human>>

WorkerFails(n) ==
    /\ Fault
    /\ n \in DOMAIN running /\ running' = Without(n)
    /\ inst' = IF inst.uid = running[n].uid THEN [inst EXCEPT !.status = "failed"] ELSE inst
    /\ UNCHANGED <<api, cache, pending, due, pc, loc, made, asked, done, resolvable>>
-----------------------------------------------------------------------------
(* One reconcile.                                                          *)

Deliver ==
    /\ pending # <<>>
    /\ cache' = Head(pending) /\ pending' = Tail(pending)
    /\ due' = (due \/ Present(cache'))
    /\ UNCHANGED <<api, pc, loc, authentik, people>>

Reconcilable == pc = "idle" /\ due

\* The spec is the watch store's, the recorded id the API server's.
Fetch ==
    /\ Reconcilable /\ cache.phase = "live" /\ Present(api)
    /\ Goto(IF api.id = None THEN "create" ELSE "retrieve",
            [NoWork EXCEPT !.spec = cache.spec, !.id = api.id])
    /\ UNCHANGED <<api, cache, pending, due, authentik, people>>

\* What the PATCH carries: an unset context is left as it is.
Drift(spec) ==
    {f \in Fields : IF f = "context" THEN spec.context \notin {None, inst.context}
                    ELSE spec[f] # inst[f]}

\* A bug: what was created is not kept, only what was recorded before.
WrittenRead(u) ==
    LET work == [loc EXCEPT !.out = loc.id]
    IN IF loc.spec.enabled THEN Goto("state", work) ELSE Ends("synced", work)

\* The write is done: a disabled instance is not applied.
Written(u) ==
    LET work == [loc EXCEPT !.out = u]
    IN IF loc.spec.enabled THEN Goto("state", work) ELSE Ends("synced", work)

Retrieve ==
    /\ pc = "retrieve"
    /\ IF inst.uid # loc.id THEN Goto("create", loc)
       ELSE IF Drift(loc.spec) = {} THEN Written(loc.id)
       ELSE Goto("patch", [loc EXCEPT !.drift = Drift(loc.spec)])
    /\ UNCHANGED <<api, cache, pending, due, authentik, people>>

Patched == [inst EXCEPT
    !.content = IF "content" \in loc.drift THEN loc.spec.content ELSE @,
    !.context = IF "context" \in loc.drift THEN loc.spec.context ELSE @,
    !.enabled = IF "enabled" \in loc.drift THEN loc.spec.enabled ELSE @]

\* A content is validated when it is written.
Refused(spec) == spec.content \notin resolvable

Patch ==
    /\ pc = "patch"
    /\ \/ /\ inst.uid # loc.id
          /\ Goto("create", loc) /\ UNCHANGED inst
       \/ /\ inst.uid = loc.id /\ "content" \in loc.drift /\ Refused(loc.spec)
          /\ Ends("invalid", loc) /\ UNCHANGED inst
       \/ /\ inst.uid = loc.id /\ ~("content" \in loc.drift /\ Refused(loc.spec))
          /\ Written(loc.id) /\ inst' = Patched
    /\ UNCHANGED <<api, cache, pending, due, made, asked, running, done, resolvable, people>>

Created == [NoInstance EXCEPT
    !.uid = made + 1, !.mine = TRUE, !.content = loc.spec.content,
    !.context = loc.spec.context, !.enabled = loc.spec.enabled]

\* Both may be said of a create, the content is reported first.
Create ==
    /\ pc = "create"
    /\ \/ Refused(loc.spec) /\ Ends("invalid", loc) /\ UNCHANGED <<inst, made>>
       \/ /\ ~Refused(loc.spec) /\ inst.uid # None
          /\ Ends("exists", loc) /\ UNCHANGED <<inst, made>>
       \/ /\ ~Refused(loc.spec) /\ inst.uid = None /\ made < MaxUid
          /\ inst' = Created /\ made' = made + 1
          /\ Written(made + 1)
    /\ UNCHANGED <<api, cache, pending, due, asked, running, done, resolvable, people>>

\* A bug: that the last apply went well is enough.
AppliedSuccessful == inst.status = "successful"

\* The last apply succeeded, with what is stored.
Applied == inst.status = "successful" /\ inst.applied = inst.content

GetState ==
    /\ pc = "state"
    /\ IF inst.uid # loc.out THEN Ends("error", loc)
       ELSE IF Applied THEN Ends("synced", loc)
       ELSE Goto("ask", [loc EXCEPT !.status = inst.status])
    /\ UNCHANGED <<api, cache, pending, due, authentik, people>>

Capped(n) == IF n < MaxAsked THEN n + 1 ELSE n

\* The outcome tells of the apply before the one asked for.
AskApply ==
    /\ pc = "ask"
    /\ IF inst.uid # loc.out THEN Ends("error", loc) /\ UNCHANGED asked
       ELSE /\ Ends(IF loc.status = "failed" THEN "failed" ELSE "pending", loc)
            /\ asked' = [asked EXCEPT ![loc.out] = Capped(@)]
    /\ UNCHANGED <<api, cache, pending, due, inst, made, running, done, resolvable, people>>

\* A bug: nothing is recorded before it is applied.
RecordedIfSynced == IF loc.outcome = "synced" THEN loc.out ELSE api.id

\* The instance is recorded as soon as it is known to exist.
RecordedId == IF loc.out # None THEN loc.out ELSE api.id

\* A bug: a pending apply waits for a change of the CR.
RequeuedUnlessPending == loc.outcome # "pending"

\* requeue_after: sooner or later, but always.
Requeued == due

Publish ==
    /\ pc = "publish"
    /\ IF Present(api)
       THEN LET v == [api EXCEPT !.id = RecordedId, !.ready = loc.outcome]
            IN (HasRoom \/ v = api) /\ Write(v)
       ELSE UNCHANGED <<api, pending>>
    /\ due' = Requeued
    /\ Goto("idle", NoWork)
    /\ UNCHANGED <<cache, authentik, people>>

\* The instance goes, by the id the watch store knows of; what it applied stays.
Cleanup ==
    /\ Reconcilable /\ cache.phase = "deleting"
    /\ Goto(IF cache.id = None THEN "cleaned" ELSE "delete", [NoWork EXCEPT !.id = cache.id])
    /\ UNCHANGED <<api, cache, pending, due, authentik, people>>

DeleteInstance ==
    /\ pc = "delete"
    /\ inst' = IF inst.uid = loc.id THEN NoInstance ELSE inst
    /\ Goto("cleaned", loc)
    /\ UNCHANGED <<api, cache, pending, due, made, asked, running, done, resolvable, people>>

RemoveFinalizer ==
    /\ pc = "cleaned"
    /\ IF Present(api) THEN HasRoom /\ Write([api EXCEPT !.phase = "gone"])
       ELSE UNCHANGED <<api, pending>>
    /\ due' = FALSE
    /\ Goto("idle", NoWork)
    /\ UNCHANGED <<cache, authentik, people>>
-----------------------------------------------------------------------------
(* Faults.                                                                 *)

\* Of building the gateway or a call to Authentik, recorded; of the API server.
CallFails ==
    /\ Fault
    /\ \/ pc \in {"retrieve", "patch", "create", "state", "ask"} /\ Ends("error", loc)
       \/ pc \in {"publish", "delete", "cleaned"} /\ Goto("idle", NoWork)
    /\ UNCHANGED <<api, cache, pending, due, authentik>>

\* Executed, its answer lost.
ReplyLost ==
    /\ Fault
    /\ \/ /\ pc = "create" /\ ~Refused(loc.spec) /\ inst.uid = None /\ made < MaxUid
          /\ inst' = Created /\ made' = made + 1
          /\ UNCHANGED asked
       \/ /\ pc = "patch" /\ inst.uid = loc.id /\ ~("content" \in loc.drift /\ Refused(loc.spec))
          /\ inst' = Patched /\ UNCHANGED <<made, asked>>
       \/ /\ pc = "ask" /\ inst.uid = loc.out
          /\ asked' = [asked EXCEPT ![loc.out] = Capped(@)]
          /\ UNCHANGED <<inst, made>>
    /\ Ends("error", loc)
    /\ UNCHANGED <<api, cache, pending, due, running, done, resolvable>>

Crash ==
    /\ Fault
    /\ cache' = api /\ pending' = <<>>
    /\ due' = Present(api)
    /\ Goto("idle", NoWork)
    /\ UNCHANGED <<api, authentik>>
-----------------------------------------------------------------------------
StartStep == Fetch \/ Cleanup
WorkStep == \/ Retrieve \/ Patch \/ Create \/ GetState \/ AskApply \/ Publish
            \/ DeleteInstance \/ RemoveFinalizer

Next ==
    \/ \E s \in Specs : UserCreates(s) \/ UserEdits(s)
    \/ UserDeletes
    \/ \E k \in Contents : \/ HumanCreates(k) \/ Resolves(k)
                           \/ \E x \in Contexts \cup {None}, on \in BOOLEAN : HumanEdits(k, x, on)
    \/ HumanDeletes
    \/ \E u \in Uids : WorkerTakes(u)
    \/ \E n \in 1..MaxRunning : WorkerSucceeds(n) \/ WorkerFails(n)
    \/ Deliver \/ StartStep \/ WorkStep \/ CallFails \/ ReplyLost \/ Crash

Spec == Init /\ [][Next]_vars

\* The watch delivers, a due reconcile is started and takes its next step, the worker
\* takes and ends the applies it is asked for.
Fairness ==
    /\ WF_vars(Deliver) /\ WF_vars(StartStep \/ WorkStep)
    /\ \A u \in Uids : WF_vars(WorkerTakes(u))
    /\ \A n \in 1..MaxRunning : WF_vars(WorkerSucceeds(n))
FairSpec == Spec /\ Fairness
-----------------------------------------------------------------------------
(* Properties.                                                             *)

\* The values every variable ranges over; an apply is asked for and runs for an instance
\* that was made.
TypeOK ==
    /\ pc \in {"state", "ask"} => loc.out # None
    /\ api \in Version /\ cache \in Version /\ pending \in Seq(Version)
    /\ due \in BOOLEAN /\ pc \in Steps /\ loc \in Work
    /\ inst \in Instance /\ made \in 0..MaxUid
    /\ inst.uid \in 1..made \cup {None}
    /\ asked \in [Uids -> 0..MaxAsked]
    /\ running \in Seq(Tasks) /\ Len(running) <= MaxRunning
    /\ \A n \in DOMAIN running : running[n].uid <= made
    /\ done \subseteq Contents /\ resolvable \subseteq Contents
    /\ edits \in 0..MaxEdits /\ faults \in 0..MaxFaults /\ human \in 0..MaxHuman

\* As long as people leave Authentik alone, a reconcile answers Synced for an enabled
\* spec only when an apply of that very content has succeeded, however many applies of
\* other contents run, fail or end late.
SyncedIsApplied ==
    human = MaxHuman /\ pc = "publish" /\ loc.outcome = "synced" /\ loc.spec.enabled
    => loc.spec.content \in done

\* Without a failure, the instance this CR made is recorded before it is looked for
\* again: the name it collides with is never its own.
NoSelfCollision ==
    faults = MaxFaults /\ pc = "publish" /\ loc.outcome = "exists" => ~inst.mine

\* What Authentik refuses for good, or will not let this CR have: a content whose
\* references never resolve, the name somebody else has, or an instance that was
\* never recorded.
Blocked ==
    \/ /\ api.spec.content \notin resolvable
       /\ inst.uid = None \/ inst.content # api.spec.content
    \/ inst.uid # None /\ api.id # inst.uid

Settled ==
    /\ api.phase = "live" /\ ~Blocked =>
        /\ api.ready = "synced" /\ api.id = inst.uid /\ Drift(api.spec) = {}
        /\ api.spec.enabled => Applied
    /\ api.phase # "deleting"

\* Once people and faults stop, the content the CR asks for is stored and, unless it is
\* disabled, is the last one applied, whatever was running: the operator asks again
\* when an apply fails or an older one ends late.  A deleted CR goes.
Settles == <>[]Settled
=============================================================================
