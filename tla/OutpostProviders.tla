-------------------------- MODULE OutpostProviders --------------------------
(***************************************************************************)
(* Which outpost serves which proxy provider                               *)
(* (crates/adapters-outbound/src/authentik_http/outposts.rs,               *)
(* attach_outpost_impl and edit_providers; called at the end of every      *)
(* reconcile of a proxy AuthentikApplication).                             *)
(*                                                                         *)
(* Authentik has no call to add one provider to an outpost: the outpost's  *)
(* whole list is read, edited and written back.  Reconciles of different   *)
(* applications run at the same time, and serialize their edits with one   *)
(* lock per outpost, in this process only: people, and a request that      *)
(* outlives its timeout, are not held by it.                               *)
(*                                                                         *)
(* Abstractions: an application has one provider, which bears its name and *)
(* lives until the application is cleaned up (Application has the rest of  *)
(* the reconcile); the instance is one, reached under one base path.  An   *)
(* outpost keeps its name: left out is the edit of an AuthentikOutpost's   *)
(* spec.name, which update_outpost_impl PATCHes, and which changes what an *)
(* outpostRef resolves to without a change of any list.                    *)
(***************************************************************************)
EXTENDS Naturals, Sequences

CONSTANTS
    CRs,       \* the AuthentikApplications, and their providers
    Names,     \* the names of outposts, the embedded one's included
    MaxPk,     \* bound: outposts ever created
    MaxMoves,  \* bound: changes of spec.provider.proxy.outpostRef
    MaxFaults, \* bound: mishaps of any kind
    MaxDisturb \* bound: of those, edits by people and writes after their timeout

ASSUME BoundsAssumption ==
    /\ MaxPk \in Nat /\ MaxMoves \in Nat
    /\ MaxFaults \in Nat /\ MaxDisturb \in Nat
ASSUME NamesAssumption == Names # {}

Pks  == 1..MaxPk
NoPk == 0

Outpost == [name : Names, live : BOOLEAN, list : SUBSET CRs]
Request == [at : Pks, list : SUBSET CRs]   \* a PATCH of an outpost's providers
Steps == {"idle", "holding", "next", "wait", "write"}
Work ==  \* what attach_outpost carries across its await points
    [target : Pks \cup {NoPk},   \* the outpost asked for
     todo : SUBSET Pks,          \* the outposts to take the provider from
     at : Pks \cup {NoPk},       \* the outpost being edited
     list : SUBSET CRs]          \* its providers as they were read

VARIABLES
    phase, ref,     \* the CRs and their outpostRef
    providers,      \* the CRs whose provider exists
    made, outposts, \* outposts[o]: the outpost of pk o, 1..made exist or existed
    queue,          \* queue[o]: the holder of o's lock, then those waiting for it
    pc, loc,        \* the reconcile of each CR
    outcome, home,  \* how its last one ended, and the outpost it attached to
    late,           \* requests given up on that Authentik may still execute
    moves, faults, disturb  \* what is left of the budgets

authentik == <<providers, made, outposts, late>>
crs       == <<phase, ref, moves>>
budgets   == <<faults, disturb>>
vars == <<crs, authentik, queue, pc, loc, outcome, home, budgets>>

-----------------------------------------------------------------------------
NoWork == [target |-> NoPk, todo |-> {}, at |-> NoPk, list |-> {}]
NoOutpost == [name |-> CHOOSE n \in Names : TRUE, live |-> FALSE, list |-> {}]

Named(n) == {o \in Pks : outposts[o].live /\ outposts[o].name = n}

Init ==
    /\ phase = [c \in CRs |-> "live"] /\ ref \in [CRs -> Names]
    /\ providers = {} /\ made = 0
    /\ outposts = [o \in Pks |-> NoOutpost]
    /\ queue = [o \in Pks |-> <<>>]
    /\ pc = [c \in CRs |-> "idle"] /\ loc = [c \in CRs |-> NoWork]
    /\ outcome = [c \in CRs |-> "none"] /\ home = [c \in CRs |-> NoPk]
    /\ late = {}
    /\ moves = MaxMoves /\ faults = MaxFaults /\ disturb = MaxDisturb
-----------------------------------------------------------------------------
(* The CRs, and what happens to outposts meanwhile.                        *)

UserMoves(c, n) ==
    /\ phase[c] = "live" /\ moves > 0 /\ n # ref[c]
    /\ ref' = [ref EXCEPT ![c] = n] /\ moves' = moves - 1
    /\ UNCHANGED <<phase, authentik, queue, pc, loc, outcome, home, budgets>>

UserDeletes(c) ==
    /\ phase[c] = "live"
    /\ phase' = [phase EXCEPT ![c] = "deleting"]
    /\ UNCHANGED <<ref, moves, authentik, queue, pc, loc, outcome, home, budgets>>

\* create_outpost, of an AuthentikOutpost that is new, or was deleted in Authentik:
\* a new pk, and no providers.
CreateOutpost(n) ==
    /\ made < MaxPk /\ Named(n) = {}
    /\ made' = made + 1
    /\ outposts' = [outposts EXCEPT ![made + 1] = [name |-> n, live |-> TRUE, list |-> {}]]
    /\ UNCHANGED <<crs, providers, late, queue, pc, loc, outcome, home, budgets>>

DeleteOutpost(o) ==
    /\ outposts[o].live
    /\ outposts' = [outposts EXCEPT ![o].live = FALSE, ![o].list = {}]
    /\ UNCHANGED <<crs, providers, made, late, queue, pc, loc, outcome, home, budgets>>

\* People, or a request nobody waits for any more: no lock holds them.
Fault == faults > 0 /\ faults' = faults - 1
Disturbance == Fault /\ disturb > 0 /\ disturb' = disturb - 1

HumanEditsList(o, S) ==
    /\ Disturbance
    /\ outposts[o].live /\ S \subseteq providers /\ S # outposts[o].list
    /\ outposts' = [outposts EXCEPT ![o].list = S]
    /\ UNCHANGED <<crs, providers, made, late, queue, pc, loc, outcome, home>>
-----------------------------------------------------------------------------
(* attach_outpost, one call at a time.                                     *)

Goto(c, step, work) ==
    /\ pc' = [pc EXCEPT ![c] = step]
    /\ loc' = [loc EXCEPT ![c] = work]

Ends(c, result, pk) ==
    /\ Goto(c, "idle", NoWork)
    /\ outcome' = [outcome EXCEPT ![c] = result]
    /\ home' = [home EXCEPT ![c] = pk]
Fails(c) == Ends(c, "failed", NoPk)
Goes(c, step, work) == Goto(c, step, work) /\ UNCHANGED <<outcome, home>>

\* resolve_outpost, by name: OutpostRefNotFound when there is none.
Resolved(c) ==
    \/ Named(ref[c]) = {} /\ Fails(c)
    \/ \E o \in Named(ref[c]) : Goes(c, "holding", [NoWork EXCEPT !.target = o])

\* A bug: what is Synced is not looked at again.
StartUnlessSynced(c) ==
    /\ pc[c] = "idle" /\ phase[c] = "live" /\ outcome[c] # "synced"
    /\ providers' = providers \cup {c}
    /\ Resolved(c)
    /\ UNCHANGED <<crs, made, outposts, late, queue, budgets>>

\* A reconcile reads the CR, upserts the provider and the application, and resolves the
\* outpost; whatever comes of it another follows, on the next change or requeue.
Start(c) ==
    /\ pc[c] = "idle" /\ phase[c] = "live"
    /\ providers' = providers \cup {c}
    /\ Resolved(c)
    /\ UNCHANGED <<crs, made, outposts, late, queue, budgets>>

\* A bug: an outpostRef that moves leaves the provider where it was too.
HoldingNone(c) == {}

\* The other outposts that hold the provider.
Holding(c) == {o \in Pks : outposts[o].live /\ c \in outposts[o].list} \ {loc[c].target}

ListHolding(c) ==
    /\ pc[c] = "holding"
    /\ Goes(c, "next", [loc[c] EXCEPT !.todo = Holding(c)])
    /\ UNCHANGED <<crs, authentik, queue, budgets>>

\* edit_providers: the others first, the target last; the lock is queued for.
AskLock(c) ==
    /\ pc[c] = "next"
    /\ \E o \in Pks :
          /\ IF loc[c].todo = {} THEN o = loc[c].target ELSE o \in loc[c].todo
          /\ queue' = [queue EXCEPT ![o] = Append(@, c)]
          /\ Goes(c, "wait", [loc[c] EXCEPT !.at = o, !.todo = @ \ {o}])
    /\ UNCHANGED <<crs, authentik, budgets>>

\* A bug: nobody waits for the lock.
HoldsAnyway(c) == queue[loc[c].at] # <<>>

Holds(c) == queue[loc[c].at] # <<>> /\ Head(queue[loc[c].at]) = c
Release(c) == queue' = [queue EXCEPT ![loc[c].at] = Tail(@)]

\* A bug: the outpost's id is written in place of the provider's.
EditedWithPk(c, list) == IF loc[c].at = loc[c].target THEN list \cup {loc[c].at} ELSE list \ {c}

Edited(c, list) == IF loc[c].at = loc[c].target THEN list \cup {c} ELSE list \ {c}

\* An edit is done: the next, or the end.
GoesOn(c) ==
    /\ Release(c)
    /\ IF loc[c].at = loc[c].target
       THEN Ends(c, "synced", loc[c].target)
       ELSE Goes(c, "next", [loc[c] EXCEPT !.at = NoPk, !.list = {}])

\* Under the lock: the list is read; nothing to change, nothing is written.
ReadList(c) ==
    /\ pc[c] = "wait" /\ Holds(c)
    /\ LET o == outposts[loc[c].at] IN
       \/ ~o.live /\ Fails(c) /\ Release(c)
       \/ o.live /\ Edited(c, o.list) = o.list /\ GoesOn(c)
       \/ /\ o.live /\ Edited(c, o.list) # o.list
          /\ Goes(c, "write", [loc[c] EXCEPT !.list = o.list])
          /\ UNCHANGED queue
    /\ UNCHANGED <<crs, authentik, budgets>>

\* The PATCH: a list naming a provider deleted meanwhile is refused whole.
Accepted(r) == outposts[r.at].live /\ r.list \subseteq providers
Executes(r) == outposts' = [outposts EXCEPT ![r.at].list = r.list]
Patch(c) == [at |-> loc[c].at, list |-> Edited(c, loc[c].list)]

WriteList(c) ==
    /\ pc[c] = "write"
    /\ \/ ~Accepted(Patch(c)) /\ Fails(c) /\ Release(c) /\ UNCHANGED outposts
       \/ Accepted(Patch(c)) /\ Executes(Patch(c)) /\ GoesOn(c)
    /\ UNCHANGED <<crs, providers, made, late, budgets>>

\* The CR's cleanup deletes the provider; Authentik takes it off every list.
Cleanup(c) ==
    /\ pc[c] = "idle" /\ phase[c] = "deleting"
    /\ phase' = [phase EXCEPT ![c] = "gone"]
    /\ providers' = providers \ {c}
    /\ outposts' = [o \in Pks |-> [outposts[o] EXCEPT !.list = @ \ {c}]]
    /\ UNCHANGED <<ref, moves, made, late, queue, pc, loc, outcome, home, budgets>>
-----------------------------------------------------------------------------
(* Faults.                                                                 *)

Unlocks(c) == IF pc[c] \in {"wait", "write"} THEN Release(c) ELSE UNCHANGED queue

\* A call fails.  (A failure before the outpost is resolved changes nothing here.)
CallFails(c) ==
    /\ Fault
    /\ pc[c] \in {"holding", "write"} \/ (pc[c] = "wait" /\ Holds(c))
    /\ Fails(c) /\ Unlocks(c)
    /\ UNCHANGED <<crs, authentik, disturb>>

\* Authentik writes the list, its answer never arrives.
ReplyLost(c) ==
    /\ Fault
    /\ pc[c] = "write" /\ Accepted(Patch(c)) /\ Executes(Patch(c))
    /\ Fails(c) /\ Release(c)
    /\ UNCHANGED <<crs, providers, made, late, disturb>>

\* The request times out, and the lock is let go, while Authentik still has it.
WriteTimesOut(c) ==
    /\ Disturbance
    /\ pc[c] = "write"
    /\ late' = late \cup {Patch(c)}
    /\ Fails(c) /\ Release(c)
    /\ UNCHANGED <<crs, providers, made, outposts>>

LateWrite(r) ==
    /\ r \in late /\ late' = late \ {r}
    /\ IF Accepted(r) THEN Executes(r) ELSE UNCHANGED outposts
    /\ UNCHANGED <<crs, providers, made, queue, pc, loc, outcome, home, budgets>>

\* The process is replaced: its locks and its reconciles with it.
Crash ==
    /\ Fault
    /\ queue' = [o \in Pks |-> <<>>]
    /\ pc' = [c \in CRs |-> "idle"] /\ loc' = [c \in CRs |-> NoWork]
    /\ UNCHANGED <<crs, authentik, outcome, home, disturb>>
-----------------------------------------------------------------------------
UserStep(c) ==
    \/ \E n \in Names : UserMoves(c, n)
    \/ UserDeletes(c)
OutpostStep ==
    \/ \E n \in Names : CreateOutpost(n)
    \/ \E o \in Pks : DeleteOutpost(o) \/ \E S \in SUBSET CRs : HumanEditsList(o, S)
AttachStep(c) ==
    \/ ListHolding(c) \/ AskLock(c) \/ ReadList(c) \/ WriteList(c)
FaultStep(c) == CallFails(c) \/ ReplyLost(c) \/ WriteTimesOut(c)

Next ==
    \/ \E c \in CRs : \/ UserStep(c) \/ Start(c) \/ AttachStep(c) \/ Cleanup(c)
                      \/ FaultStep(c)
    \/ OutpostStep
    \/ \E r \in late : LateWrite(r)
    \/ Crash

Spec == Init /\ [][Next]_vars

\* Reconciles are started and go on, cleanups too; a request given up on may never be
\* executed.  The lock is granted in the order it was asked for (queue).
Fairness ==
    \A c \in CRs : WF_vars(Start(c) \/ Cleanup(c)) /\ WF_vars(AttachStep(c))
FairSpec == Spec /\ Fairness
-----------------------------------------------------------------------------
(* Properties.                                                             *)

\* The values every variable ranges over; only providers that exist are listed, and
\* only by outposts that do.
TypeOK ==
    /\ phase \in [CRs -> {"live", "deleting", "gone"}]
    /\ ref \in [CRs -> Names]
    /\ providers \subseteq CRs /\ made \in 0..MaxPk
    /\ outposts \in [Pks -> Outpost]
    /\ \A o \in Pks : outposts[o].list # {} =>
          outposts[o].live /\ outposts[o].list \subseteq providers
    /\ queue \in [Pks -> Seq(CRs)]
    /\ pc \in [CRs -> Steps] /\ loc \in [CRs -> Work]
    /\ outcome \in [CRs -> {"none", "synced", "failed"}]
    /\ home \in [CRs -> Pks \cup {NoPk}]
    /\ late \subseteq Request
    /\ moves \in 0..MaxMoves /\ faults \in 0..MaxFaults /\ disturb \in 0..MaxDisturb

\* Somebody the lock does not hold has written a list, or still may.
Disturbed == disturb # MaxDisturb

Lists == INSTANCE OutpostLists WITH
    Outposts <- Pks, Providers <- CRs, exists <- providers, disturbed <- Disturbed,
    lists <- [o \in Pks |-> outposts[o].list]

\* Concurrent attachments are all kept: whatever crashes or fails, each write of a
\* list amounts to adding or removing the writer's own provider, until people edit
\* the same list or a request outlives its timeout (outposts.rs: "so that two
\* applications attaching to the same outpost concurrently don't overwrite each
\* other's edit").
EditsAreAtomic == Lists!Spec

\* A CR whose reconcile ended Synced is served by the outpost it attached to, as long
\* as that exists, and by no other, whatever the other applications did since.
ServedBy(c) == {o \in Pks : c \in outposts[o].list}
ServedWhereSynced ==
    ~Disturbed /\ faults = MaxFaults => \A c \in CRs :
        pc[c] = "idle" /\ outcome[c] = "synced" /\ c \in providers =>
            ServedBy(c) = {o \in {home[c]} : outposts[o].live}

\* Once people, outposts and faults settle, every application is served by the outpost
\* its spec names and by no other, or says that there is none; late writes, lost edits
\* and half-done moves are made up for.
Settled(c) ==
    LET named == Named(ref[c])
    IN IF named # {} THEN ServedBy(c) = named ELSE outcome[c] = "failed"
Settles == \A c \in CRs : <>[](phase[c] = "live" => Settled(c))
=============================================================================
