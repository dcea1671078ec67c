----------------------------- MODULE Admission -----------------------------
(***************************************************************************)
(* Which namespaces may have applications and access policies              *)
(* (crates/adapters-inbound/src/webhook/mod.rs, controller/{mod,app,       *)
(* access_policy}.rs, crates/application/src/use_cases/                    *)
(* evaluate_admission.rs, crates/adapters-outbound/src/                    *)
(* namespace_policies.rs, crates/operator/src/main.rs).                    *)
(*                                                                         *)
(* The rules of every AuthentikNamespacePolicy are evaluated twice: by the *)
(* webhook of whichever replica the API server asks, before a CR is        *)
(* stored, and by the leader each time it reconciles the CR.  Each replica *)
(* reads its own store of the policies, of an age of its own, and a CR on  *)
(* a local instance is not governed by them.                               *)
(*                                                                         *)
(* Abstractions: a rule names the namespaces it matches, a policy is its   *)
(* rules, in no order.  There may be one instance of each kind, both of    *)
(* the name the CRs refer to, and they only come; the binding is           *)
(* InstanceBinding's.  A CR is reconciled from its current version; of its *)
(* spec and its object only the instance is kept.  A CR name is used once.  *)
(* Every replica knows the cluster kinds (without them nothing is refused) *)
(* and has listed the policies once (until then each call lists them); the *)
(* webhook's instances are those there are.  Left out: what the webhook    *)
(* denies for other reasons (a kind not its own, a list that fails), and   *)
(* the Vault paths of an application.                                      *)
(***************************************************************************)
EXTENDS Naturals, Sequences

CONSTANTS
    Replicas,    \* of the operator
    Apps,        \* AuthentikApplications
    Accesses,    \* AuthentikAccessPolicies
    AppOf,       \* AppOf[p]: the application access policy p refers to
    Namespaces,
    NsOf,        \* NsOf[c]: the namespace of c
    Policies,    \* AuthentikNamespacePolicies
    Rulings,     \* bound: the sets of rules an administrator writes
    AtFirst,     \* bound: the policies there are before anything else
    MaxChanges,  \* bound: changes of the policies
    MaxFaults,   \* bound: failed calls and failovers
    None         \* no instance, no policy

CRs == Apps \cup Accesses
Kinds == {"AuthentikApplication", "AuthentikAccessPolicy"}
KindOf(c) == IF c \in Apps THEN "AuthentikApplication" ELSE "AuthentikAccessPolicy"
InstanceKinds == {"Instance", "LocalInstance"}
Rules == [namespaces : SUBSET Namespaces, kinds : SUBSET Kinds, effect : {"Allow", "Deny"}]

ASSUME CRsAssumption ==
    /\ Apps \cap Accesses = {} /\ AppOf \in [Accesses -> Apps]
    /\ NsOf \in [CRs -> Namespaces]
    /\ \A p \in Accesses : NsOf[p] = NsOf[AppOf[p]]
ASSUME RulingsAssumption == Rulings \subseteq SUBSET Rules /\ None \notin Rulings
ASSUME BoundsAssumption ==
    /\ Replicas # {} /\ None \notin InstanceKinds
    /\ AtFirst \subseteq [Policies -> Rulings \cup {None}]
    /\ MaxChanges \in Nat /\ MaxFaults \in Nat

Snapshots == [Policies -> Rulings \cup {None}]
Outcomes == {"none", "synced", "denied", "unresolved", "failed"}
Version ==  \* a CR
    [phase : {"absent", "live", "deleting", "gone"},
     instance : InstanceKinds \cup {None},  \* status.instance
     id : BOOLEAN,                          \* status.authentikId is set
     ready : Outcomes]
Work == [bound : InstanceKinds \cup {None}, outcome : Outcomes]
Steps == {"idle", "call", "publish", "cleaned"}

VARIABLES
    log,            \* the policies there were, after each change of them
    seen,           \* seen[r]: the last change that r's store holds
    cr,             \* the CRs
    there,          \* the kinds there is an instance of
    leader,         \* the replica that reconciles
    due, pc, loc,   \* its reconciles: scheduled, under way
    remote,         \* remote[c]: the instance c's object is on
    faults          \* what is left of the budget

policies == <<log, seen>>
vars == <<policies, cr, there, leader, due, pc, loc, remote, faults>>

-----------------------------------------------------------------------------
Blank == [phase |-> "absent", instance |-> None, id |-> FALSE, ready |-> "none"]
NoWork == [bound |-> None, outcome |-> "none"]
Present(c) == cr[c].phase \in {"live", "deleting"}
Current == log[Len(log)]

Goto(c, step, work) ==
    /\ pc' = [pc EXCEPT ![c] = step]
    /\ loc' = [loc EXCEPT ![c] = work]

Init ==
    /\ log \in {<<s>> : s \in AtFirst} /\ seen = [r \in Replicas |-> 1]
    /\ cr = [c \in CRs |-> Blank]
    /\ there = {}
    /\ leader = CHOOSE r \in Replicas : TRUE
    /\ due = {} /\ pc = [c \in CRs |-> "idle"] /\ loc = [c \in CRs |-> NoWork]
    /\ remote = [c \in CRs |-> None]
    /\ faults = MaxFaults
-----------------------------------------------------------------------------
(* The rules.                                                              *)

Existing(s) == {p \in Policies : s[p] # None}

\* A rule of that effect for c, in any policy.
Matching(s, c, effect) ==
    \E p \in Existing(s) : \E rule \in s[p] :
        NsOf[c] \in rule.namespaces /\ KindOf(c) \in rule.kinds /\ rule.effect = effect

\* check: nothing is allowed by default once there is a policy, and a Deny wins.
Allowed(s, c) ==
    Existing(s) = {} \/ (Matching(s, c, "Allow") /\ ~Matching(s, c, "Deny"))

\* The policies as a replica knows them: one watch, in the order they changed.
Known(r) == log[seen[r]]

\* A bug: what is not bound yet is not governed.
GovernedOnceBound(bound) == bound = "Instance"

\* A local instance's own token bounds what its CRs can do.
Governed(bound) == bound # "LocalInstance"

\* policy_refusal, and the last part of admit.
Refusal(r, c, bound) == Governed(bound) /\ ~Allowed(Known(r), c)
-----------------------------------------------------------------------------
(* The instance.                                                           *)

\* A name designates the cluster instance before the local one; a recorded binding is
\* kept or refused, never switched.
Resolve(recorded) ==
    LET found == IF "Instance" \in there THEN "Instance"
                 ELSE IF "LocalInstance" \in there THEN "LocalInstance" ELSE None
    IN IF recorded \in {None, found} THEN found ELSE None

Recorded(a) == IF Present(a) THEN cr[a].instance ELSE None

\* The webhook's, and an access policy's: what is recorded is taken as it is.
BoundOf(a) == IF Recorded(a) # None THEN Recorded(a) ELSE Resolve(None)
WebhookBound(c) ==
    IF c \in Apps THEN BoundOf(c)
    ELSE IF Present(AppOf[c]) THEN BoundOf(AppOf[c]) ELSE None

\* An application's is resolved again.
ReconcileBound(c) ==
    IF c \in Apps THEN Resolve(Recorded(c)) ELSE WebhookBound(c)
-----------------------------------------------------------------------------
(* Administrators and users.                                               *)

Changes(s) == Len(log) <= MaxChanges /\ log' = Append(log, s)

AdminWrites(p, ruling) ==
    /\ ruling # Current[p] /\ Changes([Current EXCEPT ![p] = ruling])
    /\ UNCHANGED <<seen, cr, there, leader, due, pc, loc, remote, faults>>

AdminRemoves(p) ==
    /\ Current[p] # None /\ Changes([Current EXCEPT ![p] = None])
    /\ UNCHANGED <<seen, cr, there, leader, due, pc, loc, remote, faults>>

InstanceComes(k) ==
    /\ k \notin there /\ there' = there \cup {k}
    /\ UNCHANGED <<policies, cr, leader, due, pc, loc, remote, faults>>

\* The review of a create, or of an update of the spec, by one of the replicas.  What it
\* admits is stored: later, and its store would only have been older.
Admits(r, c) ==
    /\ cr[c].phase \in {"absent", "live"}
    /\ ~Refusal(r, c, WebhookBound(c))
    /\ cr' = [cr EXCEPT ![c].phase = "live"]
    /\ due' = due \cup {c}
    /\ UNCHANGED <<policies, there, leader, pc, loc, remote, faults>>

\* A deletion is not reviewed.
UserDeletes(c) ==
    /\ cr[c].phase = "live"
    /\ cr' = [cr EXCEPT ![c].phase = "deleting"]
    /\ due' = due \cup {c}
    /\ UNCHANGED <<policies, there, leader, pc, loc, remote, faults>>
-----------------------------------------------------------------------------
(* The leader.                                                             *)

\* A bug: only the CRs that were refused are woken.
WokenIfDenied == {c \in CRs : Present(c) /\ cr[c].ready = "denied"}

\* on_policy_change: every CR.  The removal of a policy may wake none: what is left of it
\* is not an object any more.
Woken == {c \in CRs : Present(c)}

Removal(n) == \E p \in Policies : log[n - 1][p] # None /\ log[n][p] = None

Learns(r) ==
    /\ seen[r] < Len(log)
    /\ LET n == seen[r] + 1
       IN /\ seen' = [seen EXCEPT ![r] = n]
          /\ \/ due' = IF r = leader THEN due \cup Woken ELSE due
             \/ Removal(n) /\ due' = due
    /\ UNCHANGED <<log, cr, there, leader, pc, loc, remote, faults>>

\* The steady re-check of what is Synced, or waits for a change.
Recheck(c) ==
    /\ Present(c) /\ c \notin due /\ due' = due \cup {c}
    /\ UNCHANGED <<policies, cr, there, leader, pc, loc, remote, faults>>

Starts(c) == pc[c] = "idle" /\ c \in due /\ due' = due \ {c}
Ends(c, outcome, bound) ==
    Goto(c, "publish", [bound |-> bound, outcome |-> outcome])

\* A bug: what was just admitted is not checked again.
RefusedOnceKnown(c, bound) == cr[c].ready # "none" /\ Refusal(leader, c, bound)

Refused(c, bound) == Refusal(leader, c, bound)

\* The refusal comes before an instance that cannot be resolved, and before an
\* application that is not there, or has no id yet.
Reconcile(c) ==
    /\ Starts(c) /\ cr[c].phase = "live"
    /\ LET bound == ReconcileBound(c)
           ready == bound # None /\ (c \in Accesses => cr[AppOf[c]].id)
       IN IF Refused(c, bound) THEN Ends(c, "denied", bound)
          ELSE IF ~ready THEN Ends(c, "unresolved", bound)
          ELSE Goto(c, "call", [bound |-> bound, outcome |-> "synced"])
    /\ UNCHANGED <<policies, cr, there, leader, remote, faults>>

Call(c) ==
    /\ pc[c] = "call"
    /\ remote' = [remote EXCEPT ![c] = loc[c].bound]
    /\ Goto(c, "publish", loc[c])
    /\ UNCHANGED <<policies, cr, there, leader, due, faults>>

\* requeue_after: soon, unless it is Synced or only a change can clear it, which is so of
\* an application whose name came to designate another instance than the one recorded.
Soon(c) ==
    \/ loc[c].outcome = "failed"
    \/ loc[c].outcome = "unresolved" /\ (c \in Apps => Recorded(c) = None)

\* A bug: the instance is left to be recorded by a later reconcile.
InstanceUnrecorded(c) == cr[c].instance

\* Whatever the outcome, the instance that was resolved is recorded.
InstanceRecorded(c) == IF loc[c].bound # None THEN loc[c].bound ELSE cr[c].instance

Publish(c) ==
    /\ pc[c] = "publish"
    /\ cr' = IF ~Present(c) THEN cr
             ELSE [cr EXCEPT
                ![c].instance = InstanceRecorded(c),
                ![c].id = @ \/ loc[c].outcome = "synced",
                ![c].ready = loc[c].outcome]
    /\ due' = IF Soon(c) THEN due \cup {c} ELSE due
    /\ Goto(c, "idle", NoWork)
    /\ UNCHANGED <<policies, there, leader, remote, faults>>

\* A bug: a cleanup is refused like a reconcile.
CleanupIfAllowed(c) ==
    /\ Starts(c) /\ cr[c].phase = "deleting"
    /\ ~Refusal(leader, c, cr[c].instance)
    /\ remote' = [remote EXCEPT ![c] = None]
    /\ Goto(c, "cleaned", NoWork)
    /\ UNCHANGED <<policies, cr, there, leader, faults>>

\* The policies have no say in a cleanup, nor the webhook in the removal of a finalizer.
Cleanup(c) ==
    /\ Starts(c) /\ cr[c].phase = "deleting"
    /\ remote' = [remote EXCEPT ![c] = None]
    /\ Goto(c, "cleaned", NoWork)
    /\ UNCHANGED <<policies, cr, there, leader, faults>>

RemoveFinalizer(c) ==
    /\ pc[c] = "cleaned"
    /\ cr' = IF Present(c) THEN [cr EXCEPT ![c].phase = "gone"] ELSE cr
    /\ Goto(c, "idle", NoWork)
    /\ UNCHANGED <<policies, there, leader, due, remote, faults>>
-----------------------------------------------------------------------------
(* Faults.                                                                 *)

Fault == faults > 0 /\ faults' = faults - 1

\* Of Authentik, recorded; of the status patch or of a cleanup, retried.
CallFails(c) ==
    /\ Fault
    /\ \/ /\ pc[c] = "call" /\ Goto(c, "publish", [loc[c] EXCEPT !.outcome = "failed"])
          /\ UNCHANGED due
       \/ /\ pc[c] \in {"publish", "cleaned"} /\ Goto(c, "idle", NoWork)
          /\ due' = due \cup {c}
    /\ UNCHANGED <<policies, cr, there, leader, remote>>

\* Another replica, or the one that restarts, goes on from the store it has.
Failover(r) ==
    /\ Fault
    /\ leader' = r
    /\ due' = {c \in CRs : Present(c)}
    /\ pc' = [c \in CRs |-> "idle"] /\ loc' = [c \in CRs |-> NoWork]
    /\ UNCHANGED <<policies, cr, there, remote>>
-----------------------------------------------------------------------------
WorkStep(c) == \/ Reconcile(c) \/ Call(c) \/ Publish(c) \/ Cleanup(c) \/ RemoveFinalizer(c)

Next ==
    \/ \E p \in Policies : AdminRemoves(p) \/ \E ruling \in Rulings : AdminWrites(p, ruling)
    \/ \E k \in InstanceKinds : InstanceComes(k)
    \/ \E r \in Replicas : Learns(r) \/ Failover(r) \/ \E c \in CRs : Admits(r, c)
    \/ \E c \in CRs : \/ UserDeletes(c) \/ Recheck(c)
                      \/ WorkStep(c) \/ CallFails(c)

Spec == Init /\ [][Next]_vars

\* The policies' watches deliver, a due reconcile is started and takes its next step.
Fairness ==
    /\ \A r \in Replicas : WF_vars(Learns(r))
    /\ \A c \in CRs : WF_vars(WorkStep(c))
FairSpec == Spec /\ Fairness

\* The steady re-check: every few minutes.
SteadyRechecks == \A c \in CRs : WF_vars(Recheck(c))
-----------------------------------------------------------------------------
(* Properties.                                                             *)

\* The values every variable ranges over; no replica knows of policies to come, an id is
\* recorded with its instance.
TypeOK ==
    /\ log \in Seq(Snapshots) /\ Len(log) \in 1..(MaxChanges + 1)
    /\ seen \in [Replicas -> 1..Len(log)]
    /\ cr \in [CRs -> Version] /\ \A c \in CRs : cr[c].id => cr[c].instance # None
    /\ there \subseteq InstanceKinds /\ leader \in Replicas
    /\ due \subseteq CRs /\ pc \in [CRs -> Steps] /\ loc \in [CRs -> Work]
    /\ remote \in [CRs -> InstanceKinds \cup {None}]
    /\ faults \in 0..MaxFaults

NeverAllowed(c) == \A n \in DOMAIN log : ~Allowed(log[n], c)

\* A CR that the policies allowed at no time has no object on the shared instance, not
\* even one that was admitted as a local instance's: whatever the stores' ages, the
\* order the policies were written in is the order they are known in, and an application
\* bound to the local instance is not taken over by the shared one.
SharedOnlyIfAllowed ==
    \A c \in CRs : NeverAllowed(c) => remote[c] # "Instance"

\* Nor is it stored, unless a local instance was there.
DeniedNeverStored ==
    \A c \in CRs : NeverAllowed(c) /\ "LocalInstance" \notin there
        => cr[c].phase = "absent"

\* What a reconcile of a live CR would come to under the current policies.
Verdict(c) ==
    LET bound == ReconcileBound(c)
    IN IF Governed(bound) /\ ~Allowed(Current, c) THEN "denied"
       ELSE IF bound = None \/ (c \in Accesses /\ ~cr[AppOf[c]].id) THEN "unresolved"
       ELSE "synced"

Settled ==
    \A c \in CRs :
        /\ cr[c].phase = "live" =>
            /\ cr[c].ready = Verdict(c)
            /\ cr[c].ready = "synced" => remote[c] = ReconcileBound(c)
        /\ cr[c].phase # "deleting"

\* With the steady re-check, every CR ends up judged by the policies there are and, when
\* allowed, applied; no policy keeps a deleted CR from its cleanup.
Settles == SteadyRechecks => <>[]Settled

\* Without it, a change of the policies still reaches every CR that has been applied on
\* the shared instance, as long as no policy is removed.
WokenByPolicies ==
    <>[](\A c \in CRs :
            /\ cr[c].phase = "live" /\ remote[c] = "Instance"
            /\ ReconcileBound(c) = "Instance"
            /\ \A n \in 2..Len(log) : ~Removal(n)
            => (cr[c].ready = "denied" <=> ~Allowed(Current, c)))
=============================================================================
