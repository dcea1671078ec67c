-------------------------- MODULE Admission_proofs --------------------------
(***************************************************************************)
(* What Admission promises for every number of replicas, CRs, namespaces,  *)
(* policies, changes of them and faults: its types, that nothing the       *)
(* policies never allowed reaches the shared instance, and that nothing    *)
(* of the kind is stored where there is no local instance.                 *)
(***************************************************************************)
EXTENDS Admission, SequenceTheorems, TLAPS

\* An outcome of success has an instance.
SyncedBound == \A c \in CRs : loc[c].outcome = "synced" => loc[c].bound # None

Typed == TypeOK /\ SyncedBound

-----------------------------------------------------------------------------
(* The values the state is built from.                                     *)

LEMMA BlankTypes == Blank \in Version /\ NoWork \in Work
  BY DEF Blank, NoWork, Version, Work, Outcomes

\* The current policies are those of the last change.
LEMMA CurrentType == TypeOK => Current \in Snapshots
  BY BoundsAssumption DEF TypeOK, Current

\* What a replica knows is one of the sets of policies there were.
LEMMA KnownPast ==
  ASSUME TypeOK, NEW r \in Replicas
  PROVE  seen[r] \in DOMAIN log /\ Known(r) = log[seen[r]]
  BY DEF TypeOK, Known

\* A name resolves to an instance that is there, or to none.
LEMMA ResolveThere ==
  ASSUME NEW recorded
  PROVE  Resolve(recorded) \in there \cup {None}
  BY DEF Resolve

\* A reconcile moved to a step with some work stays of its type.
LEMMA GotoType ==
  ASSUME TypeOK, NEW c \in CRs, NEW step \in Steps, NEW w \in Work, Goto(c, step, w)
  PROVE  pc' \in [CRs -> Steps] /\ loc' \in [CRs -> Work]
  BY DEF TypeOK, Goto

\* So does one whose other CRs keep their work.
LEMMA GotoSynced ==
  ASSUME Typed, NEW c \in CRs, NEW step, NEW w, Goto(c, step, w),
         w.outcome = "synced" => w.bound # None
  PROVE  SyncedBound'
  BY DEF Typed, TypeOK, SyncedBound, Goto

-----------------------------------------------------------------------------
(* Type correctness.                                                       *)

LEMMA InitTyped == Init => Typed
  <1> SUFFICES ASSUME Init PROVE Typed
    OBVIOUS
  <1>1. PICK s \in AtFirst : log = <<s>>
    BY DEF Init
  <1>2. s \in Snapshots
    BY BoundsAssumption DEF Snapshots
  <1>3. log \in Seq(Snapshots) /\ Len(log) = 1
    BY <1>1, <1>2
  <1>4. leader \in Replicas
    BY BoundsAssumption DEF Init
  <1>5. TypeOK
    BY <1>3, <1>4, BlankTypes, BoundsAssumption DEF Init, TypeOK, Steps, Blank
  <1>6. SyncedBound
    BY DEF Init, SyncedBound, NoWork
  <1>7. QED BY <1>5, <1>6 DEF Typed

\* A change of the policies adds one set of them to the history.
LEMMA ChangesType ==
  ASSUME TypeOK, NEW s \in Snapshots, Changes(s)
  PROVE  /\ log' \in Seq(Snapshots) /\ Len(log') = Len(log) + 1
         /\ Len(log') \in 1..(MaxChanges + 1)
         /\ \A n \in DOMAIN log : n \in DOMAIN log' /\ log'[n] = log[n]
  BY BoundsAssumption DEF TypeOK, Changes

\* Administrators and users.
LEMMA PeopleTyped ==
  ASSUME Typed,
         \/ \E p \in Policies : AdminRemoves(p) \/ \E ruling \in Rulings : AdminWrites(p, ruling)
         \/ \E k \in InstanceKinds : InstanceComes(k)
         \/ \E c \in CRs : UserDeletes(c) \/ Recheck(c) \/ \E r \in Replicas : Admits(r, c)
  PROVE  Typed'
  <1> USE DEF Typed
  <1>1. ASSUME NEW s \in Snapshots, Changes(s),
               UNCHANGED <<seen, cr, there, leader, due, pc, loc, remote, faults>>
        PROVE  Typed'
    <2>1. seen' \in [Replicas -> 1..Len(log')]
      BY <1>1, ChangesType DEF TypeOK
    <2>2. QED BY <1>1, <2>1, ChangesType DEF TypeOK, SyncedBound
  <1>2. ASSUME NEW p \in Policies, AdminRemoves(p) PROVE Typed'
    <2>1. [Current EXCEPT ![p] = None] \in Snapshots
      BY CurrentType DEF Snapshots
    <2>2. QED BY <1>1, <1>2, <2>1 DEF AdminRemoves
  <1>3. ASSUME NEW p \in Policies, NEW ruling \in Rulings, AdminWrites(p, ruling) PROVE Typed'
    <2>1. [Current EXCEPT ![p] = ruling] \in Snapshots
      BY CurrentType DEF Snapshots
    <2>2. QED BY <1>1, <1>3, <2>1 DEF AdminWrites
  <1>4. ASSUME NEW k \in InstanceKinds, InstanceComes(k) PROVE Typed'
    BY <1>4 DEF InstanceComes, policies, TypeOK, SyncedBound
  <1>5. ASSUME NEW c \in CRs, NEW r \in Replicas, Admits(r, c) PROVE Typed'
    <2>1. [cr[c] EXCEPT !.phase = "live"] \in Version
      BY DEF TypeOK, Version
    <2>2. QED BY <1>5, <2>1 DEF Admits, policies, TypeOK, SyncedBound
  <1>6. ASSUME NEW c \in CRs, UserDeletes(c) PROVE Typed'
    <2>1. [cr[c] EXCEPT !.phase = "deleting"] \in Version
      BY DEF TypeOK, Version
    <2>2. QED BY <1>6, <2>1 DEF UserDeletes, policies, TypeOK, SyncedBound
  <1>7. ASSUME NEW c \in CRs, Recheck(c) PROVE Typed'
    BY <1>7 DEF Recheck, policies, TypeOK, SyncedBound
  <1>8. QED BY <1>2, <1>3, <1>4, <1>5, <1>6, <1>7

\* The replicas.
LEMMA ReplicaTyped ==
  ASSUME Typed, NEW r \in Replicas, Learns(r) \/ Failover(r)
  PROVE  Typed'
  <1> USE DEF Typed
  <1>1. CASE Learns(r)
    <2>1. seen[r] + 1 \in 1..Len(log)
      BY <1>1 DEF Learns, TypeOK
    <2>2. due' \subseteq CRs
      BY <1>1 DEF Learns, TypeOK, Woken
    <2>3. QED BY <1>1, <2>1, <2>2 DEF Learns, TypeOK, SyncedBound
  <1>2. CASE Failover(r)
    <2>1. faults' \in 0..MaxFaults
      BY <1>2, BoundsAssumption DEF Failover, Fault, TypeOK
    <2>2. SyncedBound'
      BY <1>2 DEF Failover, SyncedBound, NoWork
    <2>3. QED BY <1>2, <2>1, <2>2, BlankTypes DEF Failover, policies, TypeOK, Steps
  <1>3. QED BY <1>1, <1>2

\* What a reconcile is bound to is an instance or none.
LEMMA BoundType ==
  ASSUME TypeOK, NEW c \in CRs
  PROVE  /\ WebhookBound(c) \in InstanceKinds \cup {None}
         /\ ReconcileBound(c) \in InstanceKinds \cup {None}
  <1>1. ASSUME NEW a \in CRs PROVE BoundOf(a) \in InstanceKinds \cup {None}
    BY ResolveThere DEF TypeOK, BoundOf, Recorded, Version
  <1>2. c \in Accesses => AppOf[c] \in CRs
    BY CRsAssumption DEF CRs
  <1>3. WebhookBound(c) \in InstanceKinds \cup {None}
    BY <1>1, <1>2 DEF WebhookBound, CRs
  <1>4. QED BY <1>3, ResolveThere DEF ReconcileBound, TypeOK

LEMMA WorkTyped ==
  ASSUME Typed, NEW c \in CRs, WorkStep(c) \/ CallFails(c)
  PROVE  Typed'
  <1> USE DEF Typed
  <1>1. loc[c] \in Work /\ cr[c] \in Version
    BY DEF TypeOK
  <1>2. CASE Reconcile(c)
    <2> DEFINE bound == ReconcileBound(c)
    <2>1. \A outcome \in Outcomes : [bound |-> bound, outcome |-> outcome] \in Work
      BY BoundType DEF Work
    <2>2. pc' \in [CRs -> Steps] /\ loc' \in [CRs -> Work]
      BY <1>2, <2>1, GotoType DEF Reconcile, Ends, Steps, Outcomes
    <2>3. SyncedBound'
      BY <1>2, GotoSynced DEF Reconcile, Ends
    <2>4. QED BY <1>2, <2>2, <2>3 DEF Reconcile, Starts, policies, TypeOK
  <1>3. CASE Call(c)
    <2>1. pc' \in [CRs -> Steps] /\ loc' \in [CRs -> Work]
      BY <1>1, <1>3, GotoType DEF Call, Steps
    <2>2. SyncedBound'
      BY <1>3, GotoSynced DEF Call, SyncedBound
    <2>3. remote' \in [CRs -> InstanceKinds \cup {None}]
      BY <1>1, <1>3 DEF Call, TypeOK, Work
    <2>4. QED BY <1>3, <2>1, <2>2, <2>3 DEF Call, policies, TypeOK
  <1>4. CASE Publish(c)
    <2>1. pc' \in [CRs -> Steps] /\ loc' \in [CRs -> Work]
      BY <1>4, BlankTypes, GotoType DEF Publish, Steps
    <2>2. SyncedBound'
      BY <1>4, GotoSynced DEF Publish, NoWork
    <2>3. InstanceRecorded(c) \in InstanceKinds \cup {None}
      BY <1>1 DEF InstanceRecorded, Version, Work
    <2> DEFINE v == [cr[c] EXCEPT !.instance = InstanceRecorded(c),
                                  !.id = @ \/ loc[c].outcome = "synced",
                                  !.ready = loc[c].outcome]
    <2>4. v \in Version
      BY <1>1, <2>3 DEF Version, Work
    <2>5. v.id => v.instance # None
      <3>1. v.id => cr[c].id \/ loc[c].outcome = "synced"
        BY <1>1 DEF Version
      <3>2. v.instance = InstanceRecorded(c)
        BY <1>1 DEF Version
      <3>3. QED BY <3>1, <3>2 DEF InstanceRecorded, TypeOK, SyncedBound
    <2>6. cr' = cr \/ cr' = [cr EXCEPT ![c] = v]
      BY <1>4 DEF Publish
    <2>7. cr' \in [CRs -> Version] /\ \A d \in CRs : cr'[d].id => cr'[d].instance # None
      BY <2>4, <2>5, <2>6 DEF TypeOK
    <2>8. QED BY <1>4, <2>1, <2>2, <2>7 DEF Publish, policies, TypeOK
  <1>5. CASE Cleanup(c)
    <2>1. pc' \in [CRs -> Steps] /\ loc' \in [CRs -> Work]
      BY <1>5, BlankTypes, GotoType DEF Cleanup, Steps
    <2>2. SyncedBound'
      BY <1>5, GotoSynced DEF Cleanup, NoWork
    <2>3. QED BY <1>5, <2>1, <2>2 DEF Cleanup, Starts, policies, TypeOK
  <1>6. CASE RemoveFinalizer(c)
    <2>1. pc' \in [CRs -> Steps] /\ loc' \in [CRs -> Work]
      BY <1>6, BlankTypes, GotoType DEF RemoveFinalizer, Steps
    <2>2. SyncedBound'
      BY <1>6, GotoSynced DEF RemoveFinalizer, NoWork
    <2>3. [cr[c] EXCEPT !.phase = "gone"] \in Version
      BY <1>1 DEF Version
    <2>4. QED BY <1>6, <2>1, <2>2, <2>3 DEF RemoveFinalizer, policies, TypeOK
  <1>7. CASE CallFails(c)
    <2>1. [loc[c] EXCEPT !.outcome = "failed"] \in Work
      BY <1>1 DEF Work, Outcomes
    <2>2. pc' \in [CRs -> Steps] /\ loc' \in [CRs -> Work]
      BY <1>7, <2>1, BlankTypes, GotoType DEF CallFails, Steps
    <2>3. SyncedBound'
      BY <1>1, <1>7, GotoSynced DEF CallFails, NoWork, Work
    <2>4. faults' \in 0..MaxFaults
      BY <1>7, BoundsAssumption DEF CallFails, Fault, TypeOK
    <2>5. QED BY <1>7, <2>2, <2>3, <2>4 DEF CallFails, policies, TypeOK
  <1>8. QED BY <1>2, <1>3, <1>4, <1>5, <1>6, <1>7 DEF WorkStep

LEMMA NextTyped == Typed /\ [Next]_vars => Typed'
  <1> SUFFICES ASSUME Typed, [Next]_vars PROVE Typed'
    OBVIOUS
  <1>1. CASE UNCHANGED vars
    BY <1>1 DEF vars, policies, Typed, TypeOK, SyncedBound
  <1>2. CASE Next
    BY <1>2, PeopleTyped, ReplicaTyped, WorkTyped DEF Next
  <1>3. QED BY <1>1, <1>2

\* Every variable keeps to its values, no replica knows of policies that were not
\* written, and an id is recorded with the instance it is of, whatever fails.
THEOREM TypeCorrect == Spec => []TypeOK
  BY InitTyped, NextTyped, PTL DEF Spec, Typed

-----------------------------------------------------------------------------
(* SharedOnlyIfAllowed.  It is not inductive: the call of a reconcile under *)
(* way makes the object, after the policies were looked at.  What is on its *)
(* way to the shared instance was allowed once, too.                        *)

CallsAllowed == \A c \in CRs : NeverAllowed(c) /\ pc[c] = "call" => loc[c].bound # "Instance"

Shared == SharedOnlyIfAllowed /\ CallsAllowed

\* What was allowed stays so: the history is only added to.
LEMMA HistoryGrows ==
  ASSUME TypeOK, [Next]_vars
  PROVE  \A n \in DOMAIN log : n \in DOMAIN log' /\ log'[n] = log[n]
  <1>1. CASE log' = log
    BY <1>1
  <1>2. ASSUME NEW s \in Snapshots, Changes(s)
        PROVE  \A n \in DOMAIN log : n \in DOMAIN log' /\ log'[n] = log[n]
    BY <1>2, ChangesType
  <1>3. ASSUME NEW p \in Policies, AdminRemoves(p) PROVE \E s \in Snapshots : Changes(s)
    <2>1. [Current EXCEPT ![p] = None] \in Snapshots
      BY CurrentType DEF Snapshots
    <2>2. QED BY <1>3, <2>1 DEF AdminRemoves
  <1>4. ASSUME NEW p \in Policies, NEW ruling \in Rulings, AdminWrites(p, ruling)
        PROVE  \E s \in Snapshots : Changes(s)
    <2>1. [Current EXCEPT ![p] = ruling] \in Snapshots
      BY CurrentType DEF Snapshots
    <2>2. QED BY <1>4, <2>1 DEF AdminWrites
  <1>5. QED
    BY <1>1, <1>2, <1>3, <1>4
    DEF Next, vars, policies, InstanceComes, Learns, Failover, Admits, UserDeletes, Recheck,
        WorkStep, Reconcile, Call, Publish, Cleanup, RemoveFinalizer, CallFails

LEMMA NeverAllowedBefore ==
  ASSUME TypeOK, [Next]_vars, NEW c \in CRs, NeverAllowed(c)'
  PROVE  NeverAllowed(c)
  BY HistoryGrows DEF NeverAllowed, Allowed, Existing, Matching

\* Whichever replica looks, and however old its store, it refuses what was never allowed.
LEMMA RefusedByAll ==
  ASSUME TypeOK, NEW c \in CRs, NeverAllowed(c), NEW r \in Replicas, NEW bound,
         ~Refusal(r, c, bound)
  PROVE  bound = "LocalInstance"
  BY KnownPast DEF NeverAllowed, Refusal, Governed

LEMMA InitShared == Init => Shared
  BY BoundsAssumption DEF Init, Shared, SharedOnlyIfAllowed, CallsAllowed, InstanceKinds

\* A step of a reconcile, by which its CR alone changes.
LEMMA WorkShared ==
  ASSUME TypeOK, Shared, [Next]_vars, NEW c \in CRs, WorkStep(c) \/ CallFails(c)
  PROVE  Shared'
  <1> SUFFICES ASSUME NEW d \in CRs, NeverAllowed(d)'
               PROVE  /\ remote'[d] # "Instance"
                      /\ pc'[d] = "call" => loc'[d].bound # "Instance"
    BY DEF Shared, SharedOnlyIfAllowed, CallsAllowed
  <1>1. /\ NeverAllowed(d)
        /\ remote[d] # "Instance" /\ (pc[d] = "call" => loc[d].bound # "Instance")
    BY NeverAllowedBefore DEF Shared, SharedOnlyIfAllowed, CallsAllowed
  <1>2. None # "Instance"
    BY BoundsAssumption DEF InstanceKinds
  <1> USE <1>1, <1>2 DEF TypeOK, Goto
  <1>3. CASE Reconcile(c)
    <2>1. remote' = remote
      BY <1>3 DEF Reconcile
    <2>2. CASE d = c /\ pc'[d] = "call"
      <3>1. ~Refusal(leader, c, ReconcileBound(c)) /\ loc'[c].bound = ReconcileBound(c)
        BY <1>3, <2>2 DEF Reconcile, Refused, Ends
      <3>2. ReconcileBound(c) = "LocalInstance"
        BY <2>2, <3>1, RefusedByAll
      <3>3. QED BY <2>1, <2>2, <3>1, <3>2
    <2>3. CASE d # c
      BY <1>3, <2>1, <2>3 DEF Reconcile, Ends
    <2>4. QED BY <2>1, <2>2, <2>3
  <1>4. CASE Call(c)
    BY <1>4 DEF Call
  <1>5. CASE Publish(c) \/ Cleanup(c) \/ RemoveFinalizer(c) \/ CallFails(c)
    BY <1>5 DEF Publish, Cleanup, RemoveFinalizer, CallFails
  <1>6. QED BY <1>3, <1>4, <1>5 DEF WorkStep

LEMMA NextShared == TypeOK /\ Shared /\ [Next]_vars => Shared'
  <1> SUFFICES ASSUME TypeOK, Shared, [Next]_vars PROVE Shared'
    OBVIOUS
  <1>1. CASE UNCHANGED <<pc, loc, remote>>
    BY <1>1, NeverAllowedBefore DEF Shared, SharedOnlyIfAllowed, CallsAllowed
  <1>2. ASSUME NEW r \in Replicas, Failover(r) PROVE Shared'
    BY <1>2, NeverAllowedBefore DEF Failover, Shared, SharedOnlyIfAllowed, CallsAllowed
  <1>3. QED
    BY <1>1, <1>2, WorkShared
    DEF Next, vars, AdminRemoves, AdminWrites, InstanceComes, Learns, Admits, UserDeletes, Recheck

\* A CR that the policies allowed at no time has no object on the shared instance,
\* for any number of replicas of whatever ages, rules, restarts and failovers.
THEOREM AllowedOnShared == Spec => []SharedOnlyIfAllowed
  BY InitTyped, NextTyped, InitShared, NextShared, PTL DEF Spec, Typed, Shared

-----------------------------------------------------------------------------
(* DeniedNeverStored.  The webhook takes a recorded instance as it is, and  *)
(* a reconcile records what it resolved earlier: both are still there.      *)

BoundThere == \A c \in CRs :
    cr[c].instance \in there \cup {None} /\ loc[c].bound \in there \cup {None}

Stored == BoundThere /\ DeniedNeverStored

LEMMA BoundResolves ==
  ASSUME BoundThere, NEW c \in CRs
  PROVE  WebhookBound(c) \in there \cup {None} /\ ReconcileBound(c) \in there \cup {None}
  <1>1. ASSUME NEW a \in CRs PROVE BoundOf(a) \in there \cup {None}
    BY ResolveThere DEF BoundThere, BoundOf, Recorded
  <1>2. c \in Accesses => AppOf[c] \in CRs
    BY CRsAssumption DEF CRs
  <1>3. WebhookBound(c) \in there \cup {None}
    BY <1>1, <1>2 DEF WebhookBound, CRs
  <1>4. QED BY <1>3, ResolveThere DEF ReconcileBound

LEMMA InitStored == Init => Stored
  BY DEF Init, Stored, BoundThere, DeniedNeverStored, Blank, NoWork

\* The work of a reconcile that moved is bound to an instance that is there.
LEMMA GotoBound ==
  ASSUME TypeOK, BoundThere, NEW c \in CRs, NEW step, NEW w, Goto(c, step, w),
         w.bound \in there \cup {None}
  PROVE  \A d \in CRs : loc'[d].bound \in there \cup {None}
  BY DEF TypeOK, BoundThere, Goto

LEMMA NextBound == TypeOK /\ BoundThere /\ [Next]_vars => BoundThere'
  <1> SUFFICES ASSUME TypeOK, BoundThere, [Next]_vars PROVE BoundThere'
    OBVIOUS
  <1> USE DEF BoundThere
  <1>1. CASE UNCHANGED <<cr, loc>> /\ there \subseteq there'
    BY <1>1
  <1>2. ASSUME NEW c \in CRs, NEW r \in Replicas, Admits(r, c) PROVE BoundThere'
    BY <1>2 DEF Admits, TypeOK, Version
  <1>3. ASSUME NEW c \in CRs, UserDeletes(c) PROVE BoundThere'
    BY <1>3 DEF UserDeletes, TypeOK, Version
  <1>4. ASSUME NEW r \in Replicas, Failover(r) PROVE BoundThere'
    BY <1>4 DEF Failover, NoWork
  <1>5. ASSUME NEW c \in CRs, Reconcile(c) PROVE BoundThere'
    BY <1>5, BoundResolves, GotoBound DEF Reconcile, Ends
  <1>6. ASSUME NEW c \in CRs, Call(c) PROVE BoundThere'
    BY <1>6, GotoBound DEF Call
  <1>7. ASSUME NEW c \in CRs, Publish(c) PROVE BoundThere'
    <2>1. \A d \in CRs : loc'[d].bound \in there \cup {None}
      BY <1>7, GotoBound DEF Publish, NoWork
    <2>2. InstanceRecorded(c) \in there \cup {None}
      BY DEF InstanceRecorded
    <2>3. \A d \in CRs : cr'[d].instance \in there \cup {None}
      BY <1>7, <2>2 DEF Publish, TypeOK, Version
    <2>4. QED BY <1>7, <2>1, <2>3 DEF Publish
  <1>8. ASSUME NEW c \in CRs, Cleanup(c) PROVE BoundThere'
    BY <1>8, GotoBound DEF Cleanup, NoWork
  <1>9. ASSUME NEW c \in CRs, RemoveFinalizer(c) PROVE BoundThere'
    <2>1. \A d \in CRs : loc'[d].bound \in there \cup {None}
      BY <1>9, GotoBound DEF RemoveFinalizer, NoWork
    <2>2. QED BY <1>9, <2>1 DEF RemoveFinalizer, TypeOK, Version
  <1>10. ASSUME NEW c \in CRs, CallFails(c) PROVE BoundThere'
    <2>1. [loc[c] EXCEPT !.outcome = "failed"].bound = loc[c].bound
      BY DEF TypeOK, Work
    <2>2. QED BY <1>10, <2>1, GotoBound DEF CallFails, NoWork
  <1>11. QED
    BY <1>1, <1>2, <1>3, <1>4, <1>5, <1>6, <1>7, <1>8, <1>9, <1>10
    DEF Next, vars, policies, AdminRemoves, AdminWrites, InstanceComes, Learns, Recheck, WorkStep

LEMMA NextStored == TypeOK /\ Stored /\ [Next]_vars => DeniedNeverStored'
  <1> SUFFICES ASSUME TypeOK, Stored, [Next]_vars, NEW d \in CRs, NeverAllowed(d)',
                      "LocalInstance" \notin there'
               PROVE  cr'[d].phase = "absent"
    BY DEF DeniedNeverStored
  <1>1. NeverAllowed(d)
    BY NeverAllowedBefore
  <1>2. there \subseteq there'
    BY DEF Next, vars, policies, AdminRemoves, AdminWrites, InstanceComes, Learns, Failover,
       Admits, UserDeletes, Recheck, WorkStep, Reconcile, Call, Publish, Cleanup,
       RemoveFinalizer, CallFails
  <1>3. cr[d].phase = "absent"
    BY <1>1, <1>2 DEF Stored, DeniedNeverStored
  <1>4. ASSUME NEW c \in CRs, NEW r \in Replicas, Admits(r, c) PROVE cr'[d] = cr[d]
    <2>1. WebhookBound(c) # "LocalInstance"
      BY <1>2, BoundResolves, BoundsAssumption DEF Stored, InstanceKinds
    <2>2. ~NeverAllowed(c)
      BY <1>4, <2>1, RefusedByAll DEF Admits
    <2>3. QED BY <1>1, <1>4, <2>2 DEF Admits
  <1>5. ASSUME NEW c \in CRs, UserDeletes(c) PROVE cr'[d] = cr[d]
    BY <1>3, <1>5 DEF UserDeletes
  <1>6. ASSUME NEW c \in CRs, Publish(c) \/ RemoveFinalizer(c) PROVE cr'[d] = cr[d]
    <2>1. ~Present(d)
      BY <1>3 DEF Present
    <2>2. CASE c = d
      BY <1>6, <2>1, <2>2 DEF Publish, RemoveFinalizer
    <2>3. ASSUME NEW v, cr' = [cr EXCEPT ![c] = v], c # d PROVE cr'[d] = cr[d]
      BY <2>3 DEF TypeOK
    <2>4. QED BY <1>6, <2>2, <2>3 DEF Publish, RemoveFinalizer
  <1>7. cr'[d] = cr[d]
    BY <1>4, <1>5, <1>6
    DEF Next, vars, policies, AdminRemoves, AdminWrites, InstanceComes, Learns, Failover,
        Recheck, WorkStep, Reconcile, Call, Cleanup, CallFails
  <1>8. QED BY <1>3, <1>7

\* Nor is such a CR stored where there never was a local instance: every replica of
\* the webhook turns it away, at any time.
THEOREM DeniedTurnedAway == Spec => []DeniedNeverStored
  BY InitTyped, NextTyped, InitStored, NextBound, NextStored, PTL DEF Spec, Typed, Stored
=============================================================================
