------------------------ MODULE RemoteObject_proofs ------------------------
(***************************************************************************)
(* What RemoteObject promises for every number of CRs, names, generations, *)
(* undelivered versions, faults and edits: its types, and, for the kinds   *)
(* addressed by primary key, that a CR never records, patches or deletes   *)
(* an object that is not its own; the same of flows, as long as no two CRs *)
(* are given one slug and people keep off the slugs of CRs.                *)
(***************************************************************************)
EXTENDS RemoteObject, TLAPS

-----------------------------------------------------------------------------
(* The values every piece of the state is built from.                      *)

\* The name the blank records start from exists.
LEMMA SomeName == (CHOOSE n \in Names : TRUE) \in Names
  BY NameAssumption

\* Generations fit their range, and so does the one after an edit.
LEMMA Generations ==
  /\ 0 \in 0..MaxGen /\ 1 \in 0..MaxGen
  /\ \A g \in 0..MaxGen : g < MaxGen => g + 1 \in 0..MaxGen
  BY BoundsAssumption

\* The records Init is built from are of their types.
LEMMA BlankTypes == Blank \in Version /\ NoWork \in Work /\ NoObject \in Object
  <1>1. Blank \in Version
    BY SomeName, BoundsAssumption DEF Blank, Version
  <1>2. NoWork \in Work
    BY SomeName, BoundsAssumption DEF NoWork, Work, Fields
  <1>3. NoObject \in Object
    BY SomeName, BoundsAssumption DEF NoObject, Object
  <1>4. QED BY <1>1, <1>2, <1>3

\* A CR written to with a version stays of its type, and so does what the watch
\* has to deliver.
LEMMA WriteType ==
  ASSUME TypeOK, NEW c \in CRs, NEW v \in Version, Write(c, v)
  PROVE  api' \in [CRs -> Version] /\ pending' \in [CRs -> Seq(Version)]
  BY DEF TypeOK, Write

\* A reconcile moved to a step with some work stays of its type.
LEMMA GotoType ==
  ASSUME TypeOK, NEW c \in CRs, NEW step \in Steps, NEW w \in Work, Goto(c, step, w)
  PROVE  pc' \in [CRs -> Steps] /\ loc' \in [CRs -> Work]
  BY DEF TypeOK, Goto

\* The id of an object is one a status may hold.
LEMMA IdOfType ==
  ASSUME TypeOK, NEW u \in Uids
  PROVE  IdOf(u) \in Ids
  BY DEF TypeOK, IdOf, Ids, Object

\* So is the id an outcome records, unless it is none.
LEMMA OutIdType ==
  ASSUME TypeOK, NEW c \in CRs
  PROVE  OutId(c) \in Ids \cup {NoId}
  BY DEF TypeOK, OutId, Ids, Work

\* Whichever copy a kind applies, it is a version.
LEMMA AppliedSpecType ==
  ASSUME TypeOK, NEW c \in CRs
  PROVE  AppliedSpec(c) \in Version
  BY KindAssumption DEF TypeOK, AppliedSpec, Kinds, GroupSpec, UserSpec, OutpostSpec,
     FlowSpec, ScopeMappingSpec

\* What a PATCH and a create leave in Authentik are objects.
LEMMA PatchedType ==
  ASSUME TypeOK, NEW c \in CRs, NEW u \in Uids
  PROVE  Patched(c, u) \in Object
  BY DEF TypeOK, Patched, Object, Work

LEMMA NewObjectType ==
  ASSUME TypeOK, NEW c \in CRs
  PROVE  NewObject(c) \in Object
  BY DEF TypeOK, NewObject, Object, Work

\* Uids are numbers, and those in use among them.
LEMMA MadeUids ==
  ASSUME TypeOK
  PROVE  /\ 1..made \subseteq Uids
         /\ made < MaxUid => made + 1 \in Uids /\ made + 1 \in 0..MaxUid
  BY BoundsAssumption DEF TypeOK, Uids

-----------------------------------------------------------------------------
(* Type correctness, one lemma per party.                                  *)

LEMMA InitType == Init => TypeOK
  BY BlankTypes, BoundsAssumption DEF Init, TypeOK, Steps

\* The people who own the CRs, and the importer.
LEMMA UserImportType ==
  ASSUME TypeOK, NEW c \in CRs, UserStep(c) \/ ImportStep(c)
  PROVE  TypeOK'
  <1> USE BlankTypes
  <1>1. ASSUME NEW n \in Names, UserCreates(c, n) PROVE TypeOK'
    <2>1. [Blank EXCEPT !.phase = "live", !.gen = 1, !.name = n] \in Version
      BY Generations DEF Version
    <2>2. QED BY <1>1, <2>1, WriteType DEF UserCreates, TypeOK
  <1>2. ASSUME NEW n \in Names, UserEdits(c, n) PROVE TypeOK'
    <2>1. api[c] \in Version /\ api[c].gen + 1 \in 0..MaxGen
      BY <1>2, Generations DEF UserEdits, TypeOK, Version
    <2>2. [api[c] EXCEPT !.gen = @ + 1, !.name = n] \in Version
      BY <2>1, Zenon DEF Version
    <2>3. QED BY <1>2, <2>2, WriteType DEF UserEdits, TypeOK
  <1>3. ASSUME UserDeletes(c) PROVE TypeOK'
    <2>1. [api[c] EXCEPT !.phase = IF api[c].fin THEN "deleting" ELSE "gone"] \in Version
      BY DEF TypeOK, Version
    <2>2. QED BY <1>3, <2>1, WriteType DEF UserDeletes, TypeOK
  <1>4. ASSUME UserOrphans(c) PROVE TypeOK'
    <2>1. [api[c] EXCEPT !.orphan = TRUE] \in Version
      BY DEF TypeOK, Version
    <2>2. QED BY <1>4, <2>1, WriteType DEF UserOrphans, TypeOK
  <1>5. ASSUME NEW u \in 1..made, ImportCreates(c, u) PROVE TypeOK'
    <2>1. u \in Uids /\ IdOf(u) \in Ids
      BY MadeUids, IdOfType
    <2>2. objs[u].name \in Names
      BY <2>1 DEF TypeOK, Object
    <2>3. [Blank EXCEPT !.phase = "live", !.paused = TRUE, !.gen = 1,
                        !.name = objs[u].name] \in Version
      BY <2>2, Generations DEF Version
    <2>4. QED BY <1>5, <2>1, <2>3, WriteType DEF ImportCreates, TypeOK
  <1>6. ASSUME ImportSeeds(c) PROVE TypeOK'
    <2>1. [api[c] EXCEPT !.id = seeds[c]] \in Version
      BY DEF TypeOK, Version
    <2>2. ASSUME NEW u \in Uids PROVE [objs[u] EXCEPT !.owner = c] \in Object
      BY DEF TypeOK, Object
    <2>3. objs' \in [Uids -> Object]
      BY <1>6, <2>2 DEF ImportSeeds, TypeOK
    <2>4. QED BY <1>6, <2>1, <2>3, WriteType DEF ImportSeeds, TypeOK
  <1>7. ASSUME ImportReleases(c) PROVE TypeOK'
    <2>1. [api[c] EXCEPT !.paused = FALSE] \in Version
      BY DEF TypeOK, Version
    <2>2. QED BY <1>7, <2>1, WriteType DEF ImportReleases, TypeOK
  <1>8. QED
    BY <1>1, <1>2, <1>3, <1>4, <1>5, <1>6, <1>7 DEF UserStep, ImportStep

\* People in Authentik.
LEMMA HumanType ==
  ASSUME TypeOK, HumanStep
  PROVE  TypeOK'
  <1>1. ASSUME NEW n \in Names, HumanCreates(n) PROVE TypeOK'
    <2>1. [owner |-> Human, name |-> n, body |-> 0, live |-> TRUE] \in Object
      BY BoundsAssumption DEF Object
    <2>2. made + 1 \in Uids /\ made + 1 \in 0..MaxUid
      BY <1>1, MadeUids DEF HumanCreates
    <2>3. human - 1 \in 0..MaxHuman
      BY <1>1, BoundsAssumption DEF HumanCreates, TypeOK
    <2>4. QED BY <1>1, <2>1, <2>2, <2>3 DEF HumanCreates, TypeOK
  <1>2. ASSUME NEW u \in 1..made, NEW n \in Names, HumanEdits(u, n) PROVE TypeOK'
    <2>1. u \in Uids
      BY MadeUids
    <2>2. [[objs[u] EXCEPT !.name = n] EXCEPT !.body = 0] \in Object
      BY <2>1, Generations DEF TypeOK, Object
    <2>3. objs' = [objs EXCEPT ![u] = [[objs[u] EXCEPT !.name = n] EXCEPT !.body = 0]]
      BY <1>2, <2>1 DEF HumanEdits, TypeOK
    <2>4. QED BY <1>2, <2>1, <2>2, <2>3, BoundsAssumption DEF HumanEdits, TypeOK
  <1>3. ASSUME NEW u \in 1..made, HumanDeletes(u) PROVE TypeOK'
    <2>1. u \in Uids
      BY MadeUids
    <2>2. [objs[u] EXCEPT !.live = FALSE] \in Object
      BY <2>1 DEF TypeOK, Object
    <2>3. QED BY <1>3, <2>1, <2>2, BoundsAssumption DEF HumanDeletes, TypeOK
  <1>4. QED BY <1>1, <1>2, <1>3 DEF HumanStep

\* The operator's steps.
LEMMA OperatorType ==
  ASSUME TypeOK, NEW c \in CRs, OperatorStep(c)
  PROVE  TypeOK'
  <1>1. ASSUME Deliver(c) PROVE TypeOK'
    <2>1. Head(pending[c]) \in Version /\ Tail(pending[c]) \in Seq(Version)
      BY <1>1 DEF Deliver, TypeOK
    <2>2. QED BY <1>1, <2>1 DEF Deliver, TypeOK
  <1>2. ASSUME AddFinalizer(c) PROVE TypeOK'
    <2>1. api[c] \in Version
      BY DEF TypeOK
    <2>2. [api[c] EXCEPT !.fin = TRUE] \in Version
      BY <2>1, Zenon DEF Version
    <2>3. QED BY <1>2, <2>2, WriteType DEF AddFinalizer, TypeOK
  <1>3. ASSUME Fetch(c) PROVE TypeOK'
    <2>1. [gen |-> AppliedSpec(c).gen, name |-> AppliedSpec(c).name, id |-> api[c].id,
           rgen |-> api[c].gen, drift |-> {}, out |-> NoId] \in Work
      BY AppliedSpecType DEF TypeOK, Version, Work
    <2>2. QED BY <1>3, <2>1, GotoType DEF Fetch, TypeOK, Steps
  <1>4. ASSUME Retrieve(c) PROVE TypeOK'
    <2>1. loc[c] \in Work
      BY DEF TypeOK
    <2>2. [loc[c] EXCEPT !.out = OutId(c)] \in Work
      BY <2>1, OutIdType DEF Work
    <2>3. ASSUME NEW u PROVE [loc[c] EXCEPT !.drift = DriftOf(c, u)] \in Work
      BY <2>1 DEF Work, DriftOf
    <2>4. pc' \in [CRs -> Steps] /\ loc' \in [CRs -> Work]
      BY <1>4, <2>1, <2>2, <2>3, GotoType DEF Retrieve, Steps
    <2>5. QED BY <1>4, <2>4 DEF Retrieve, TypeOK
  <1>5. ASSUME Patch(c) PROVE TypeOK'
    <2>1. loc[c] \in Work
      BY DEF TypeOK
    <2>2. [loc[c] EXCEPT !.out = OutId(c)] \in Work
      BY <2>1, OutIdType DEF Work
    <2>3. pc' \in [CRs -> Steps] /\ loc' \in [CRs -> Work]
      BY <1>5, <2>1, <2>2, GotoType DEF Patch, Steps
    <2>4. At(loc[c].id) \subseteq Uids
      BY MadeUids DEF At
    <2>5. objs' \in [Uids -> Object]
      BY <1>5, <2>4, PatchedType DEF Patch, TypeOK
    <2>6. QED BY <1>5, <2>3, <2>5 DEF Patch, TypeOK
  <1>6. ASSUME Create(c) PROVE TypeOK'
    <2>1. loc[c] \in Work
      BY DEF TypeOK
    <2>2. CASE Taken(loc[c].name)
      <3>1. pc' \in [CRs -> Steps] /\ loc' \in [CRs -> Work]
        BY <1>6, <2>1, <2>2, GotoType DEF Create, Steps
      <3>2. QED BY <1>6, <2>2, <3>1 DEF Create, TypeOK
    <2>3. CASE ~Taken(loc[c].name)
      <3>1. made + 1 \in Uids /\ made + 1 \in 0..MaxUid
        BY <1>6, <2>3, MadeUids DEF Create
      <3>2. (IF SlugKeyed THEN loc[c].name ELSE made + 1) \in Ids
        BY <2>1, <3>1 DEF Ids, Work
      <3>3. [loc[c] EXCEPT !.out = IF SlugKeyed THEN loc[c].name ELSE made + 1] \in Work
        BY <2>1, <3>2 DEF Work
      <3>4. pc' \in [CRs -> Steps] /\ loc' \in [CRs -> Work]
        BY <1>6, <2>3, <3>3, GotoType DEF Create, Steps
      <3>5. QED BY <1>6, <2>3, <3>1, <3>4, NewObjectType DEF Create, TypeOK
    <2>4. QED BY <2>2, <2>3
  <1>7. ASSUME Publish(c) PROVE TypeOK'
    <2>1. pc' \in [CRs -> Steps] /\ loc' \in [CRs -> Work]
      BY <1>7, BlankTypes, GotoType DEF Publish, Steps
    <2>2. api[c] \in Version /\ loc[c] \in Work
      BY DEF TypeOK
    <2>3. /\ [api[c] EXCEPT !.id = loc[c].out, !.ready = "synced",
                            !.observed = loc[c].rgen] \in Version
          /\ [api[c] EXCEPT !.ready = "failed"] \in Version
      BY <2>2, Zenon DEF Version, Work
    <2>4. api' \in [CRs -> Version] /\ pending' \in [CRs -> Seq(Version)]
      BY <1>7, <2>3, WriteType DEF Publish, TypeOK
    <2>5. QED BY <1>7, <2>1, <2>4 DEF Publish, TypeOK
  <1>8. ASSUME Cleanup(c) PROVE TypeOK'
    <2>1. (IF cache[c].orphan THEN NoId ELSE cache[c].id) \in Ids \cup {NoId}
      BY DEF TypeOK, Version
    <2>2. [NoWork EXCEPT !.id = IF cache[c].orphan THEN NoId ELSE cache[c].id] \in Work
      BY <2>1, BlankTypes DEF Work
    <2>3. pc' \in [CRs -> Steps] /\ loc' \in [CRs -> Work]
      BY <1>8, <2>2, GotoType DEF Cleanup, Steps
    <2>4. ASSUME NEW u \in Uids PROVE [objs[u] EXCEPT !.live = FALSE] \in Object
      BY DEF TypeOK, Object
    <2>5. objs' \in [Uids -> Object]
      BY <1>8, <2>4 DEF Cleanup, TypeOK
    <2>6. QED BY <1>8, <2>3, <2>5 DEF Cleanup, TypeOK
  <1>9. ASSUME RemoveFinalizer(c) PROVE TypeOK'
    <2>1. pc' \in [CRs -> Steps] /\ loc' \in [CRs -> Work]
      BY <1>9, BlankTypes, GotoType DEF RemoveFinalizer, Steps
    <2>2. api[c] \in Version
      BY DEF TypeOK
    <2>3. [api[c] EXCEPT !.fin = FALSE, !.phase = "gone"] \in Version
      BY <2>2, Zenon DEF Version
    <2>4. api' \in [CRs -> Version] /\ pending' \in [CRs -> Seq(Version)]
      BY <1>9, <2>3, WriteType DEF RemoveFinalizer, TypeOK
    <2>5. QED BY <1>9, <2>1, <2>4 DEF RemoveFinalizer, TypeOK
  <1>10. QED
    BY <1>1, <1>2, <1>3, <1>4, <1>5, <1>6, <1>7, <1>8, <1>9 DEF OperatorStep

\* The faults.
LEMMA FaultType ==
  ASSUME TypeOK, Crash \/ \E c \in CRs : FaultStep(c)
  PROVE  TypeOK'
  <1>1. ASSUME Fault PROVE faults' \in 0..MaxFaults
    BY <1>1, BoundsAssumption DEF Fault, TypeOK
  <1>2. ASSUME Crash PROVE TypeOK'
    BY <1>1, <1>2, BlankTypes DEF Crash, TypeOK, Steps
  <1>3. ASSUME NEW c \in CRs, CallFails(c) PROVE TypeOK'
    <2>1. pc' \in [CRs -> Steps] /\ loc' \in [CRs -> Work]
      BY <1>3, GotoType DEF CallFails, TypeOK, Steps
    <2>2. QED BY <1>1, <1>3, <2>1 DEF CallFails, TypeOK
  <1>4. ASSUME NEW c \in CRs, ReplyLost(c) PROVE TypeOK'
    <2>1. pc' \in [CRs -> Steps] /\ loc' \in [CRs -> Work]
      BY <1>4, GotoType DEF ReplyLost, TypeOK, Steps
    <2>2. At(loc[c].id) \subseteq Uids
      BY MadeUids DEF At
    <2>3. made' \in 0..MaxUid /\ objs' \in [Uids -> Object]
      <3>1. CASE made' = made
        BY <1>4, <2>2, <3>1, PatchedType, NewObjectType, MadeUids DEF ReplyLost, TypeOK
      <3>2. CASE made' # made
        BY <1>4, <3>2, NewObjectType, MadeUids DEF ReplyLost, TypeOK
      <3>3. QED BY <3>1, <3>2
    <2>4. QED BY <1>1, <1>4, <2>1, <2>3 DEF ReplyLost, TypeOK
  <1>5. ASSUME NEW c \in CRs, WriteBackFails(c) PROVE TypeOK'
    <2>1. pc' \in [CRs -> Steps] /\ loc' \in [CRs -> Work]
      BY <1>5, BlankTypes, GotoType DEF WriteBackFails, Steps
    <2>2. QED BY <1>1, <1>5, <2>1 DEF WriteBackFails, TypeOK
  <1>6. QED BY <1>2, <1>3, <1>4, <1>5 DEF FaultStep

\* Every step keeps the types.
LEMMA NextType == TypeOK /\ [Next]_vars => TypeOK'
  <1> SUFFICES ASSUME TypeOK, [Next]_vars PROVE TypeOK'
    OBVIOUS
  <1>1. CASE UNCHANGED vars
    BY <1>1 DEF vars, TypeOK
  <1>2. CASE Next
    BY <1>2, UserImportType, HumanType, OperatorType, FaultType DEF Next
  <1>3. QED BY <1>1, <1>2

\* Every variable keeps to the values the code can put there: no status, no watch
\* delivery and no reconcile under way ever holds an id, a step or a generation
\* out of range, on any number of CRs and under any faults.
THEOREM TypeCorrect == Spec => []TypeOK
  BY InitType, NextType, PTL DEF Spec

-----------------------------------------------------------------------------
(* Ownership, for the kinds addressed by primary key.  RecordedIsOwned is   *)
(* not inductive: the next record comes from the reconcile under way, the   *)
(* next reconcile from the watch cache, the cache from a version not yet    *)
(* delivered, and a seed from what the importer read.  All of them are the  *)
(* CR's own, and a seed is still nobody else's.                             *)

PrimaryKeyed == ~SlugKeyed

\* An id c may hold when the objects are 1..m with the contents o.
OwnedIn(m, o, c, id) == id # NoId => id \in 1..m /\ (o[id].live => o[id].owner = c)

RecordsOwned == \A c \in CRs :
    /\ OwnedIn(made, objs, c, api[c].id)
    /\ \A i \in 1..Len(pending[c]) : OwnedIn(made, objs, c, pending[c][i].id)
CacheOwned == \A c \in CRs : OwnedIn(made, objs, c, cache[c].id)
WorkOwned == \A c \in CRs :
    OwnedIn(made, objs, c, loc[c].id) /\ OwnedIn(made, objs, c, loc[c].out)
SeedsReserved == \A c \in CRs : seeds[c] # NoId =>
    /\ seeds[c] \in 1..made
    /\ objs[seeds[c]].owner \in {Human, c}
    /\ \A d \in CRs : seeds[d] = seeds[c] => d = c

Ownership == RecordsOwned /\ CacheOwned /\ WorkOwned /\ SeedsReserved

\* No step revives an object, or takes it from a CR.
ObjectsKept ==
    /\ made' \in 0..MaxUid /\ made <= made'
    /\ \A u \in 1..made :
          /\ objs'[u].live => objs[u].live
          /\ objs[u].owner \in {objs'[u].owner, Human}

\* Short of an import, it is not given to one either.
OwnersKept == \A u \in 1..made : objs'[u].owner = objs[u].owner

\* What a CR may hold it may still hold when objects are kept.
LEMMA OwnedKept ==
  ASSUME TypeOK, ObjectsKept
  PROVE  \A c \in CRs : \A id : OwnedIn(made, objs, c, id) => OwnedIn(made', objs', c, id)
  BY OwnerAssumption DEF TypeOK, ObjectsKept, OwnedIn

\* What is in a sequence after an Append was there or is what was appended.
LEMMA AppendElements ==
  ASSUME NEW S, NEW s \in Seq(S), NEW v \in S, NEW i \in 1..Len(Append(s, v))
  PROVE  Append(s, v)[i] = v \/ (i \in 1..Len(s) /\ Append(s, v)[i] = s[i])
  <1>1. Len(s) \in Nat /\ Len(Append(s, v)) = Len(s) + 1
    OBVIOUS
  <1>2. CASE i = Len(s) + 1
    BY <1>1, <1>2
  <1>3. CASE i # Len(s) + 1
    BY <1>1, <1>3
  <1>4. QED BY <1>2, <1>3

\* A version whose id is the CR's own keeps every record the CR's own.
LEMMA WriteOwned ==
  ASSUME TypeOK, ObjectsKept, RecordsOwned, NEW c \in CRs, NEW v \in Version,
         Write(c, v), OwnedIn(made', objs', c, v.id)
  PROVE  RecordsOwned'
  <1> SUFFICES ASSUME NEW d \in CRs
               PROVE  /\ OwnedIn(made', objs', d, api'[d].id)
                      /\ \A i \in 1..Len(pending'[d]) :
                            OwnedIn(made', objs', d, pending'[d][i].id)
    BY DEF RecordsOwned, OwnedIn
  <1>1. OwnedIn(made', objs', d, api'[d].id)
    BY OwnedKept DEF Write, TypeOK, RecordsOwned
  <1>2. CASE pending' = pending \/ d # c
    BY <1>2, OwnedKept DEF Write, TypeOK, RecordsOwned
  <1>3. CASE pending' = [pending EXCEPT ![c] = Append(@, v)] /\ d = c
    <2>1. pending[c] \in Seq(Version) /\ pending'[c] = Append(pending[c], v)
      BY <1>3 DEF TypeOK
    <2>2. ASSUME NEW i \in 1..Len(pending'[d])
          PROVE  OwnedIn(made', objs', d, pending'[d][i].id)
      <3>1. pending'[d][i] = v \/ (i \in 1..Len(pending[c]) /\ pending'[d][i] = pending[c][i])
        BY <1>3, <2>1, AppendElements
      <3>2. QED BY <1>3, <3>1, OwnedKept DEF RecordsOwned
    <2>3. QED BY <1>1, <2>2
  <1>4. QED BY <1>1, <1>2, <1>3 DEF Write

\* Records nobody writes to stay the CR's own.
LEMMA RecordsKept ==
  ASSUME TypeOK, ObjectsKept, RecordsOwned, UNCHANGED <<api, pending>>
  PROVE  RecordsOwned'
  BY OwnedKept DEF RecordsOwned, OwnedIn

LEMMA CacheKept ==
  ASSUME TypeOK, ObjectsKept, CacheOwned, UNCHANGED cache
  PROVE  CacheOwned'
  BY OwnedKept DEF CacheOwned, OwnedIn

LEMMA WorkKept ==
  ASSUME TypeOK, ObjectsKept, WorkOwned, UNCHANGED loc
  PROVE  WorkOwned'
  BY OwnedKept DEF WorkOwned, OwnedIn

LEMMA SeedsKept ==
  ASSUME TypeOK, ObjectsKept, SeedsReserved, UNCHANGED seeds, OwnersKept
  PROVE  SeedsReserved'
  <1>1. 1..made \subseteq 1..made'
    BY DEF ObjectsKept, TypeOK
  <1>2. \A u \in 1..made : objs'[u].owner = objs[u].owner
    BY DEF OwnersKept
  <1>3. QED BY <1>1, <1>2 DEF SeedsReserved

\* Work whose ids are the CR's own keeps every reconcile on the CR's own.
LEMMA GotoOwned ==
  ASSUME TypeOK, ObjectsKept, WorkOwned, NEW c \in CRs, NEW step, NEW w, Goto(c, step, w),
         OwnedIn(made', objs', c, w.id), OwnedIn(made', objs', c, w.out)
  PROVE  WorkOwned'
  <1> SUFFICES ASSUME NEW d \in CRs
               PROVE  /\ OwnedIn(made', objs', d, loc'[d].id)
                      /\ OwnedIn(made', objs', d, loc'[d].out)
    BY DEF WorkOwned, OwnedIn
  <1>1. CASE d = c
    BY <1>1 DEF Goto, TypeOK
  <1>2. CASE d # c
    BY <1>2, OwnedKept DEF Goto, TypeOK, WorkOwned
  <1>3. QED BY <1>1, <1>2

\* A step that leaves the objects alone keeps them.
LEMMA SameObjects ==
  ASSUME TypeOK, UNCHANGED <<made, objs>>
  PROVE  ObjectsKept /\ OwnersKept
  BY DEF TypeOK, ObjectsKept, OwnersKept

LEMMA InitOwnership == Init => Ownership
  BY DEF Init, Ownership, RecordsOwned, CacheOwned, WorkOwned, SeedsReserved, OwnedIn,
     Blank, NoWork

\* The owners of the CRs write no id; the importer writes the one it reserved, and
\* makes what it designates the CR's.
LEMMA UserImportOwnership ==
  ASSUME TypeOK, Ownership, PrimaryKeyed, NEW c \in CRs, UserStep(c) \/ ImportStep(c)
  PROVE  Ownership'
  <1> USE DEF Ownership
  <1>1. ASSUME NEW v \in Version, Write(c, v), v.id \in {api[c].id, NoId},
               UNCHANGED <<cache, loc, made, objs, seeds>>
        PROVE  Ownership'
    <2>1. ObjectsKept /\ OwnersKept
      BY <1>1, SameObjects
    <2>2. OwnedIn(made', objs', c, v.id)
      BY <1>1 DEF RecordsOwned, OwnedIn
    <2>3. RecordsOwned'
      BY <1>1, <2>1, <2>2, WriteOwned
    <2>4. QED BY <1>1, <2>1, <2>3, CacheKept, WorkKept, SeedsKept
  <1>2. CASE UserStep(c)
    <2>1. Blank.id = NoId /\ api[c] \in Version
      BY DEF Blank, TypeOK
    <2>2. ASSUME NEW n \in Names, UserCreates(c, n) PROVE Ownership'
      <3>1. [Blank EXCEPT !.phase = "live", !.gen = 1, !.name = n] \in Version
        BY BlankTypes, Generations DEF Version
      <3>2. [Blank EXCEPT !.phase = "live", !.gen = 1, !.name = n].id = NoId
        BY BlankTypes, <2>1 DEF Version
      <3>3. QED BY <1>1, <2>2, <3>1, <3>2 DEF UserCreates
    <2>3. ASSUME NEW n \in Names, UserEdits(c, n) PROVE Ownership'
      <3>1. api[c].gen + 1 \in 0..MaxGen
        BY <2>1, <2>3, Generations DEF UserEdits, Version
      <3>2. [api[c] EXCEPT !.gen = @ + 1, !.name = n] \in Version
        BY <2>1, <3>1, Zenon DEF Version
      <3>3. [api[c] EXCEPT !.gen = @ + 1, !.name = n].id = api[c].id
        BY <2>1, Zenon DEF Version
      <3>4. QED BY <1>1, <2>3, <3>2, <3>3 DEF UserEdits
    <2>4. ASSUME UserDeletes(c) PROVE Ownership'
      <3>1. DEFINE v == [api[c] EXCEPT !.phase = IF api[c].fin THEN "deleting" ELSE "gone"]
      <3>2. v \in Version /\ v.id = api[c].id
        BY <2>1 DEF Version
      <3>3. QED BY <1>1, <2>4, <3>2 DEF UserDeletes
    <2>5. ASSUME UserOrphans(c) PROVE Ownership'
      <3>1. DEFINE v == [api[c] EXCEPT !.orphan = TRUE]
      <3>2. v \in Version /\ v.id = api[c].id
        BY <2>1, Zenon DEF Version
      <3>3. QED BY <1>1, <2>5, <3>2 DEF UserOrphans
    <2>6. QED BY <1>2, <2>2, <2>3, <2>4, <2>5 DEF UserStep
  <1>3. ASSUME NEW u \in 1..made, ImportCreates(c, u) PROVE Ownership'
    <2>1. ObjectsKept /\ OwnersKept
      BY <1>3, SameObjects DEF ImportCreates
    <2>2. IdOf(u) = u /\ u \in Uids /\ objs[u].name \in Names
      BY MadeUids DEF IdOf, PrimaryKeyed, TypeOK, Object
    <2>3. DEFINE v == [Blank EXCEPT !.phase = "live", !.paused = TRUE, !.gen = 1,
                                    !.name = objs[u].name]
    <2>4. v \in Version /\ v.id = NoId
      BY <2>2, BlankTypes, Generations DEF Version, Blank
    <2>5. RecordsOwned'
      BY <1>3, <2>1, <2>4, WriteOwned DEF ImportCreates, OwnedIn
    <2>6. SeedsReserved'
      BY <1>3, <2>2 DEF ImportCreates, SeedsReserved, TypeOK
    <2>7. QED BY <1>3, <2>1, <2>5, <2>6, CacheKept, WorkKept DEF ImportCreates
  <1>4. ASSUME ImportSeeds(c) PROVE Ownership'
    <2>1. ASSUME NEW u \in Uids
          PROVE  /\ objs'[u].live = objs[u].live
                 /\ objs'[u].owner = IF u \in At(seeds[c]) /\ objs[u].owner = Human
                                     THEN c ELSE objs[u].owner
      BY <1>4 DEF ImportSeeds, TypeOK, Object
    <2>2. ObjectsKept
      BY <1>4, <2>1, MadeUids DEF ImportSeeds, ObjectsKept, TypeOK
    <2>3. OwnedIn(made', objs', c, seeds[c])
      <3>1. CASE seeds[c] = NoId
        BY <3>1 DEF OwnedIn
      <3>2. CASE seeds[c] # NoId
        <4>1. seeds[c] \in 1..made /\ objs[seeds[c]].owner \in {Human, c}
          BY <3>2 DEF SeedsReserved
        <4>2. objs[seeds[c]].live => seeds[c] \in At(seeds[c])
          BY <4>1 DEF At, IdOf, PrimaryKeyed
        <4>3. QED BY <1>4, <2>1, <4>1, <4>2, MadeUids DEF OwnedIn, ImportSeeds
      <3>3. QED BY <3>1, <3>2
    <2>4. DEFINE v == [api[c] EXCEPT !.id = seeds[c]]
    <2>5. v \in Version /\ v.id = seeds[c]
      <3>1. api[c] \in Version /\ seeds[c] \in Ids \cup {NoId}
        BY DEF TypeOK
      <3>2. QED BY <3>1, Zenon DEF Version
    <2>6. RecordsOwned'
      BY <1>4, <2>2, <2>3, <2>5, WriteOwned DEF ImportSeeds
    <2>7. ASSUME NEW d \in CRs, seeds[d] # NoId
          PROVE  objs'[seeds[d]].owner \in {Human, d}
      <3>1. seeds[d] \in 1..made /\ objs[seeds[d]].owner \in {Human, d} /\ seeds[d] \in Uids
        BY <2>7, MadeUids DEF SeedsReserved
      <3>2. CASE seeds[d] \in At(seeds[c])
        <4>1. seeds[d] = seeds[c]
          BY <3>2 DEF At, IdOf, PrimaryKeyed
        <4>2. d = c
          BY <2>7, <4>1 DEF SeedsReserved
        <4>3. QED BY <2>1, <3>1, <4>2
      <3>3. CASE seeds[d] \notin At(seeds[c])
        BY <2>1, <3>1, <3>3
      <3>4. QED BY <3>2, <3>3
    <2>8. SeedsReserved'
      BY <1>4, <2>7 DEF ImportSeeds, SeedsReserved
    <2>9. QED BY <1>4, <2>2, <2>6, <2>8, CacheKept, WorkKept DEF ImportSeeds
  <1>5. ASSUME ImportReleases(c) PROVE Ownership'
    <2>1. DEFINE v == [api[c] EXCEPT !.paused = FALSE]
    <2>2. v \in Version /\ v.id = api[c].id
      <3>1. api[c] \in Version
        BY DEF TypeOK
      <3>2. QED BY <3>1, Zenon DEF Version
    <2>3. QED BY <1>1, <1>5, <2>2 DEF ImportReleases
  <1>6. QED BY <1>2, <1>3, <1>4, <1>5 DEF ImportStep

\* People never give an object to a CR, nor take its.
LEMMA HumanOwnership ==
  ASSUME TypeOK, Ownership, HumanStep
  PROVE  Ownership'
  <1>1. /\ UNCHANGED <<api, cache, pending, loc, seeds>>
        /\ ObjectsKept /\ OwnersKept
    <2>1. ASSUME NEW n \in Names, HumanCreates(n)
          PROVE  UNCHANGED <<api, cache, pending, loc, seeds>> /\ ObjectsKept /\ OwnersKept
      BY <2>1, MadeUids DEF HumanCreates, ObjectsKept, OwnersKept, TypeOK
    <2>2. ASSUME NEW u \in 1..made, NEW n \in Names, HumanEdits(u, n)
          PROVE  UNCHANGED <<api, cache, pending, loc, seeds>> /\ ObjectsKept /\ OwnersKept
      <3>1. ASSUME NEW w \in Uids
            PROVE  objs'[w].owner = objs[w].owner /\ objs'[w].live = objs[w].live
        BY <2>2, MadeUids DEF HumanEdits, TypeOK, Object
      <3>2. QED BY <2>2, <3>1, MadeUids DEF HumanEdits, ObjectsKept, OwnersKept, TypeOK
    <2>3. ASSUME NEW u \in 1..made, HumanDeletes(u)
          PROVE  UNCHANGED <<api, cache, pending, loc, seeds>> /\ ObjectsKept /\ OwnersKept
      <3>1. ASSUME NEW w \in Uids
            PROVE  objs'[w].owner = objs[w].owner /\ (objs'[w].live => objs[w].live)
        BY <2>3, MadeUids DEF HumanDeletes, TypeOK, Object
      <3>2. QED BY <2>3, <3>1, MadeUids DEF HumanDeletes, ObjectsKept, OwnersKept, TypeOK
    <2>4. QED BY <2>1, <2>2, <2>3 DEF HumanStep
  <1>2. QED BY <1>1, RecordsKept, CacheKept, WorkKept, SeedsKept DEF Ownership

\* A create makes the object, the CR's, that its outcome names.
LEMMA CreateKeeps ==
  ASSUME TypeOK, PrimaryKeyed, NEW c \in CRs, made < MaxUid, made' = made + 1,
         objs' = [objs EXCEPT ![made + 1] = NewObject(c)]
  PROVE  ObjectsKept /\ OwnersKept /\ OwnedIn(made', objs', c, made + 1)
  <1>1. made + 1 \in Uids /\ made' \in 0..MaxUid
    BY MadeUids
  <1>2. objs'[made + 1] = NewObject(c) /\ NewObject(c).owner = c
    BY <1>1 DEF TypeOK, NewObject
  <1>3. \A u \in 1..made : objs'[u] = objs[u]
    BY DEF TypeOK
  <1>4. QED BY <1>1, <1>2, <1>3 DEF ObjectsKept, OwnersKept, OwnedIn, TypeOK

\* A PATCH leaves an object with its owner.
LEMMA PatchKeeps ==
  ASSUME TypeOK, NEW c \in CRs, NEW u \in At(loc[c].id), UNCHANGED made,
         objs' = [objs EXCEPT ![u] = Patched(c, u)]
  PROVE  ObjectsKept /\ OwnersKept
  <1>1. u \in Uids
    BY MadeUids DEF At
  <1>2. Patched(c, u).owner = objs[u].owner /\ Patched(c, u).live = objs[u].live
    BY <1>1 DEF Patched, TypeOK, Object
  <1>3. \A w \in 1..made : objs'[w].owner = objs[w].owner /\ objs'[w].live = objs[w].live
    BY <1>1, <1>2, MadeUids DEF TypeOK
  <1>4. QED BY <1>3 DEF ObjectsKept, OwnersKept, TypeOK

\* A delete leaves owners alone.
LEMMA CleanupKeeps ==
  ASSUME TypeOK, NEW c \in CRs, Cleanup(c)
  PROVE  ObjectsKept /\ OwnersKept
  <1>1. \A w \in Uids : objs'[w].owner = objs[w].owner /\ (objs'[w].live => objs[w].live)
    BY DEF Cleanup, TypeOK, Object
  <1>2. QED BY <1>1, MadeUids DEF Cleanup, ObjectsKept, OwnersKept, TypeOK

\* Each step of a reconcile hands on ids that are the CR's own.
LEMMA OperatorOwnership ==
  ASSUME TypeOK, Ownership, PrimaryKeyed, NEW c \in CRs, OperatorStep(c)
  PROVE  Ownership'
  <1> USE DEF Ownership
  <1>a. NoWork.id = NoId /\ NoWork.out = NoId /\ loc[c] \in Work
    BY DEF NoWork, TypeOK
  <1>b. OutId(c) = loc[c].id
    BY DEF OutId, PrimaryKeyed
  <1>1. ASSUME Deliver(c) PROVE Ownership'
    <2>1. ObjectsKept /\ OwnersKept
      BY <1>1, SameObjects DEF Deliver
    <2>2. pending[c] \in Seq(Version) /\ pending[c] # <<>>
      BY <1>1 DEF Deliver, TypeOK
    <2>3. Len(pending[c]) \in Nat /\ Len(pending[c]) > 0 /\ Head(pending[c]) = pending[c][1]
      BY <2>2
    <2>4. OwnedIn(made, objs, c, Head(pending[c]).id)
      BY <2>3 DEF RecordsOwned
    <2>5. CacheOwned'
      BY <1>1, <2>4 DEF Deliver, CacheOwned, OwnedIn, TypeOK
    <2>6. ASSUME NEW i \in 1..Len(Tail(pending[c]))
          PROVE  Tail(pending[c])[i] = pending[c][i + 1] /\ i + 1 \in 1..Len(pending[c])
      BY <2>2, <2>3
    <2>7. RecordsOwned'
      BY <1>1, <2>6 DEF Deliver, RecordsOwned, OwnedIn, TypeOK
    <2>8. QED BY <1>1, <2>1, <2>5, <2>7, WorkKept, SeedsKept DEF Deliver
  <1>2. ASSUME AddFinalizer(c) PROVE Ownership'
    <2>1. ObjectsKept /\ OwnersKept
      BY <1>2, SameObjects DEF AddFinalizer
    <2>2. DEFINE v == [api[c] EXCEPT !.fin = TRUE]
    <2>3. v \in Version /\ v.id = api[c].id
      <3>1. api[c] \in Version
        BY DEF TypeOK
      <3>2. QED BY <3>1, Zenon DEF Version
    <2>4. OwnedIn(made', objs', c, v.id)
      BY <2>1, <2>3, OwnedKept DEF RecordsOwned
    <2>5. RecordsOwned'
      BY <1>2, <2>1, <2>3, <2>4, WriteOwned DEF AddFinalizer
    <2>6. QED BY <1>2, <2>1, <2>5, CacheKept, WorkKept, SeedsKept DEF AddFinalizer
  <1>3. ASSUME Fetch(c) PROVE Ownership'
    <2>1. ObjectsKept /\ OwnersKept
      BY <1>3, SameObjects DEF Fetch
    <2>2. OwnedIn(made', objs', c, api[c].id) /\ OwnedIn(made', objs', c, NoId)
      BY <2>1, OwnedKept DEF RecordsOwned, OwnedIn
    <2>3. WorkOwned'
      BY <1>3, <2>1, <2>2, GotoOwned DEF Fetch
    <2>4. QED BY <1>3, <2>1, <2>3, RecordsKept, CacheKept, SeedsKept DEF Fetch
  <1>4. ASSUME NEW step, NEW w, Goto(c, step, w), w.id = loc[c].id,
               w.out \in {loc[c].out, loc[c].id} \/ OwnedIn(made', objs', c, w.out),
               ObjectsKept, OwnersKept, UNCHANGED <<api, cache, pending, seeds>>
        PROVE  Ownership'
    <2>1. OwnedIn(made', objs', c, w.id) /\ OwnedIn(made', objs', c, w.out)
      BY <1>4, OwnedKept DEF WorkOwned
    <2>2. WorkOwned'
      BY <1>4, <2>1, GotoOwned
    <2>3. QED BY <1>4, <2>2, RecordsKept, CacheKept, SeedsKept
  <1>5. ASSUME NEW id PROVE /\ [loc[c] EXCEPT !.out = id].id = loc[c].id
                            /\ [loc[c] EXCEPT !.out = id].out = id
    BY <1>a DEF Work
  <1>6. ASSUME Retrieve(c) PROVE Ownership'
    <2>1. ObjectsKept /\ OwnersKept
      BY <1>6, SameObjects DEF Retrieve
    <2>2. ASSUME NEW u PROVE /\ [loc[c] EXCEPT !.drift = DriftOf(c, u)].id = loc[c].id
                             /\ [loc[c] EXCEPT !.drift = DriftOf(c, u)].out = loc[c].out
      BY <1>a DEF Work
    <2>3. QED BY <1>4, <1>5, <1>6, <1>b, <2>1, <2>2 DEF Retrieve
  <1>7. ASSUME Patch(c) PROVE Ownership'
    <2>1. ObjectsKept /\ OwnersKept
      BY <1>7, SameObjects, PatchKeeps DEF Patch
    <2>2. QED BY <1>4, <1>5, <1>7, <1>b, <2>1 DEF Patch
  <1>8. ASSUME Create(c) PROVE Ownership'
    <2>1. CASE Taken(loc[c].name)
      BY <1>4, <1>8, <2>1, SameObjects DEF Create
    <2>2. CASE ~Taken(loc[c].name)
      <3>1. ObjectsKept /\ OwnersKept /\ OwnedIn(made', objs', c, made + 1)
        BY <1>8, <2>2, CreateKeeps DEF Create
      <3>2. Goto(c, "synced", [loc[c] EXCEPT !.out = made + 1])
        BY <1>8, <2>2 DEF Create, PrimaryKeyed
      <3>3. QED BY <1>4, <1>5, <1>8, <3>1, <3>2 DEF Create
    <2>3. QED BY <2>1, <2>2
  <1>9. ASSUME Publish(c) PROVE Ownership'
    <2>1. ObjectsKept /\ OwnersKept
      BY <1>9, SameObjects DEF Publish
    <2>2. WorkOwned'
      BY <1>9, <1>a, <2>1, GotoOwned DEF Publish, OwnedIn
    <2>3. DEFINE v == [api[c] EXCEPT !.id = loc[c].out, !.ready = "synced",
                                     !.observed = loc[c].rgen]
                 f == [api[c] EXCEPT !.ready = "failed"]
    <2>4. v \in Version /\ v.id = loc[c].out /\ f \in Version /\ f.id = api[c].id
      <3>1. api[c] \in Version /\ loc[c] \in Work
        BY DEF TypeOK
      <3>2. QED BY <3>1, Zenon DEF Version, Work
    <2>5. OwnedIn(made', objs', c, v.id) /\ OwnedIn(made', objs', c, f.id)
      BY <2>1, <2>4, OwnedKept DEF RecordsOwned, WorkOwned
    <2>6. RecordsOwned'
      BY <1>9, <2>1, <2>4, <2>5, WriteOwned, RecordsKept DEF Publish
    <2>7. QED BY <1>9, <2>1, <2>2, <2>6, CacheKept, SeedsKept DEF Publish
  <1>10. ASSUME Cleanup(c) PROVE Ownership'
    <2>1. ObjectsKept /\ OwnersKept
      BY <1>10, CleanupKeeps
    <2>2. DEFINE id == IF cache[c].orphan THEN NoId ELSE cache[c].id
    <2>3. OwnedIn(made', objs', c, id)
      BY <2>1, OwnedKept DEF CacheOwned, OwnedIn
    <2>4. [NoWork EXCEPT !.id = id].id = id /\ [NoWork EXCEPT !.id = id].out = NoId
      BY DEF NoWork
    <2>5. WorkOwned'
      BY <1>10, <2>1, <2>3, <2>4, GotoOwned DEF Cleanup, OwnedIn
    <2>6. QED BY <1>10, <2>1, <2>5, RecordsKept, CacheKept, SeedsKept DEF Cleanup
  <1>11. ASSUME RemoveFinalizer(c) PROVE Ownership'
    <2>1. ObjectsKept /\ OwnersKept
      BY <1>11, SameObjects DEF RemoveFinalizer
    <2>2. WorkOwned'
      BY <1>11, <1>a, <2>1, GotoOwned DEF RemoveFinalizer, OwnedIn
    <2>3. DEFINE v == [api[c] EXCEPT !.fin = FALSE, !.phase = "gone"]
    <2>4. v \in Version /\ v.id = api[c].id
      <3>1. api[c] \in Version
        BY DEF TypeOK
      <3>2. QED BY <3>1, Zenon DEF Version
    <2>5. OwnedIn(made', objs', c, v.id)
      BY <2>1, <2>4, OwnedKept DEF RecordsOwned
    <2>6. RecordsOwned'
      BY <1>11, <2>1, <2>4, <2>5, WriteOwned, RecordsKept DEF RemoveFinalizer
    <2>7. QED BY <1>11, <2>1, <2>2, <2>6, CacheKept, SeedsKept DEF RemoveFinalizer
  <1>12. QED
    BY <1>1, <1>2, <1>3, <1>6, <1>7, <1>8, <1>9, <1>10, <1>11 DEF OperatorStep

\* A lost answer leaves what the call did; a crash forgets, and lists what is there.
LEMMA FaultOwnership ==
  ASSUME TypeOK, Ownership, PrimaryKeyed, Crash \/ \E c \in CRs : FaultStep(c)
  PROVE  Ownership'
  <1> USE DEF Ownership
  <1>a. NoWork.id = NoId /\ NoWork.out = NoId
    BY DEF NoWork
  <1>1. CASE Crash
    <2>1. ObjectsKept /\ OwnersKept
      BY <1>1, SameObjects DEF Crash
    <2>2. RecordsOwned'
      BY <1>1, <2>1, OwnedKept DEF Crash, RecordsOwned, OwnedIn
    <2>3. CacheOwned'
      BY <1>1, <2>1, OwnedKept DEF Crash, RecordsOwned, CacheOwned, OwnedIn
    <2>4. WorkOwned'
      BY <1>1, <1>a DEF Crash, WorkOwned, OwnedIn
    <2>5. QED BY <1>1, <2>1, <2>2, <2>3, <2>4, SeedsKept DEF Crash
  <1>2. ASSUME NEW c \in CRs, NEW step, NEW w, Goto(c, step, w), w \in {loc[c], NoWork},
               ObjectsKept, OwnersKept, UNCHANGED <<api, cache, pending, seeds>>
        PROVE  Ownership'
    <2>1. OwnedIn(made', objs', c, w.id) /\ OwnedIn(made', objs', c, w.out)
      BY <1>2, <1>a, OwnedKept DEF WorkOwned, OwnedIn
    <2>2. WorkOwned'
      BY <1>2, <2>1, GotoOwned
    <2>3. QED BY <1>2, <2>2, RecordsKept, CacheKept, SeedsKept
  <1>3. ASSUME NEW c \in CRs, CallFails(c) PROVE Ownership'
    BY <1>2, <1>3, SameObjects DEF CallFails
  <1>4. ASSUME NEW c \in CRs, ReplyLost(c) PROVE Ownership'
    <2>1. ObjectsKept /\ OwnersKept
      BY <1>4, CreateKeeps, PatchKeeps DEF ReplyLost
    <2>2. QED BY <1>2, <1>4, <2>1 DEF ReplyLost
  <1>5. ASSUME NEW c \in CRs, WriteBackFails(c) PROVE Ownership'
    BY <1>2, <1>5, SameObjects DEF WriteBackFails
  <1>6. QED BY <1>1, <1>3, <1>4, <1>5 DEF FaultStep

\* Every step keeps ownership.
LEMMA NextOwnership ==
  ASSUME PrimaryKeyed
  PROVE  TypeOK /\ Ownership /\ [Next]_vars => Ownership'
  <1> SUFFICES ASSUME TypeOK, Ownership, [Next]_vars PROVE Ownership'
    OBVIOUS
  <1>1. CASE UNCHANGED vars
    <2>1. ObjectsKept /\ OwnersKept
      BY <1>1, SameObjects DEF vars
    <2>2. QED
      BY <1>1, <2>1, RecordsKept, CacheKept, WorkKept, SeedsKept DEF vars, Ownership
  <1>2. CASE Next
    BY <1>2, UserImportOwnership, HumanOwnership, OperatorOwnership, FaultOwnership DEF Next
  <1>3. QED BY <1>1, <1>2

LEMMA OwnershipInvariant ==
  ASSUME PrimaryKeyed
  PROVE  Spec => [](TypeOK /\ Ownership)
  <1>1. Init => TypeOK /\ Ownership
    BY InitType, InitOwnership
  <1>2. TypeOK /\ Ownership /\ [Next]_vars => (TypeOK /\ Ownership)'
    BY NextType, NextOwnership
  <1>3. QED BY <1>1, <1>2, PTL DEF Spec

\* What the status of a CR records was created by it or handed to it by the importer,
\* whatever was lost, crashed, lagged or changed by hand (api/src/status.rs).
THEOREM RecordedOwned ==
  ASSUME PrimaryKeyed
  PROVE  Spec => []RecordedIsOwned
  <1>1. TypeOK /\ Ownership => RecordedIsOwned
    <2> SUFFICES ASSUME TypeOK, Ownership, NEW c \in CRs, NEW u \in Uids, u \in At(api[c].id)
                 PROVE  objs[u].owner = c
      BY DEF RecordedIsOwned
    <2>1. u = api[c].id /\ objs[u].live /\ u # NoId
      BY NameAssumption DEF At, IdOf, PrimaryKeyed
    <2>2. QED BY <2>1 DEF Ownership, RecordsOwned, OwnedIn
  <1>2. QED BY <1>1, OwnershipInvariant, PTL

\* A step of the operator that touches an object touches the reconciled CR's own.
LEMMA ReconcileTouchesOwn ==
  ASSUME TypeOK, Ownership, PrimaryKeyed, Next, NEW u \in Uids,
         objs'[u] # objs[u], pc' # pc
  PROVE  \E c \in CRs : /\ pc'[c] # pc[c]
                        /\ objs'[u].owner = c
                        /\ u <= made => objs[u].owner = c
  <1> USE DEF Ownership
  <1>1. PICK c \in CRs : Patch(c) \/ Create(c) \/ Cleanup(c) \/ ReplyLost(c)
    BY DEF Next, UserStep, ImportStep, HumanStep, OperatorStep, FaultStep, UserCreates,
       UserEdits, UserDeletes, UserOrphans, ImportCreates, ImportSeeds, ImportReleases,
       HumanCreates, HumanEdits, HumanDeletes, Deliver, AddFinalizer, Fetch, Retrieve,
       Publish, RemoveFinalizer, CallFails, WriteBackFails, Crash
  <1>2. pc'[c] # pc[c]
    BY <1>1 DEF Patch, Create, Creating, Cleanup, ReplyLost, Reconcilable, Goto, TypeOK
  <1>3. ASSUME NEW w \in At(loc[c].id), objs' = [objs EXCEPT ![w] = Patched(c, w)]
        PROVE  objs'[u].owner = c /\ objs[u].owner = c
    <2>1. w = loc[c].id /\ w \in 1..made /\ objs[w].live /\ w \in Uids
      BY MadeUids DEF At, IdOf, PrimaryKeyed
    <2>2. objs[w].owner = c
      BY <2>1, NameAssumption DEF WorkOwned, OwnedIn
    <2>3. u = w /\ objs'[u] = Patched(c, w)
      BY <1>3, <2>1 DEF TypeOK
    <2>4. QED BY <2>1, <2>2, <2>3 DEF Patched, TypeOK, Object
  <1>4. ASSUME made < MaxUid, objs' = [objs EXCEPT ![made + 1] = NewObject(c)]
        PROVE  objs'[u].owner = c /\ ~(u <= made)
    <2>1. u = made + 1 /\ objs'[u] = NewObject(c) /\ made \in Nat
      BY <1>4, MadeUids DEF TypeOK
    <2>2. QED BY <2>1 DEF NewObject
  <1>5. CASE Patch(c)
    BY <1>2, <1>3, <1>5 DEF Patch
  <1>6. CASE Create(c)
    BY <1>2, <1>4, <1>6 DEF Create
  <1>7. CASE Cleanup(c)
    <2>1. PICK id : /\ id \in {NoId, cache[c].id}
                    /\ objs' = [w \in Uids |-> IF w \in At(id)
                                  THEN [objs[w] EXCEPT !.live = FALSE] ELSE objs[w]]
      BY <1>7 DEF Cleanup
    <2>2. u \in At(id) /\ objs'[u] = [objs[u] EXCEPT !.live = FALSE]
      BY <2>1
    <2>3. u = id /\ id \in 1..made /\ objs[u].live /\ id # NoId
      BY <2>2, NameAssumption DEF At, IdOf, PrimaryKeyed
    <2>4. objs[u].owner = c
      BY <2>1, <2>3 DEF CacheOwned, OwnedIn
    <2>5. objs'[u].owner = c
      BY <2>2, <2>4 DEF TypeOK, Object
    <2>6. QED BY <1>2, <2>4, <2>5
  <1>8. CASE ReplyLost(c)
    BY <1>2, <1>3, <1>4, <1>8 DEF ReplyLost
  <1>9. QED BY <1>1, <1>5, <1>6, <1>7, <1>8

\* No reconcile ever patches or deletes an object of a person or of another CR: not
\* from a stale cache, after a crash or a lost answer, nor while others rename theirs
\* (ports.rs, "never a silent adopt").
THEOREM TouchesOnlyOwn ==
  ASSUME PrimaryKeyed
  PROVE  Spec => OnlyOwnObjects
  <1>1. TypeOK /\ Ownership /\ [Next]_vars =>
          [\A u \in Uids : objs'[u] # objs[u] /\ pc' # pc =>
             \E c \in CRs : /\ pc'[c] # pc[c]
                            /\ objs'[u].owner = c
                            /\ u <= made => objs[u].owner = c]_vars
    BY ReconcileTouchesOwn
  <1>2. QED BY <1>1, OwnershipInvariant, PTL DEF Spec, OnlyOwnObjects

-----------------------------------------------------------------------------
(* What a CR records, and what it made, for the same kinds.  A reconcile    *)
(* under way works for the record it read: no other step of the code writes *)
(* an id, and none puts a CR back under the importer.  That needs the store *)
(* to lag behind one history (Since): a version unpaused, with a finalizer  *)
(* or gone stays so in every later one.                                     *)

\* w is v, or what became of v.
Since(v, w) ==
    /\ w.phase = "absent" => v.phase = "absent"
    /\ v.phase # "absent" /\ ~v.paused => ~w.paused
    /\ v.fin => w.fin \/ w.phase = "gone"
    /\ v.phase = "gone" => w.phase = "gone"

Followed == \A c \in CRs :
    /\ Since(cache[c], api[c])
    /\ \A i \in 1..Len(pending[c]) : Since(pending[c][i], api[c])

\* The steps of a reconcile that may end in an id being recorded.
Applying == {"fetched", "retrieved", "recreate", "synced"}

\* The kinds that apply the copy of the CR just read.
AppliesFresh == Kind \in {"user", "outpost"}

Dead(id) == id \in 1..made /\ ~objs[id].live
Mine(c, u) == objs[u].live /\ objs[u].owner = c

\* The object c is known to have: the one recorded, or about to be.
Current(c) == IF pc[c] = "synced" THEN loc[c].out ELSE api[c].id

\* An object of c's carries the spec of generation g, a later one, or a person's edit.
Carries(c, id, g) == id \in Uids /\ Mine(c, id) => objs[id].body = 0 \/ objs[id].body >= g

\* Nothing is recorded before the first reconcile.
Unrecorded(c) ==
    /\ api[c].phase = "absent" => api[c].id = NoId /\ ~api[c].fin
    /\ api[c].phase = "absent" \/ api[c].paused => api[c].observed = 0
    /\ api[c].observed <= api[c].gen
ReadStands(c) == pc[c] \in Applying =>
    /\ Present(api[c]) /\ api[c].fin /\ ~api[c].paused
    /\ loc[c].id = api[c].id
    /\ api[c].observed <= loc[c].rgen /\ loc[c].rgen <= api[c].gen
Replaces(c) ==
    /\ pc[c] = "retrieved" => loc[c].id # NoId
    /\ pc[c] = "recreate" => Dead(loc[c].id)
    /\ pc[c] = "synced" => loc[c].out = loc[c].id \/ loc[c].id = NoId \/ Dead(loc[c].id)
OnlyCurrent(c) == faults = MaxFaults => \A u \in Uids : Mine(c, u) => u = Current(c)
Applied(c) == AppliesFresh =>
    /\ Carries(c, api[c].id, api[c].observed)
    /\ pc[c] \in Applying => loc[c].gen = loc[c].rgen
    /\ pc[c] = "retrieved" /\ "body" \notin loc[c].drift => Carries(c, loc[c].id, loc[c].gen)
    /\ pc[c] = "synced" => Carries(c, loc[c].out, loc[c].gen)

Recorded(c) ==
    Unrecorded(c) /\ ReadStands(c) /\ Replaces(c) /\ OnlyCurrent(c) /\ Applied(c)

\* What a step does to a CR's objects when it is not the CR's: none appears, none comes
\* back, and only people change one.
Spared(c) ==
    /\ made' \in 0..MaxUid /\ made <= made'
    /\ \A u \in 1..made : objs'[u].live => objs[u].live
    /\ \A u \in Uids : objs'[u].live /\ objs'[u].owner = c =>
          Mine(c, u) /\ objs'[u].body \in {objs[u].body, 0}

LEMMA DeadStays ==
  ASSUME TypeOK, NEW c \in CRs, Spared(c)
  PROVE  \A id : Dead(id) => Dead(id)'
  BY BoundsAssumption DEF Dead, Spared, TypeOK

LEMMA CarriesStays ==
  ASSUME TypeOK, NEW c \in CRs, Spared(c)
  PROVE  \A id, g : Carries(c, id, g) => Carries(c, id, g)'
  BY DEF Carries, Spared, Mine

LEMMA OthersStay ==
  ASSUME TypeOK, NEW c \in CRs, Recorded(c), Spared(c),
         api'[c] = api[c], pc'[c] = pc[c], loc'[c] = loc[c],
         faults' = faults \/ Fault
  PROVE  Recorded(c)'
  <1>1. faults' = MaxFaults => faults = MaxFaults
    BY BoundsAssumption DEF Fault, TypeOK
  <1>2. Unrecorded(c)' /\ ReadStands(c)'
    BY DEF Recorded, Unrecorded, ReadStands, Present
  <1>3. Replaces(c)'
    <2>1. pc'[c] = "recreate" => Dead(loc[c].id)'
      BY DeadStays DEF Recorded, Replaces
    <2>2. pc'[c] = "synced" => loc[c].out = loc[c].id \/ loc[c].id = NoId \/ Dead(loc[c].id)'
      BY DeadStays DEF Recorded, Replaces
    <2>3. QED BY <2>1, <2>2 DEF Recorded, Replaces, Dead
  <1>4. OnlyCurrent(c)'
    BY <1>1 DEF Recorded, OnlyCurrent, Current, Spared, Mine
  <1>5. Applied(c)'
    <2>1. ASSUME NEW id, NEW g, Carries(c, id, g)
          PROVE  id \in Uids /\ objs'[id].live /\ objs'[id].owner = c =>
                     objs'[id].body = 0 \/ objs'[id].body >= g
      BY <2>1 DEF Carries, Spared, Mine
    <2>2. QED BY <2>1 DEF Recorded, Applied, Carries, Mine
  <1>6. QED BY <1>2, <1>3, <1>4, <1>5 DEF Recorded

LEMMA SinceTransitive ==
  ASSUME NEW u, NEW v, NEW w, Since(u, v), Since(v, w)
  PROVE  Since(u, w)
  BY DEF Since

\* A write that follows the CR's last version is followed by all before it.
LEMMA WriteFollows ==
  ASSUME TypeOK, Followed, NEW c \in CRs, NEW v \in Version, Write(c, v),
         Since(api[c], v), UNCHANGED cache
  PROVE  Followed'
  <1> SUFFICES ASSUME NEW d \in CRs
               PROVE  /\ Since(cache[d], api'[d])
                      /\ \A i \in 1..Len(pending'[d]) : Since(pending'[d][i], api'[d])
    BY DEF Followed, Since
  <1>1. CASE d # c
    BY <1>1 DEF Write, TypeOK, Followed
  <1>2. CASE d = c
    <2>1. api'[c] = v /\ Since(v, v)
      BY DEF Write, TypeOK, Since
    <2>2. /\ Since(cache[c], v)
          /\ \A i \in 1..Len(pending[c]) : Since(pending[c][i], v)
      BY SinceTransitive DEF Followed
    <2>3. CASE pending' = pending
      BY <1>2, <2>1, <2>2, <2>3
    <2>4. CASE pending' = [pending EXCEPT ![c] = Append(@, v)]
      <3>1. pending[c] \in Seq(Version) /\ pending'[c] = Append(pending[c], v)
        BY <2>4 DEF TypeOK
      <3>2. ASSUME NEW i \in 1..Len(pending'[c])
            PROVE  Since(pending'[c][i], v)
        <4>1. pending'[c][i] = v \/ (i \in 1..Len(pending[c]) /\ pending'[c][i] = pending[c][i])
          BY <3>1, AppendElements
        <4>2. QED BY <2>1, <2>2, <4>1
      <3>3. QED BY <1>2, <2>1, <2>2, <3>2
    <2>5. QED BY <2>3, <2>4 DEF Write
  <1>3. QED BY <1>1, <1>2

LEMMA FollowedStays ==
  ASSUME Followed, UNCHANGED <<api, cache, pending>>
  PROVE  Followed'
  BY DEF Followed, Since

LEMMA InitRecorded == Init => Followed /\ \A c \in CRs : Recorded(c)
  <1> SUFFICES ASSUME Init, NEW c \in CRs
               PROVE  /\ Since(cache[c], api[c]) /\ Len(pending[c]) = 0
                      /\ Recorded(c)
    BY DEF Followed
  <1>1. api[c] = Blank /\ cache[c] = Blank /\ pending[c] = <<>> /\ pc[c] = "idle"
    BY DEF Init
  <1>2. Since(Blank, Blank)
    BY DEF Since
  <1>3. \A u \in Uids : ~objs[u].live
    BY DEF Init, NoObject
  <1>4. Unrecorded(c)
    BY <1>1 DEF Unrecorded, Blank
  <1>5. ReadStands(c) /\ Replaces(c) /\ OnlyCurrent(c) /\ Applied(c)
    BY <1>1, <1>3 DEF ReadStands, Replaces, OnlyCurrent, Applied, Applying, Carries, Mine
  <1>6. QED BY <1>1, <1>2, <1>4, <1>5 DEF Recorded

Recording == Followed /\ \A c \in CRs : Recorded(c)

LEMMA SameSpared ==
  ASSUME TypeOK, UNCHANGED <<made, objs>>
  PROVE  \A c \in CRs : Spared(c)
  BY DEF TypeOK, Spared, Mine

\* What a step of c's reconcile, or an import for c, does to the rest.
LEMMA OneKeeps ==
  ASSUME TypeOK, Recording, NEW c \in CRs, Recorded(c)', Followed',
         \A d \in CRs \ {c} : Spared(d) /\ api'[d] = api[d] /\ pc'[d] = pc[d] /\ loc'[d] = loc[d],
         faults' = faults \/ Fault
  PROVE  Recording'
  BY OthersStay DEF Recording

\* The versions people, the finalizer and the release of an import write.
Created(v) == v.phase = "live" /\ v.id = NoId /\ ~v.fin /\ v.observed = 0
Edited(w, v) ==
    /\ Present(w) /\ v.phase # "absent"
    /\ w.fin => v.fin /\ Present(v)
    /\ v.paused => w.paused
    /\ v.id = w.id /\ v.observed = w.observed /\ v.gen >= w.gen

LEMMA WriteKeeps ==
  ASSUME TypeOK, Recording, NEW c \in CRs, NEW v \in Version, Write(c, v),
         (api[c].phase = "absent" /\ Created(v)) \/ Edited(api[c], v),
         UNCHANGED <<cache, pc, loc, made, objs, faults>>
  PROVE  Recording'
  <1>1. Recorded(c) /\ Followed
    BY DEF Recording
  <1>2. /\ api'[c] = v /\ \A d \in CRs \ {c} : api'[d] = api[d]
        /\ v.gen \in Nat /\ api[c].gen \in Nat /\ api[c].observed \in Nat
    BY BoundsAssumption DEF Write, TypeOK, Version
  <1>3. Followed'
    <2>1. Since(api[c], v)
      BY <1>1 DEF Since, Created, Edited, Present, Recorded, Unrecorded
    <2>2. QED BY <1>1, <2>1, WriteFollows
  <1>4. \A d \in CRs : Spared(d)
    BY SameSpared
  <1>5. Recorded(c)'
    <2>0. faults' = faults /\ objs' = objs /\ made' = made /\ pc' = pc /\ loc' = loc
      OBVIOUS
    <2>1. CASE api[c].phase = "absent" /\ Created(v)
      <3>0. v.id = NoId /\ v.observed = 0 /\ v.phase = "live" /\ ~v.fin
            /\ api[c].id = NoId /\ api[c].observed = 0
        BY <1>1, <2>1 DEF Created, Recorded, Unrecorded
      <3>1. Unrecorded(c)'
        BY <1>2, <3>0 DEF Unrecorded
      <3>2. pc[c] \notin Applying
        BY <1>1, <2>1 DEF Recorded, ReadStands, Present
      <3>3. ReadStands(c)' /\ Replaces(c)'
        BY <2>0, <3>2 DEF ReadStands, Replaces, Applying
      <3>4. OnlyCurrent(c)'
        BY <1>1, <1>2, <2>0, <3>0, <3>2 DEF Recorded, OnlyCurrent, Current, Mine, Applying
      <3>5. Applied(c)'
        BY <1>2, <2>0, <3>0, <3>2, NameAssumption DEF Applied, Carries, Applying
      <3>6. QED BY <3>1, <3>3, <3>4, <3>5 DEF Recorded
    <2>2. CASE Edited(api[c], v)
      <3>0. /\ v.id = api[c].id /\ v.observed = api[c].observed /\ v.phase # "absent"
            /\ api[c].phase # "absent" /\ v.gen >= api[c].gen /\ (v.paused => api[c].paused)
            /\ api[c].fin => v.fin /\ Present(v)
        BY <2>2 DEF Edited, Present
      <3>1. Unrecorded(c)'
        BY <1>1, <1>2, <3>0 DEF Recorded, Unrecorded
      <3>2. ReadStands(c)'
        <4>1. Present(v) <=> v.phase \in {"live", "deleting"}
          BY DEF Present
        <4>2. pc[c] \in Applying => loc[c].rgen \in Nat
          BY BoundsAssumption DEF TypeOK, Work
        <4>3. QED BY <1>1, <1>2, <2>0, <3>0, <4>1, <4>2 DEF Recorded, ReadStands, Present
      <3>3. Replaces(c)'
        BY <1>1, <2>0 DEF Recorded, Replaces, Dead
      <3>4. OnlyCurrent(c)'
        BY <1>1, <1>2, <2>0, <3>0 DEF Recorded, OnlyCurrent, Current, Mine
      <3>5. Applied(c)'
        BY <1>1, <1>2, <2>0, <3>0 DEF Recorded, Applied, Carries, Mine
      <3>6. QED BY <3>1, <3>2, <3>3, <3>4, <3>5 DEF Recorded
    <2>3. QED BY <2>1, <2>2
  <1>6. QED BY <1>2, <1>3, <1>4, <1>5, OneKeeps

LEMMA UserKeeps ==
  ASSUME TypeOK, Recording, NEW c \in CRs, UserStep(c)
  PROVE  Recording'
  <1>0. api[c] \in Version /\ Blank \in Version
    BY BlankTypes DEF TypeOK
  <1>1. ASSUME NEW n \in Names, UserCreates(c, n) PROVE Recording'
    <2> DEFINE v == [Blank EXCEPT !.phase = "live", !.gen = 1, !.name = n]
    <2>1. v \in Version
      BY <1>0, Generations DEF Version
    <2>2. v.phase = "live" /\ v.id = Blank.id /\ v.fin = Blank.fin /\ v.observed = Blank.observed
      BY <1>0 DEF Version
    <2>3. Created(v)
      BY <2>2 DEF Created, Blank
    <2>4. Write(c, v) /\ api[c].phase = "absent"
          /\ UNCHANGED <<cache, pc, loc, made, objs, faults>>
      BY <1>1 DEF UserCreates
    <2> HIDE DEF v
    <2>5. QED BY <2>1, <2>3, <2>4, WriteKeeps
  <1>2. ASSUME NEW n \in Names, UserEdits(c, n) PROVE Recording'
    <2> DEFINE v == [api[c] EXCEPT !.gen = @ + 1, !.name = n]
    <2>1. api[c].gen + 1 \in 0..MaxGen /\ api[c].gen \in Nat
      BY <1>0, <1>2, Generations, BoundsAssumption DEF UserEdits, Version
    <2>2. v \in Version
      BY <1>0, <2>1, Zenon DEF Version
    <2>3. /\ v.phase = api[c].phase /\ v.id = api[c].id /\ v.fin = api[c].fin
          /\ v.observed = api[c].observed /\ v.paused = api[c].paused
      BY <1>0, Zenon DEF Version
    <2>4. v.gen = api[c].gen + 1
      BY <1>0 DEF Version
    <2>5. /\ Write(c, v) /\ api[c].phase = "live"
          /\ UNCHANGED <<cache, pc, loc, made, objs, faults>>
      BY <1>2 DEF UserEdits
    <2> HIDE DEF v
    <2>6. Edited(api[c], v)
      BY <2>1, <2>3, <2>4, <2>5 DEF Edited, Present
    <2>7. QED BY <2>2, <2>5, <2>6, WriteKeeps
  <1>3. ASSUME UserDeletes(c) PROVE Recording'
    <2> DEFINE v == [api[c] EXCEPT !.phase = IF api[c].fin THEN "deleting" ELSE "gone"]
    <2>1. v \in Version
      BY <1>0 DEF Version
    <2>2. /\ v.phase = IF api[c].fin THEN "deleting" ELSE "gone"
      BY <1>0 DEF Version
    <2>3. /\ v.id = api[c].id /\ v.fin = api[c].fin
          /\ v.observed = api[c].observed /\ v.paused = api[c].paused /\ v.gen = api[c].gen
      BY <1>0, Zenon DEF Version
    <2>4. /\ Write(c, v) /\ api[c].phase = "live"
          /\ UNCHANGED <<cache, pc, loc, made, objs, faults>>
      BY <1>3 DEF UserDeletes
    <2>5. v.gen >= api[c].gen
      BY <1>0, <2>3, BoundsAssumption DEF Version
    <2> HIDE DEF v
    <2>6. Edited(api[c], v)
      BY <2>2, <2>3, <2>4, <2>5 DEF Edited, Present
    <2>7. QED BY <2>1, <2>4, <2>6, WriteKeeps
  <1>4. ASSUME UserOrphans(c) PROVE Recording'
    <2> DEFINE v == [api[c] EXCEPT !.orphan = TRUE]
    <2>1. v \in Version
      BY <1>0 DEF Version
    <2>2. /\ v.id = api[c].id /\ v.fin = api[c].fin /\ v.phase = api[c].phase
          /\ v.observed = api[c].observed /\ v.paused = api[c].paused /\ v.gen = api[c].gen
      BY <1>0, Zenon DEF Version
    <2>3. /\ Write(c, v) /\ api[c].phase = "deleting"
          /\ UNCHANGED <<cache, pc, loc, made, objs, faults>>
      BY <1>4 DEF UserOrphans
    <2>4. v.gen >= api[c].gen
      BY <1>0, <2>2, BoundsAssumption DEF Version
    <2> HIDE DEF v
    <2>5. Edited(api[c], v)
      BY <2>2, <2>3, <2>4 DEF Edited, Present
    <2>6. QED BY <2>1, <2>3, <2>5, WriteKeeps
  <1>5. QED BY <1>1, <1>2, <1>3, <1>4 DEF UserStep

LEMMA ImportKeeps ==
  ASSUME TypeOK, Recording, PrimaryKeyed, NEW c \in CRs, ImportStep(c)
  PROVE  Recording'
  <1>0. api[c] \in Version /\ Blank \in Version
    BY BlankTypes DEF TypeOK
  <1>1. ASSUME NEW u \in 1..made, ImportCreates(c, u) PROVE Recording'
    <2> DEFINE v == [Blank EXCEPT !.phase = "live", !.paused = TRUE, !.gen = 1,
                                  !.name = objs[u].name]
    <2>1. objs[u].name \in Names
      BY MadeUids DEF TypeOK, Object
    <2>2. v \in Version
      BY <1>0, <2>1, Generations DEF Version
    <2>3. v.phase = "live" /\ v.id = Blank.id /\ v.fin = Blank.fin /\ v.observed = Blank.observed
      BY <1>0 DEF Version
    <2>4. Created(v)
      BY <2>3 DEF Created, Blank
    <2>5. Write(c, v) /\ api[c].phase = "absent"
          /\ UNCHANGED <<cache, pc, loc, made, objs, faults>>
      BY <1>1 DEF ImportCreates
    <2> HIDE DEF v
    <2>6. QED BY <2>2, <2>4, <2>5, WriteKeeps
  <1>2. ASSUME ImportReleases(c) PROVE Recording'
    <2> DEFINE v == [api[c] EXCEPT !.paused = FALSE]
    <2>1. v \in Version
      BY <1>0, Zenon DEF Version
    <2>2. /\ v.id = api[c].id /\ v.fin = api[c].fin /\ v.phase = api[c].phase
          /\ v.observed = api[c].observed /\ v.gen = api[c].gen
      BY <1>0, Zenon DEF Version
    <2>3. v.paused = FALSE
      BY <1>0, Zenon DEF Version
    <2>4. /\ Write(c, v) /\ api[c].phase = "live"
          /\ UNCHANGED <<cache, pc, loc, made, objs, faults>>
      BY <1>2 DEF ImportReleases
    <2>5. v.gen >= api[c].gen
      BY <1>0, <2>2, BoundsAssumption DEF Version
    <2> HIDE DEF v
    <2>6. Edited(api[c], v)
      BY <2>2, <2>3, <2>4, <2>5 DEF Edited, Present
    <2>7. QED BY <2>1, <2>4, <2>6, WriteKeeps
  <1>3. ASSUME ImportSeeds(c) PROVE Recording'
    <2> DEFINE v == [api[c] EXCEPT !.id = seeds[c]]
    <2>1. v \in Version
      <3>1. seeds[c] \in Ids \cup {NoId}
        BY DEF TypeOK
      <3>2. QED BY <1>0, <3>1, Zenon DEF Version
    <2>2. /\ v.phase = api[c].phase /\ v.fin = api[c].fin /\ v.paused = api[c].paused
          /\ v.observed = api[c].observed /\ v.gen = api[c].gen
      BY <1>0, Zenon DEF Version
    <2>3. v.id = seeds[c]
      BY <1>0, Zenon DEF Version
    <2>4. /\ api[c].phase = "live" /\ api[c].paused /\ api[c].id = NoId /\ Write(c, v)
          /\ UNCHANGED <<cache, pc, loc, made, faults>>
      BY <1>3 DEF ImportSeeds
    <2> HIDE DEF v
    <2>5. api'[c] = v /\ \A d \in CRs \ {c} : api'[d] = api[d]
      BY <2>4 DEF Write, TypeOK
    <2>6. ASSUME NEW u \in Uids
          PROVE  /\ objs'[u].live = objs[u].live /\ objs'[u].body = objs[u].body
                 /\ objs'[u].owner = IF u \in At(seeds[c]) /\ objs[u].owner = Human
                                     THEN c ELSE objs[u].owner
      BY <1>3 DEF ImportSeeds, TypeOK, Object
    <2>7. ASSUME NEW d \in CRs \ {c} PROVE Spared(d)
      BY <2>4, <2>6, MadeUids DEF Spared, Mine, TypeOK
    <2>8. Recorded(c) /\ Followed
      BY DEF Recording
    <2>9. Followed'
      <3>1. Since(api[c], v)
        BY <2>2 DEF Since
      <3>2. QED BY <2>1, <2>4, <2>8, <3>1, WriteFollows
    <2>10. pc[c] \notin Applying /\ pc' = pc /\ loc' = loc /\ faults' = faults
      BY <2>4, <2>8 DEF Recorded, ReadStands
    <2>11. Unrecorded(c)'
      BY <2>2, <2>4, <2>5, <2>8 DEF Recorded, Unrecorded
    <2>12. ReadStands(c)' /\ Replaces(c)'
      BY <2>10 DEF ReadStands, Replaces, Applying
    <2>13. OnlyCurrent(c)'
      <3>1. SUFFICES ASSUME faults = MaxFaults, NEW u \in Uids, objs'[u].live, objs'[u].owner = c
                     PROVE  u = seeds[c]
        BY <2>3, <2>5, <2>10 DEF OnlyCurrent, Current, Mine, Applying
      <3>2. objs[u].owner # c
        BY <2>4, <2>6, <2>8, <2>10, <3>1, NameAssumption
           DEF Recorded, OnlyCurrent, Current, Mine, Applying
      <3>3. u \in At(seeds[c])
        BY <2>6, <3>1, <3>2
      <3>4. QED BY <3>3 DEF At, IdOf, PrimaryKeyed
    <2>14. Applied(c)'
      <3>1. \A u \in Uids : objs'[u].body \in Nat
        BY <2>6, BoundsAssumption DEF TypeOK, Object
      <3>2. api'[c].observed = 0
        BY <2>2, <2>4, <2>5, <2>8 DEF Recorded, Unrecorded
      <3>3. QED BY <2>10, <3>1, <3>2 DEF Applied, Carries, Applying
    <2>15. Recorded(c)'
      BY <2>11, <2>12, <2>13, <2>14 DEF Recorded
    <2>16. QED BY <2>4, <2>5, <2>7, <2>9, <2>15, OneKeeps
  <1>4. QED BY <1>1, <1>2, <1>3 DEF ImportStep

\* People's objects are nobody else's, and a person's edit leaves a body of its own.
LEMMA HumanKeeps ==
  ASSUME TypeOK, Recording, HumanStep
  PROVE  Recording'
  <1>1. UNCHANGED <<api, cache, pending, pc, loc, faults>>
    BY DEF HumanStep, HumanCreates, HumanEdits, HumanDeletes
  <1>2. ASSUME NEW c \in CRs PROVE Spared(c)
    <2>1. ASSUME NEW n \in Names, HumanCreates(n) PROVE Spared(c)
      <3>1. made + 1 \in Uids /\ made' = made + 1 /\ made + 1 \in 0..MaxUid
        BY <2>1, MadeUids DEF HumanCreates
      <3>2. objs'[made + 1].owner = Human /\ \A u \in Uids \ {made + 1} : objs'[u] = objs[u]
        BY <2>1, <3>1 DEF HumanCreates, TypeOK
      <3>3. \A u \in 1..made : u \in Uids \ {made + 1}
        BY MadeUids DEF TypeOK
      <3>4. /\ made' \in 0..MaxUid /\ made <= made'
            /\ \A u \in 1..made : objs'[u].live => objs[u].live
        <4>1. made <= made + 1
          BY BoundsAssumption DEF TypeOK
        <4>2. \A u \in 1..made : objs'[u] = objs[u]
          BY <3>2, <3>3
        <4>3. QED BY <3>1, <4>1, <4>2
      <3>5. ASSUME NEW u \in Uids, objs'[u].live, objs'[u].owner = c
            PROVE  Mine(c, u) /\ objs'[u].body \in {objs[u].body, 0}
        <4>1. u # made + 1
          BY <3>2, <3>5, OwnerAssumption
        <4>2. QED BY <3>2, <3>5, <4>1 DEF Mine
      <3>6. QED BY <3>4, <3>5 DEF Spared
    <2>2. ASSUME NEW u \in 1..made, NEW n \in Names, HumanEdits(u, n) PROVE Spared(c)
      <3>1. ASSUME NEW w \in Uids
            PROVE  /\ objs'[w].owner = objs[w].owner /\ objs'[w].live = objs[w].live
                   /\ objs'[w].body \in {objs[w].body, 0}
        BY <2>2, MadeUids DEF HumanEdits, TypeOK, Object
      <3>2. QED BY <2>2, <3>1, MadeUids DEF HumanEdits, Spared, Mine, TypeOK
    <2>3. ASSUME NEW u \in 1..made, HumanDeletes(u) PROVE Spared(c)
      <3>1. ASSUME NEW w \in Uids
            PROVE  /\ objs'[w].owner = objs[w].owner /\ (objs'[w].live => objs[w].live)
                   /\ objs'[w].body = objs[w].body
        BY <2>3, MadeUids DEF HumanDeletes, TypeOK, Object
      <3>2. QED BY <2>3, <3>1, MadeUids DEF HumanDeletes, Spared, Mine, TypeOK
    <2>4. QED BY <2>1, <2>2, <2>3 DEF HumanStep
  <1>3. QED BY <1>1, <1>2, OthersStay, FollowedStays DEF Recording

\* A reconcile that moves leaves the records and the other reconciles alone.
LEMMA MoveKeeps ==
  ASSUME TypeOK, Recording, NEW c \in CRs, NEW step, NEW w, Goto(c, step, w),
         Recorded(c)', \A d \in CRs \ {c} : Spared(d), faults' = faults \/ Fault,
         UNCHANGED <<api, cache, pending>>
  PROVE  Recording'
  <1>1. \A d \in CRs \ {c} : pc'[d] = pc[d] /\ loc'[d] = loc[d]
    BY DEF Goto, TypeOK
  <1>2. Followed'
    BY FollowedStays DEF Recording
  <1>3. QED BY <1>1, <1>2, OneKeeps

LEMMA DeliverKeeps ==
  ASSUME TypeOK, Recording, NEW c \in CRs, Deliver(c)
  PROVE  Recording'
  <1>1. pending[c] \in Seq(Version) /\ pending[c] # <<>>
    BY DEF Deliver, TypeOK
  <1>2. Len(pending[c]) \in Nat /\ Len(pending[c]) > 0 /\ Head(pending[c]) = pending[c][1]
    BY <1>1
  <1>3. Since(Head(pending[c]), api[c])
    BY <1>2 DEF Recording, Followed
  <1>4. ASSUME NEW i \in 1..Len(Tail(pending[c]))
        PROVE  Tail(pending[c])[i] = pending[c][i + 1] /\ i + 1 \in 1..Len(pending[c])
    BY <1>1, <1>2
  <1>5. \A i \in 1..Len(Tail(pending[c])) : Since(Tail(pending[c])[i], api[c])
    BY <1>4 DEF Recording, Followed
  <1>6. Followed'
    <2> SUFFICES ASSUME NEW d \in CRs
                 PROVE  /\ Since(cache'[d], api[d])
                        /\ \A i \in 1..Len(pending'[d]) : Since(pending'[d][i], api[d])
      BY DEF Deliver, Followed, Since
    <2>1. CASE d = c
      BY <1>3, <1>5, <2>1 DEF Deliver, TypeOK
    <2>2. CASE d # c
      BY <2>2 DEF Deliver, TypeOK, Recording, Followed
    <2>3. QED BY <2>1, <2>2
  <1>7. \A d \in CRs : Recorded(d)'
    BY SameSpared, OthersStay DEF Deliver, Recording
  <1>8. QED BY <1>6, <1>7 DEF Recording

LEMMA FinalizerKeeps ==
  ASSUME TypeOK, Recording, NEW c \in CRs, AddFinalizer(c)
  PROVE  Recording'
  <1> DEFINE v == [api[c] EXCEPT !.fin = TRUE]
  <1>0. api[c] \in Version
    BY DEF TypeOK
  <1>1. v \in Version
    BY <1>0, Zenon DEF Version
  <1>2. /\ v.id = api[c].id /\ v.paused = api[c].paused /\ v.phase = api[c].phase
        /\ v.observed = api[c].observed /\ v.gen = api[c].gen
    BY <1>0, Zenon DEF Version
  <1>3. v.gen >= api[c].gen
    BY <1>0, <1>2, BoundsAssumption DEF Version
  <1>4. /\ Write(c, v) /\ Present(api[c]) /\ ~api[c].fin
        /\ UNCHANGED <<cache, pc, loc, made, objs, faults>>
    BY DEF AddFinalizer
  <1> HIDE DEF v
  <1>5. Edited(api[c], v)
    BY <1>2, <1>3, <1>4 DEF Edited, Present
  <1>6. QED BY <1>1, <1>4, <1>5, WriteKeeps

\* What is read is a CR the operator works for: released, with its finalizer.
LEMMA FetchKeeps ==
  ASSUME TypeOK, Recording, NEW c \in CRs, Fetch(c)
  PROVE  Recording'
  <1> DEFINE w == [gen |-> AppliedSpec(c).gen, name |-> AppliedSpec(c).name, id |-> api[c].id,
                   rgen |-> api[c].gen, drift |-> {}, out |-> NoId]
  <1>1. /\ Goto(c, "fetched", w) /\ pc[c] = "idle" /\ Present(api[c])
        /\ cache[c].phase = "live" /\ cache[c].fin /\ ~cache[c].paused
        /\ UNCHANGED <<api, cache, pending, made, objs, faults>>
    BY DEF Fetch, Reconcilable
  <1>2. pc'[c] = "fetched" /\ loc'[c] = w
    BY <1>1 DEF Goto, TypeOK
  <1>3. Recorded(c) /\ Since(cache[c], api[c])
    BY DEF Recording, Followed
  <1>4. AppliesFresh => AppliedSpec(c) = api[c]
    BY DEF AppliesFresh, AppliedSpec, UserSpec, OutpostSpec
  <1>5. api[c].gen \in Nat
    BY BoundsAssumption DEF TypeOK, Version
  <1>6. Unrecorded(c)'
    BY <1>1, <1>3 DEF Recorded, Unrecorded
  <1>7. ReadStands(c)'
    <2>1. api[c].fin /\ ~api[c].paused
      BY <1>1, <1>3 DEF Since, Present
    <2>2. loc'[c].id = api[c].id /\ loc'[c].rgen = api[c].gen
      BY <1>2
    <2>3. api[c].observed <= api[c].gen /\ api[c].gen <= api[c].gen
      BY <1>3, <1>5 DEF Recorded, Unrecorded
    <2>4. QED BY <1>1, <2>1, <2>2, <2>3 DEF ReadStands, Present
  <1>8. Replaces(c)'
    BY <1>2 DEF Replaces
  <1>9. OnlyCurrent(c)'
    BY <1>1, <1>2, <1>3 DEF Recorded, OnlyCurrent, Current, Mine
  <1>10. Applied(c)'
    <2>1. Carries(c, api[c].id, api[c].observed)' <=> Carries(c, api[c].id, api[c].observed)
      BY <1>1 DEF Carries, Mine
    <2>2. AppliesFresh => loc'[c].gen = loc'[c].rgen
      BY <1>2, <1>4
    <2>3. QED BY <1>2, <1>3, <2>1, <2>2 DEF Recorded, Applied
  <1>11. QED BY <1>1, <1>6, <1>7, <1>8, <1>9, <1>10, SameSpared, MoveKeeps DEF Recorded

\* An object sought and not found is gone for good.
LEMMA GoneIsDead ==
  ASSUME TypeOK, WorkOwned, PrimaryKeyed, NEW c \in CRs, loc[c].id # NoId, At(loc[c].id) = {}
  PROVE  Dead(loc[c].id)
  BY DEF WorkOwned, OwnedIn, At, IdOf, Dead, PrimaryKeyed

LEMMA FoundIsOwn ==
  ASSUME TypeOK, WorkOwned, PrimaryKeyed, NEW c \in CRs, NEW u \in At(loc[c].id)
  PROVE  u = loc[c].id /\ u \in Uids /\ u \in 1..made /\ Mine(c, u) /\ u # NoId
  <1>1. u = loc[c].id /\ u \in 1..made /\ objs[u].live /\ u \in Uids
    BY MadeUids DEF At, IdOf, PrimaryKeyed
  <1>2. QED BY <1>1, NameAssumption DEF WorkOwned, OwnedIn, Mine

\* A step of a reconcile that changes no object and ends nothing.
LEMMA QuietMove ==
  ASSUME TypeOK, Recording, NEW c \in CRs, NEW step, NEW w, Goto(c, step, w),
         UNCHANGED <<api, cache, pending, made, objs>>, faults' = faults \/ Fault,
         \/ step \notin Applying
         \/ /\ pc[c] \in Applying \ {"synced"} /\ step = "recreate" /\ w = loc[c]
            /\ Dead(loc[c].id),
         pc[c] # "synced" \/ Fault
  PROVE  Recording'
  <1>1. pc'[c] = step /\ loc'[c] = w /\ api' = api /\ objs' = objs /\ made' = made
    BY DEF Goto, TypeOK
  <1>2. Recorded(c) /\ Spared(c)
    BY SameSpared DEF Recording
  <1>3. (faults' = MaxFaults => faults = MaxFaults) /\ (Fault => faults' # MaxFaults)
    BY BoundsAssumption DEF Fault, TypeOK
  <1>4. Unrecorded(c)' /\ ReadStands(c)'
    BY <1>1, <1>2 DEF Recorded, Unrecorded, ReadStands, Applying
  <1>5. Replaces(c)'
    BY <1>1 DEF Replaces, Dead, Applying
  <1>6. OnlyCurrent(c)'
    <2>1. CASE Fault
      BY <1>3, <2>1 DEF OnlyCurrent
    <2>2. CASE pc[c] # "synced"
      BY <1>1, <1>2, <1>3, <2>2 DEF Recorded, OnlyCurrent, Current, Mine, Applying
    <2>3. QED BY <2>1, <2>2
  <1>7. Applied(c)'
    <2>1. Carries(c, api[c].id, api[c].observed)' <=> Carries(c, api[c].id, api[c].observed)
      BY <1>1 DEF Carries, Mine
    <2>2. QED BY <1>1, <1>2, <2>1 DEF Recorded, Applied, Applying
  <1>8. QED BY <1>4, <1>5, <1>6, <1>7, SameSpared, MoveKeeps DEF Recorded

LEMMA RetrieveKeeps ==
  ASSUME TypeOK, Recording, Ownership, PrimaryKeyed, NEW c \in CRs, Retrieve(c)
  PROVE  Recording'
  <1>0. /\ pc[c] = "fetched" /\ loc[c].id # NoId /\ WorkOwned /\ loc[c] \in Work
        /\ UNCHANGED <<api, cache, pending, made, objs, faults>>
    BY DEF Retrieve, Ownership, TypeOK
  <1>1. CASE At(loc[c].id) = {}
    <2>1. Goto(c, "recreate", loc[c])
      BY <1>1 DEF Retrieve
    <2>2. Dead(loc[c].id)
      BY <1>0, <1>1, GoneIsDead
    <2>3. QED BY <1>0, <2>1, <2>2, QuietMove DEF Applying
  <1>2. ASSUME NEW u \in At(loc[c].id), NEW step \in {"synced", "retrieved"}, NEW w,
               Goto(c, step, w), w.id = loc[c].id, w.gen = loc[c].gen, w.rgen = loc[c].rgen,
               step = "synced" => w.out = loc[c].id,
               step = "synced" \/ "body" \notin w.drift => objs[u].body = loc[c].gen
        PROVE  Recording'
    <2>1. pc'[c] = step /\ loc'[c] = w /\ api' = api /\ objs' = objs /\ made' = made
      BY <1>0, <1>2 DEF Goto, TypeOK
    <2>2. Recorded(c) /\ u = loc[c].id /\ api[c].id = loc[c].id
      BY <1>0, FoundIsOwn DEF Recording, Recorded, ReadStands, Applying
    <2>3. Unrecorded(c)' /\ ReadStands(c)'
      BY <1>0, <1>2, <2>1, <2>2 DEF Recorded, Unrecorded, ReadStands, Applying
    <2>4. Replaces(c)'
      BY <1>0, <1>2, <2>1 DEF Replaces
    <2>5. OnlyCurrent(c)'
      BY <1>0, <1>2, <2>1, <2>2 DEF Recorded, OnlyCurrent, Current, Mine
    <2>6. Applied(c)'
      <3>1. Carries(c, api[c].id, api[c].observed)' <=> Carries(c, api[c].id, api[c].observed)
        BY <2>1 DEF Carries, Mine
      <3>2. AppliesFresh => loc[c].gen = loc[c].rgen
        BY <1>0, <2>2 DEF Recorded, Applied, Applying
      <3>3. loc[c].gen \in Nat
        BY <1>0, BoundsAssumption DEF Work
      <3>4. step = "synced" \/ "body" \notin w.drift =>
              objs'[loc[c].id].body = 0 \/ objs'[loc[c].id].body >= loc[c].gen
        BY <1>2, <2>1, <2>2, <3>3
      <3>5. /\ pc'[c] = "synced" => Carries(c, loc[c].out, loc[c].gen)'
            /\ pc'[c] = "retrieved" /\ "body" \notin loc'[c].drift
                  => Carries(c, loc[c].id, loc[c].gen)'
        BY <1>2, <2>1, <3>4 DEF Carries
      <3>6. pc'[c] \in Applying => loc'[c].gen = loc'[c].rgen \/ ~AppliesFresh
        BY <1>2, <2>1, <3>2
      <3>7. QED BY <2>1, <2>2, <3>1, <3>5, <3>6 DEF Recorded, Applied
    <2>7. QED
      BY <1>0, <1>2, <2>3, <2>4, <2>5, <2>6, SameSpared, MoveKeeps DEF Recorded
  <1>3. ASSUME NEW u \in At(loc[c].id), DriftOf(c, u) = {},
               Goto(c, "synced", [loc[c] EXCEPT !.out = OutId(c)])
        PROVE  Recording'
    <2> DEFINE w == [loc[c] EXCEPT !.out = OutId(c)]
    <2>1. w.id = loc[c].id /\ w.gen = loc[c].gen /\ w.rgen = loc[c].rgen /\ w.out = OutId(c)
      BY <1>0 DEF Work
    <2>2. OutId(c) = loc[c].id
      BY DEF OutId, PrimaryKeyed
    <2>3. objs[u].body = loc[c].gen
      BY <1>3 DEF DriftOf, Fields
    <2>4. Goto(c, "synced", w)
      BY <1>3
    <2> HIDE DEF w
    <2>5. QED BY <1>2, <2>1, <2>2, <2>3, <2>4
  <1>4. ASSUME NEW u \in At(loc[c].id),
               Goto(c, "retrieved", [loc[c] EXCEPT !.drift = DriftOf(c, u)])
        PROVE  Recording'
    <2> DEFINE w == [loc[c] EXCEPT !.drift = DriftOf(c, u)]
    <2>1. w.id = loc[c].id /\ w.gen = loc[c].gen /\ w.rgen = loc[c].rgen
          /\ w.drift = DriftOf(c, u)
      BY <1>0 DEF Work
    <2>2. "body" \notin DriftOf(c, u) => objs[u].body = loc[c].gen
      BY DEF DriftOf, Fields
    <2>3. Goto(c, "retrieved", w)
      BY <1>4
    <2> HIDE DEF w
    <2>4. QED BY <1>2, <2>1, <2>2, <2>3
  <1>5. QED BY <1>1, <1>3, <1>4 DEF Retrieve

\* A PATCH writes what was read, to the CR's own object.
LEMMA PatchSpares ==
  ASSUME TypeOK, Ownership, PrimaryKeyed, NEW c \in CRs, NEW u \in At(loc[c].id),
         UNCHANGED made, objs' = [objs EXCEPT ![u] = Patched(c, u)]
  PROVE  /\ \A d \in CRs \ {c} : Spared(d)
         /\ \A w \in Uids : objs'[w].live = objs[w].live /\ objs'[w].owner = objs[w].owner
         /\ \A w \in Uids \ {u} : objs'[w].body = objs[w].body
         /\ objs'[u].body = IF "body" \in loc[c].drift THEN loc[c].gen ELSE objs[u].body
  <1>1. u = loc[c].id /\ u \in Uids /\ u \in 1..made /\ Mine(c, u)
    BY FoundIsOwn DEF Ownership
  <1>2. objs'[u] = Patched(c, u) /\ \A w \in Uids \ {u} : objs'[w] = objs[w]
    BY <1>1 DEF TypeOK
  <1>3. /\ Patched(c, u).owner = objs[u].owner /\ Patched(c, u).live = objs[u].live
        /\ Patched(c, u).body = IF "body" \in loc[c].drift THEN loc[c].gen ELSE objs[u].body
    BY <1>1 DEF Patched, TypeOK, Object
  <1>4. \A w \in Uids : objs'[w].live = objs[w].live /\ objs'[w].owner = objs[w].owner
    BY <1>2, <1>3
  <1>5. ASSUME NEW d \in CRs \ {c} PROVE Spared(d)
    <2>1. \A w \in 1..made : objs'[w].live => objs[w].live
      BY <1>4, MadeUids
    <2>2. objs'[u].owner # d
      BY <1>1, <1>4 DEF Mine
    <2>3. \A w \in Uids : objs'[w].live /\ objs'[w].owner = d =>
             Mine(d, w) /\ objs'[w].body \in {objs[w].body, 0}
      BY <1>2, <1>4, <2>2 DEF Mine
    <2>4. made' \in 0..MaxUid /\ made <= made'
      BY BoundsAssumption DEF TypeOK
    <2>5. QED BY <2>1, <2>3, <2>4 DEF Spared
  <1>6. QED BY <1>2, <1>3, <1>4, <1>5

LEMMA PatchKeepsRecords ==
  ASSUME TypeOK, Recording, Ownership, PrimaryKeyed, NEW c \in CRs, Patch(c)
  PROVE  Recording'
  <1>0. /\ pc[c] = "retrieved" /\ WorkOwned /\ loc[c] \in Work
        /\ UNCHANGED <<api, cache, pending, made, faults>>
    BY DEF Patch, Ownership, TypeOK
  <1>1. Recorded(c) /\ api[c].id = loc[c].id /\ loc[c].gen \in Nat
    BY <1>0, BoundsAssumption DEF Recording, Recorded, ReadStands, Applying, Work
  <1>2. CASE At(loc[c].id) = {} /\ Goto(c, "recreate", loc[c]) /\ UNCHANGED objs
    <2>1. loc[c].id # NoId
      BY <1>0, <1>1 DEF Recorded, Replaces
    <2>2. Dead(loc[c].id)
      BY <1>0, <1>2, <2>1, GoneIsDead
    <2>3. QED BY <1>0, <1>2, <2>2, QuietMove DEF Applying
  <1>3. CASE Goto(c, "failed", loc[c]) /\ UNCHANGED objs
    BY <1>0, <1>3, QuietMove DEF Applying
  <1>4. ASSUME NEW u \in At(loc[c].id), objs' = [objs EXCEPT ![u] = Patched(c, u)],
               Goto(c, "synced", [loc[c] EXCEPT !.out = OutId(c)])
        PROVE  Recording'
    <2> DEFINE w == [loc[c] EXCEPT !.out = OutId(c)]
    <2>1. w.id = loc[c].id /\ w.gen = loc[c].gen /\ w.rgen = loc[c].rgen /\ w.out = OutId(c)
      BY <1>0 DEF Work
    <2>2. OutId(c) = loc[c].id /\ u = loc[c].id /\ u \in Uids
      BY <1>0, FoundIsOwn DEF OutId, PrimaryKeyed
    <2>3. Goto(c, "synced", w)
      BY <1>4
    <2> HIDE DEF w
    <2>4. /\ \A d \in CRs \ {c} : Spared(d)
          /\ \A x \in Uids : objs'[x].live = objs[x].live /\ objs'[x].owner = objs[x].owner
          /\ objs'[u].body = IF "body" \in loc[c].drift THEN loc[c].gen ELSE objs[u].body
      BY <1>0, <1>4, PatchSpares
    <2>5. pc'[c] = "synced" /\ loc'[c] = w /\ api' = api /\ made' = made /\ faults' = faults
      BY <1>0, <2>3 DEF Goto, TypeOK
    <2>6. Unrecorded(c)' /\ ReadStands(c)'
      BY <1>0, <1>1, <2>1, <2>5 DEF Recorded, Unrecorded, ReadStands, Applying
    <2>7. Replaces(c)'
      BY <2>1, <2>2, <2>5 DEF Replaces
    <2>8. OnlyCurrent(c)'
      BY <1>0, <1>1, <2>1, <2>2, <2>4, <2>5 DEF Recorded, OnlyCurrent, Current, Mine
    <2>9. Applied(c)'
      <3>1. SUFFICES ASSUME AppliesFresh PROVE Applied(c)'
        BY DEF Applied
      <3>2. /\ loc[c].gen = loc[c].rgen /\ api[c].observed <= loc[c].rgen
            /\ "body" \notin loc[c].drift => Carries(c, loc[c].id, loc[c].gen)
        BY <1>0, <1>1, <3>1 DEF Recorded, Applied, ReadStands, Applying
      <3>3. /\ api[c].observed \in Nat /\ objs[u].body \in Nat /\ u \in Uids
        BY <2>2, BoundsAssumption DEF TypeOK, Version, Object
      <3>4. Mine(c, u)' => Mine(c, u)
        BY <2>2, <2>4 DEF Mine
      <3>5. Mine(c, u)' => objs'[u].body = 0 \/ objs'[u].body >= loc[c].gen
        <4>1. CASE "body" \in loc[c].drift
          BY <1>1, <2>4, <4>1
        <4>2. CASE "body" \notin loc[c].drift
          BY <2>2, <2>4, <3>2, <3>4, <4>2 DEF Carries
        <4>3. QED BY <4>1, <4>2
      <3>6. objs'[u].body \in Nat
        BY <1>1, <2>4, <3>3
      <3>7. Mine(c, u)' => objs'[u].body = 0 \/ objs'[u].body >= api[c].observed
        BY <1>1, <3>2, <3>3, <3>5, <3>6
      <3>8. Carries(c, api[c].id, api[c].observed)'
        BY <1>1, <2>2, <2>5, <3>7 DEF Carries
      <3>9. Carries(c, loc[c].out, loc[c].gen)'
        BY <2>1, <2>2, <2>5, <3>5 DEF Carries
      <3>10. QED BY <2>1, <2>5, <3>2, <3>8, <3>9 DEF Applied
    <2>10. Recorded(c)'
      BY <2>6, <2>7, <2>8, <2>9 DEF Recorded
    <2>11. QED BY <1>0, <2>3, <2>4, <2>10, MoveKeeps
  <1>5. QED BY <1>2, <1>3, <1>4 DEF Patch

\* A create adds an object, and that is all.
LEMMA CreateSpares ==
  ASSUME TypeOK, NEW c \in CRs, made < MaxUid, made' = made + 1,
         objs' = [objs EXCEPT ![made + 1] = NewObject(c)]
  PROVE  /\ \A d \in CRs \ {c} : Spared(d)
         /\ made + 1 \in Uids /\ \A w \in Uids \ {made + 1} : objs'[w] = objs[w]
         /\ objs'[made + 1].owner = c /\ objs'[made + 1].body = loc[c].gen
         /\ \A w \in 1..made : w \in Uids \ {made + 1} /\ w \in 1..made'
         /\ made <= made' /\ made' \in 0..MaxUid
  <1>1. made + 1 \in Uids /\ made' \in 0..MaxUid /\ 1..made \subseteq Uids
    BY MadeUids
  <1>2. /\ made <= made' /\ \A w \in 1..made : w # made + 1 /\ w \in 1..made'
    BY BoundsAssumption DEF TypeOK
  <1>3. objs'[made + 1] = NewObject(c) /\ \A w \in Uids \ {made + 1} : objs'[w] = objs[w]
    BY <1>1 DEF TypeOK
  <1>4. NewObject(c).owner = c /\ NewObject(c).body = loc[c].gen
    BY DEF NewObject
  <1>5. ASSUME NEW d \in CRs \ {c} PROVE Spared(d)
    <2>1. \A w \in 1..made : objs'[w].live => objs[w].live
      BY <1>1, <1>2, <1>3
    <2>2. objs'[made + 1].owner # d
      BY <1>3, <1>4
    <2>3. \A w \in Uids : objs'[w].live /\ objs'[w].owner = d =>
             Mine(d, w) /\ objs'[w].body \in {objs[w].body, 0}
      BY <1>3, <2>2 DEF Mine
    <2>4. QED BY <1>1, <1>2, <2>1, <2>3 DEF Spared
  <1>6. QED BY <1>1, <1>2, <1>3, <1>4, <1>5

\* What is created has no other object of the CR's before it.
LEMMA CreateKeepsRecords ==
  ASSUME TypeOK, Recording, Ownership, PrimaryKeyed, NEW c \in CRs, Create(c)
  PROVE  Recording'
  <1>0. /\ pc[c] = "recreate" \/ (pc[c] = "fetched" /\ loc[c].id = NoId)
        /\ loc[c] \in Work
        /\ UNCHANGED <<api, cache, pending, faults>>
    BY DEF Create, Creating, TypeOK
  <1>1. Recorded(c) /\ api[c].id = loc[c].id /\ loc[c].gen \in Nat
    BY <1>0, BoundsAssumption DEF Recording, Recorded, ReadStands, Applying, Work
  <1>2. CASE Goto(c, "failed", loc[c]) /\ UNCHANGED <<made, objs>>
    BY <1>0, <1>2, QuietMove DEF Applying
  <1>3. CASE /\ made < MaxUid /\ made' = made + 1
             /\ objs' = [objs EXCEPT ![made + 1] = NewObject(c)]
             /\ Goto(c, "synced", [loc[c] EXCEPT
                       !.out = IF SlugKeyed THEN loc[c].name ELSE made + 1])
    <2> DEFINE w == [loc[c] EXCEPT !.out = IF SlugKeyed THEN loc[c].name ELSE made + 1]
    <2>1. w.id = loc[c].id /\ w.gen = loc[c].gen /\ w.rgen = loc[c].rgen
          /\ w.out = made + 1
      BY <1>0 DEF Work, PrimaryKeyed
    <2>2. Goto(c, "synced", w)
      BY <1>3
    <2> HIDE DEF w
    <2>3. /\ \A d \in CRs \ {c} : Spared(d)
          /\ made + 1 \in Uids /\ \A x \in Uids \ {made + 1} : objs'[x] = objs[x]
          /\ objs'[made + 1].owner = c /\ objs'[made + 1].body = loc[c].gen
          /\ \A x \in 1..made : x \in Uids \ {made + 1} /\ x \in 1..made'
      BY <1>3, CreateSpares
    <2>4. pc'[c] = "synced" /\ loc'[c] = w /\ api' = api /\ faults' = faults
      BY <1>0, <2>2 DEF Goto, TypeOK
    <2>5. loc[c].id = NoId \/ Dead(loc[c].id)
      BY <1>0, <1>1 DEF Recorded, Replaces
    <2>6. Unrecorded(c)' /\ ReadStands(c)'
      BY <1>0, <1>1, <2>1, <2>4 DEF Recorded, Unrecorded, ReadStands, Applying
    <2>7. Replaces(c)'
      <3>1. loc[c].id = NoId \/ (loc[c].id \in 1..made' /\ ~objs'[loc[c].id].live)
        BY <2>3, <2>5 DEF Dead
      <3>2. QED BY <2>1, <2>4, <3>1 DEF Replaces, Dead
    <2>8. OnlyCurrent(c)'
      <3>1. SUFFICES ASSUME faults = MaxFaults, NEW u \in Uids, Mine(c, u)'
                     PROVE  u = made + 1
        BY <2>1, <2>4 DEF OnlyCurrent, Current
      <3>2. SUFFICES ASSUME u # made + 1 PROVE FALSE
        OBVIOUS
      <3>3. Mine(c, u)
        BY <2>3, <3>1, <3>2 DEF Mine
      <3>4. u = loc[c].id
        BY <1>0, <1>1, <3>1, <3>3 DEF Recorded, OnlyCurrent, Current
      <3>5. QED BY <2>5, <3>3, <3>4, NameAssumption DEF Dead, Mine
    <2>9. Applied(c)'
      <3>1. SUFFICES ASSUME AppliesFresh PROVE Applied(c)'
        BY DEF Applied
      <3>2. loc[c].gen = loc[c].rgen
        BY <1>0, <1>1, <3>1 DEF Recorded, Applied, Applying
      <3>3. api[c].id \in Uids => ~objs[api[c].id].live /\ objs'[api[c].id] = objs[api[c].id]
        BY <1>1, <2>3, <2>5, NameAssumption DEF Dead
      <3>4. Carries(c, api[c].id, api[c].observed)'
        BY <2>4, <3>3 DEF Carries, Mine
      <3>5. Carries(c, loc[c].out, loc[c].gen)'
        BY <1>1, <2>1, <2>3, <2>4 DEF Carries
      <3>6. QED BY <2>1, <2>4, <3>2, <3>4, <3>5 DEF Applied
    <2>10. Recorded(c)'
      BY <2>6, <2>7, <2>8, <2>9 DEF Recorded
    <2>11. QED BY <1>0, <2>2, <2>3, <2>10, MoveKeeps
  <1>4. QED BY <1>2, <1>3 DEF Create

\* What is recorded is what the reconcile made or found.
LEMMA PublishKeeps ==
  ASSUME TypeOK, Recording, NEW c \in CRs, Publish(c)
  PROVE  Recording'
  <1>0. /\ pc[c] \in {"synced", "failed"} /\ Goto(c, "idle", NoWork)
        /\ api[c] \in Version /\ loc[c] \in Work
        /\ UNCHANGED <<cache, made, objs, faults>>
    BY DEF Publish, TypeOK
  <1>1. Recorded(c) /\ Followed /\ \A d \in CRs : Spared(d)
    BY <1>0, SameSpared DEF Recording
  <1>2. /\ pc'[c] = "idle" /\ loc'[c] = NoWork
        /\ \A d \in CRs \ {c} : pc'[d] = pc[d] /\ loc'[d] = loc[d]
    BY <1>0 DEF Goto, TypeOK
  <1>3. CASE ~Present(api[c])
    <2>1. pc[c] = "failed" /\ UNCHANGED <<api, pending>>
      BY <1>0, <1>1, <1>3 DEF Publish, Recorded, ReadStands, Applying
    <2>2. QED BY <1>0, <2>1, QuietMove DEF Applying
  <1>4. ASSUME NEW v \in Version, Write(c, v), Present(api[c]),
               v.phase = api[c].phase, v.fin = api[c].fin, v.paused = api[c].paused,
               v.gen = api[c].gen, v.id = Current(c),
               \/ v.observed = api[c].observed /\ pc[c] = "failed"
               \/ v.observed = loc[c].rgen /\ pc[c] = "synced"
        PROVE  Recording'
    <2>1. api'[c] = v /\ \A d \in CRs \ {c} : api'[d] = api[d]
      BY <1>4 DEF Write, TypeOK
    <2>2. Followed'
      <3>1. Since(api[c], v)
        BY <1>4 DEF Since
      <3>2. QED BY <1>0, <1>1, <1>4, <3>1, WriteFollows
    <2>3. Unrecorded(c)'
      <3>1. api[c].phase # "absent"
        BY <1>4 DEF Present
      <3>2. v.observed <= v.gen /\ (v.paused => v.observed = 0)
        BY <1>1, <1>4 DEF Recorded, Unrecorded, ReadStands, Applying
      <3>3. QED BY <1>4, <2>1, <3>1, <3>2 DEF Unrecorded
    <2>4. ReadStands(c)' /\ Replaces(c)'
      BY <1>2 DEF ReadStands, Replaces, Applying
    <2>5. OnlyCurrent(c)'
      BY <1>0, <1>1, <1>2, <1>4, <2>1 DEF Recorded, OnlyCurrent, Current, Mine
    <2>6. Applied(c)'
      <3>1. AppliesFresh => Carries(c, v.id, v.observed)
        BY <1>1, <1>4 DEF Recorded, Applied, Current, Applying
      <3>2. AppliesFresh => Carries(c, api[c].id, api[c].observed)'
        BY <1>0, <2>1, <3>1 DEF Carries, Mine
      <3>3. QED BY <1>2, <3>2 DEF Applied, Applying
    <2>7. Recorded(c)'
      BY <2>3, <2>4, <2>5, <2>6 DEF Recorded
    <2>8. QED BY <1>0, <1>1, <1>2, <2>1, <2>2, <2>7, OneKeeps
  <1>5. CASE Present(api[c]) /\ pc[c] = "synced"
    <2> DEFINE v == [api[c] EXCEPT !.id = loc[c].out, !.ready = "synced",
                                   !.observed = loc[c].rgen]
    <2>1. v \in Version
      BY <1>0, Zenon DEF Version, Work
    <2>2. /\ v.phase = api[c].phase /\ v.fin = api[c].fin /\ v.paused = api[c].paused
          /\ v.gen = api[c].gen
      BY <1>0, Zenon DEF Version
    <2>3. v.id = loc[c].out
      BY <1>0, Zenon DEF Version
    <2>4. v.observed = loc[c].rgen
      BY <1>0, Zenon DEF Version
    <2>5. Write(c, v)
      BY <1>5 DEF Publish
    <2> HIDE DEF v
    <2>6. QED BY <1>4, <1>5, <2>1, <2>2, <2>3, <2>4, <2>5 DEF Current
  <1>6. CASE Present(api[c]) /\ pc[c] = "failed"
    <2> DEFINE v == [api[c] EXCEPT !.ready = "failed"]
    <2>1. v \in Version
      BY <1>0, Zenon DEF Version
    <2>2. /\ v.phase = api[c].phase /\ v.fin = api[c].fin /\ v.paused = api[c].paused
          /\ v.gen = api[c].gen /\ v.id = api[c].id /\ v.observed = api[c].observed
      BY <1>0, Zenon DEF Version
    <2>3. Write(c, v)
      BY <1>6 DEF Publish
    <2> HIDE DEF v
    <2>4. QED BY <1>4, <1>6, <2>1, <2>2, <2>3 DEF Current
  <1>7. QED BY <1>0, <1>3, <1>5, <1>6

LEMMA CleanupKeepsRecords ==
  ASSUME TypeOK, Recording, NEW c \in CRs, Cleanup(c)
  PROVE  Recording'
  <1>1. /\ pc[c] = "idle" /\ UNCHANGED <<api, cache, pending, made, faults>>
        /\ \E w : Goto(c, "cleaned", w)
    BY DEF Cleanup, Reconcilable
  <1>2. PICK w : Goto(c, "cleaned", w)
    BY <1>1
  <1>3. \A u \in Uids : /\ objs'[u].owner = objs[u].owner /\ objs'[u].body = objs[u].body
                        /\ objs'[u].live => objs[u].live
    BY DEF Cleanup, TypeOK, Object
  <1>4. \A d \in CRs : Spared(d)
    <2>1. made' = made /\ made \in Nat /\ made \in 0..MaxUid /\ 1..made \subseteq Uids
      BY <1>1, MadeUids, BoundsAssumption DEF TypeOK
    <2>2. made' \in 0..MaxUid /\ made <= made'
      BY <2>1
    <2>3. \A u \in 1..made : objs'[u].live => objs[u].live
      BY <1>3, <2>1
    <2>4. ASSUME NEW d \in CRs, NEW u \in Uids, objs'[u].live, objs'[u].owner = d
          PROVE  Mine(d, u) /\ objs'[u].body \in {objs[u].body, 0}
      BY <1>3, <2>4 DEF Mine
    <2>5. QED BY <2>2, <2>3, <2>4 DEF Spared
  <1>5. Recorded(c) /\ Spared(c) /\ pc'[c] = "cleaned" /\ api' = api
    BY <1>1, <1>2, <1>4 DEF Recording, Goto, TypeOK
  <1>6. Unrecorded(c)' /\ ReadStands(c)' /\ Replaces(c)'
    BY <1>5 DEF Recorded, Unrecorded, ReadStands, Replaces, Applying
  <1>7. OnlyCurrent(c)'
    BY <1>1, <1>3, <1>5 DEF Recorded, OnlyCurrent, Current, Mine
  <1>8. Applied(c)'
    BY <1>3, <1>5 DEF Recorded, Applied, Carries, Mine, Applying
  <1>9. QED BY <1>1, <1>2, <1>4, <1>6, <1>7, <1>8, MoveKeeps DEF Recorded

LEMMA RemovalKeeps ==
  ASSUME TypeOK, Recording, NEW c \in CRs, RemoveFinalizer(c)
  PROVE  Recording'
  <1> DEFINE v == [api[c] EXCEPT !.fin = FALSE, !.phase = "gone"]
  <1>0. /\ pc[c] = "cleaned" /\ Goto(c, "idle", NoWork) /\ api[c] \in Version
        /\ UNCHANGED <<cache, made, objs, faults>>
    BY DEF RemoveFinalizer, TypeOK
  <1>1. CASE ~Present(api[c])
    BY <1>0, <1>1, QuietMove DEF RemoveFinalizer, Applying
  <1>2. CASE Present(api[c])
    <2>1. v \in Version
      BY <1>0, Zenon DEF Version
    <2>2. v.id = api[c].id /\ v.paused = api[c].paused /\ v.gen = api[c].gen
          /\ v.observed = api[c].observed
      BY <1>0, Zenon DEF Version
    <2>3. v.phase = "gone"
      BY <1>0, Zenon DEF Version
    <2>4. Write(c, v)
      BY <1>2 DEF RemoveFinalizer
    <2> HIDE DEF v
    <2>5. /\ api'[c] = v /\ pc'[c] = "idle"
          /\ \A d \in CRs \ {c} : api'[d] = api[d] /\ pc'[d] = pc[d] /\ loc'[d] = loc[d]
      BY <1>0, <2>4 DEF Write, Goto, TypeOK
    <2>6. Recorded(c) /\ Followed /\ \A d \in CRs : Spared(d)
      BY <1>0, SameSpared DEF Recording
    <2>7. Followed'
      <3>1. Since(api[c], v)
        BY <1>2, <2>2, <2>3 DEF Since, Present
      <3>2. QED BY <1>0, <2>1, <2>4, <2>6, <3>1, WriteFollows
    <2>8. Unrecorded(c)' /\ ReadStands(c)' /\ Replaces(c)'
      BY <2>2, <2>3, <2>5, <2>6 DEF Recorded, Unrecorded, ReadStands, Replaces, Applying
    <2>9. OnlyCurrent(c)'
      BY <1>0, <2>2, <2>5, <2>6 DEF Recorded, OnlyCurrent, Current, Mine
    <2>10. Applied(c)'
      BY <1>0, <2>2, <2>5, <2>6 DEF Recorded, Applied, Carries, Mine, Applying
    <2>11. Recorded(c)'
      BY <2>8, <2>9, <2>10 DEF Recorded
    <2>12. QED BY <1>0, <2>5, <2>6, <2>7, <2>11, OneKeeps
  <1>3. QED BY <1>1, <1>2

\* A lost reply leaves what was made or patched, and a record that still holds of it.
LEMMA LostKeeps ==
  ASSUME TypeOK, Recording, Ownership, PrimaryKeyed, NEW c \in CRs, ReplyLost(c)
  PROVE  Recording'
  <1>0. /\ Fault /\ Goto(c, "failed", loc[c]) /\ loc[c] \in Work
        /\ UNCHANGED <<api, cache, pending>>
        /\ pc[c] \in Applying
    BY DEF ReplyLost, Creating, Applying, TypeOK
  <1>1. Recorded(c) /\ api[c].id = loc[c].id /\ loc[c].gen \in Nat /\ pc'[c] = "failed"
        /\ api[c].observed <= loc[c].rgen /\ api[c].observed \in Nat
    BY <1>0, BoundsAssumption DEF Recording, Recorded, ReadStands, Applying, Work, Goto,
       TypeOK, Version
  <1>2. SUFFICES /\ \A d \in CRs \ {c} : Spared(d)
                 /\ AppliesFresh => Carries(c, api[c].id, api[c].observed)'
    <2>1. faults' # MaxFaults
      BY <1>0, BoundsAssumption DEF Fault, TypeOK
    <2>2. Unrecorded(c)' /\ ReadStands(c)' /\ Replaces(c)' /\ OnlyCurrent(c)'
      BY <1>0, <1>1, <2>1
         DEF Recorded, Unrecorded, ReadStands, Replaces, OnlyCurrent, Applying
    <2>3. Applied(c)'
      BY <1>1, <1>2 DEF Applied, Applying
    <2>4. QED BY <1>0, <1>2, <2>2, <2>3, MoveKeeps DEF Recorded
  <1>3. AppliesFresh => /\ Carries(c, api[c].id, api[c].observed)
                        /\ loc[c].gen = loc[c].rgen
    BY <1>0, <1>1 DEF Recorded, Applied
  <1>4. CASE /\ made < MaxUid /\ made' = made + 1
             /\ objs' = [objs EXCEPT ![made + 1] = NewObject(c)]
    <2>1. /\ \A d \in CRs \ {c} : Spared(d)
          /\ \A x \in Uids \ {made + 1} : objs'[x] = objs[x]
          /\ \A x \in 1..made : x \in Uids \ {made + 1} /\ x \in 1..made'
      BY <1>4, CreateSpares
    <2>2. api[c].id # NoId => api[c].id \in 1..made
      BY DEF Ownership, RecordsOwned, OwnedIn
    <2>3. api[c].id \in Uids => objs'[api[c].id] = objs[api[c].id]
      BY <2>1, <2>2, NameAssumption
    <2>4. AppliesFresh => Carries(c, api[c].id, api[c].observed)'
      BY <1>0, <1>3, <2>3 DEF Carries, Mine
    <2>5. QED BY <2>1, <2>4
  <1>5. ASSUME NEW u \in At(loc[c].id), UNCHANGED made,
               objs' = [objs EXCEPT ![u] = Patched(c, u)]
        PROVE  /\ \A d \in CRs \ {c} : Spared(d)
               /\ AppliesFresh => Carries(c, api[c].id, api[c].observed)'
    <2>1. /\ \A d \in CRs \ {c} : Spared(d)
          /\ \A x \in Uids : objs'[x].live = objs[x].live /\ objs'[x].owner = objs[x].owner
          /\ objs'[u].body = IF "body" \in loc[c].drift THEN loc[c].gen ELSE objs[u].body
      BY <1>5, PatchSpares
    <2>2. u = loc[c].id /\ u \in Uids
      BY FoundIsOwn DEF Ownership
    <2>3. AppliesFresh /\ Mine(c, u) =>
             objs'[u].body = 0 \/ objs'[u].body >= api[c].observed
      BY <1>1, <1>3, <2>1, <2>2 DEF Carries
    <2>4. AppliesFresh => Carries(c, api[c].id, api[c].observed)'
      BY <1>0, <1>1, <2>1, <2>2, <2>3 DEF Carries, Mine
    <2>5. QED BY <2>1, <2>4
  <1>6. QED BY <1>4, <1>5 DEF ReplyLost

LEMMA FaultKeeps ==
  ASSUME TypeOK, Recording, Ownership, PrimaryKeyed, Crash \/ \E c \in CRs : FaultStep(c)
  PROVE  Recording'
  <1>1. CASE Crash
    <2>1. faults' # MaxFaults
      BY <1>1, BoundsAssumption DEF Crash, Fault, TypeOK
    <2>2. ASSUME NEW c \in CRs
          PROVE  /\ pc'[c] = "idle" /\ api'[c] = api[c] /\ cache'[c] = api[c]
                 /\ Len(pending'[c]) = 0
      BY <1>1 DEF Crash
    <2>3. UNCHANGED <<made, objs>> /\ api' = api
      BY <1>1 DEF Crash
    <2>4. ASSUME NEW c \in CRs PROVE Recorded(c)'
      <3>1. Recorded(c)
        BY DEF Recording
      <3>2. Unrecorded(c)' /\ ReadStands(c)' /\ Replaces(c)' /\ OnlyCurrent(c)'
        BY <2>1, <2>2, <3>1
           DEF Recorded, Unrecorded, ReadStands, Replaces, OnlyCurrent, Applying
      <3>3. Applied(c)'
        BY <2>2, <2>3, <3>1 DEF Recorded, Applied, Carries, Mine, Applying
      <3>4. QED BY <3>2, <3>3 DEF Recorded
    <2>5. Followed'
      BY <2>2 DEF Followed, Since
    <2>6. QED BY <2>4, <2>5 DEF Recording
  <1>2. ASSUME NEW c \in CRs, CallFails(c) PROVE Recording'
    BY <1>2, QuietMove DEF CallFails, Applying
  <1>3. ASSUME NEW c \in CRs, WriteBackFails(c) PROVE Recording'
    BY <1>3, QuietMove DEF WriteBackFails, Applying
  <1>4. QED BY <1>1, <1>2, <1>3, LostKeeps DEF FaultStep

LEMMA NextRecording ==
  ASSUME PrimaryKeyed
  PROVE  TypeOK /\ Ownership /\ Recording /\ [Next]_vars => Recording'
  <1> SUFFICES ASSUME TypeOK, Ownership, Recording, [Next]_vars PROVE Recording'
    OBVIOUS
  <1>1. CASE UNCHANGED vars
    <2>1. UNCHANGED <<api, cache, pending, pc, loc, made, objs, faults>>
      BY <1>1 DEF vars
    <2>2. QED BY <2>1, SameSpared, OthersStay, FollowedStays DEF Recording
  <1>2. ASSUME NEW c \in CRs, OperatorStep(c) PROVE Recording'
    BY <1>2, DeliverKeeps, FinalizerKeeps, FetchKeeps, RetrieveKeeps, PatchKeepsRecords,
       CreateKeepsRecords, PublishKeeps, CleanupKeepsRecords, RemovalKeeps DEF OperatorStep
  <1>3. CASE Next
    BY <1>2, <1>3, UserKeeps, ImportKeeps, HumanKeeps, FaultKeeps DEF Next
  <1>4. QED BY <1>1, <1>3

LEMMA RecordingInvariant ==
  ASSUME PrimaryKeyed
  PROVE  Spec => [](TypeOK /\ Ownership /\ Recording)
  <1>1. Init => Recording
    BY InitRecorded DEF Recording
  <1>2. TypeOK /\ Ownership /\ Recording /\ [Next]_vars => Recording'
    BY NextRecording
  <1>3. QED BY <1>1, <1>2, OwnershipInvariant, PTL DEF Spec

\* Until a call is lost, no CR has two live objects in Authentik, however late the watch
\* is and whatever people delete, rename or import meanwhile: a create is only attempted
\* when the record just read is of an object gone, or is empty (controller/mod.rs,
\* current()).
THEOREM OneObject ==
  ASSUME PrimaryKeyed
  PROVE  Spec => []AtMostOneObject
  <1>1. TypeOK /\ Ownership /\ Recording => AtMostOneObject
    <2> SUFFICES ASSUME TypeOK, Recording, faults = MaxFaults, NEW u \in Uids, NEW v \in Uids,
                        objs[u].live, objs[v].live, objs[u].owner = objs[v].owner,
                        objs[u].owner # Human
                 PROVE  u = v
      BY DEF AtMostOneObject
    <2>1. objs[u].owner \in CRs
      BY DEF TypeOK, Object
    <2>2. OnlyCurrent(objs[u].owner)
      BY <2>1 DEF Recording, Recorded
    <2>3. u = Current(objs[u].owner) /\ v = Current(objs[u].owner)
      BY <2>2 DEF OnlyCurrent, Mine
    <2>4. QED BY <2>3
  <1>2. QED BY <1>1, RecordingInvariant, PTL

\* For the kinds that apply the copy of the CR just read, the generation published as
\* applied was applied: the object recorded carries that spec, a later one, or what a
\* person wrote over it, through lost replies and crashes (api/src/status.rs).
THEOREM PublishedIsApplied ==
  ASSUME PrimaryKeyed, AppliesFresh
  PROVE  Spec => []ObservedIsApplied
  <1>1. TypeOK /\ Ownership /\ Recording => ObservedIsApplied
    <2> SUFFICES ASSUME TypeOK, Recording, NEW c \in CRs, NEW u \in Uids,
                        u \in At(api[c].id), objs[u].owner = c
                 PROVE  objs[u].body = 0 \/ objs[u].body >= api[c].observed
      BY DEF ObservedIsApplied
    <2>1. u = api[c].id /\ objs[u].live
      BY DEF At, IdOf, PrimaryKeyed
    <2>2. Carries(c, api[c].id, api[c].observed)
      BY DEF Recording, Recorded, Applied
    <2>3. QED BY <2>1, <2>2 DEF Carries, Mine
  <1>2. QED BY <1>1, RecordingInvariant, PTL

\* A recorded id is only replaced when its object is gone from Authentik: an error of any
\* other kind, a crash or a late watch never makes a CR forget an object it has.
THEOREM RecordFollowsObject ==
  ASSUME PrimaryKeyed
  PROVE  Spec => RecordMovesOnlyWhenGone
  <1>1. ASSUME TypeOK, Recording, [Next]_vars, NEW c \in CRs,
               api[c].id # NoId, api'[c].id # api[c].id
        PROVE  At(api[c].id) = {}
    <2>0. api[c] \in Version /\ Recorded(c)
      BY <1>1 DEF TypeOK, Recording
    <2>1. Next
      BY <1>1 DEF vars
    <2>2. api' # api
      BY <1>1
    <2>3. api[c].phase # "absent"
      BY <1>1, <2>0 DEF Recorded, Unrecorded
    <2>4. \/ \E d \in CRs : UserStep(d) \/ ImportStep(d)
          \/ \E d \in CRs : AddFinalizer(d) \/ Publish(d) \/ RemoveFinalizer(d)
      BY <2>1, <2>2 DEF Next, HumanStep, OperatorStep, FaultStep, HumanCreates, HumanEdits,
         HumanDeletes, Deliver, Fetch, Retrieve, Patch, Create, Cleanup, CallFails,
         ReplyLost, WriteBackFails, Crash
    <2>5. \A v : \A d \in CRs : d # c /\ Write(d, v) => api'[c] = api[c]
      BY <1>1 DEF Write, TypeOK
    <2>6. \A v : Write(c, v) => api'[c] = v
      BY <1>1 DEF Write, TypeOK
    <2>7. ~UserStep(c)
      <3>1. \A n \in Names : ~UserCreates(c, n)
        BY <2>3 DEF UserCreates
      <3>2. \A n \in Names : [api[c] EXCEPT !.gen = @ + 1, !.name = n].id = api[c].id
        BY <2>0, Zenon DEF Version
      <3>3. /\ [api[c] EXCEPT !.phase = IF api[c].fin THEN "deleting" ELSE "gone"].id = api[c].id
            /\ [api[c] EXCEPT !.orphan = TRUE].id = api[c].id
        BY <2>0, Zenon DEF Version
      <3>4. \A n \in Names : ~UserEdits(c, n)
        BY <1>1, <2>6, <3>2 DEF UserEdits
      <3>5. ~UserDeletes(c) /\ ~UserOrphans(c)
        BY <1>1, <2>6, <3>3 DEF UserDeletes, UserOrphans
      <3>6. QED BY <3>1, <3>4, <3>5 DEF UserStep
    <2>8. ~ImportStep(c)
      <3>1. \A u \in 1..made : ~ImportCreates(c, u)
        BY <2>3 DEF ImportCreates
      <3>2. ~ImportSeeds(c)
        BY <1>1 DEF ImportSeeds
      <3>3. [api[c] EXCEPT !.paused = FALSE].id = api[c].id
        BY <2>0, Zenon DEF Version
      <3>4. ~ImportReleases(c)
        BY <1>1, <2>6, <3>3 DEF ImportReleases
      <3>5. QED BY <3>1, <3>2, <3>4 DEF ImportStep
    <2>9. ~AddFinalizer(c) /\ ~RemoveFinalizer(c)
      <3>1. /\ [api[c] EXCEPT !.fin = TRUE].id = api[c].id
            /\ [api[c] EXCEPT !.fin = FALSE, !.phase = "gone"].id = api[c].id
        BY <2>0, Zenon DEF Version
      <3>2. QED BY <1>1, <2>6, <3>1 DEF AddFinalizer, RemoveFinalizer
    <2>10. ASSUME NEW d \in CRs, d # c
           PROVE  ~UserStep(d) /\ ~ImportStep(d) /\ ~AddFinalizer(d) /\ ~Publish(d)
                  /\ ~RemoveFinalizer(d)
      BY <1>1, <2>5, <2>10 DEF UserStep, UserCreates, UserEdits, UserDeletes, UserOrphans,
         ImportStep, ImportCreates, ImportSeeds, ImportReleases, AddFinalizer, Publish,
         RemoveFinalizer
    <2>11. Publish(c)
      BY <2>4, <2>7, <2>8, <2>9, <2>10
    <2>12. pc[c] = "synced" /\ api'[c].id = loc[c].out
      <3>1. /\ [api[c] EXCEPT !.ready = "failed"].id = api[c].id
            /\ [api[c] EXCEPT !.id = loc[c].out, !.ready = "synced",
                              !.observed = loc[c].rgen].id = loc[c].out
        BY <2>0, Zenon DEF Version
      <3>2. QED BY <1>1, <2>6, <2>11, <3>1 DEF Publish
    <2>13. api[c].id = loc[c].id /\ Dead(api[c].id)
      BY <1>1, <2>0, <2>12 DEF Recorded, ReadStands, Replaces, Applying
    <2>14. QED BY <2>13 DEF Dead, At, IdOf, PrimaryKeyed
  <1>2. TypeOK /\ Ownership /\ Recording /\ [Next]_vars =>
          [\A c \in CRs :
              /\ api[c].id # NoId /\ api'[c].id # api[c].id
              => ~\E u \in At(api[c].id) : TRUE]_vars
    BY <1>1
  <1>3. QED BY <1>2, RecordingInvariant, PTL DEF Spec, RecordMovesOnlyWhenGone
-----------------------------------------------------------------------------
(* Flows.  Their id is their slug, and what has a slug may change: a CR      *)
(* keeps the slug of a flow that somebody else's has since.  Where no two   *)
(* CRs are given one slug (Reserved) and people take none of a CR's         *)
(* (KeepOff), what is recorded, cached or carried is the CR's own (Flows).  *)
(* Its slugs are still free to change, its flow to vanish and to be renamed.*)

\* Each CR's specs keep to the slugs that are its own.
Reserved(Home) == \A c \in CRs : api[c].phase # "absent" => Home[api[c].name] = c

\* People put no flow, new or renamed, at a slug of a CR there is, short of its own flow.
Puts(u) ==
    objs'[u].live /\ (u \notin 1..made \/ ~objs[u].live \/ objs'[u].name # objs[u].name)
KeepOff(Home) == HumanStep => \A u \in Uids, c \in CRs :
    Puts(u) /\ Home[objs'[u].name] = c /\ api[c].phase # "absent" => objs'[u].owner = c

\* Whose the flow at a slug may be.
Theirs(id, S) == \A u \in 1..made : objs[u].live /\ objs[u].name = id => objs[u].owner \in S

\* An id a CR holds is of its slugs, and so is the flow there.
Slug(Home, c, id) == id # NoId =>
    api[c].phase # "absent" /\ Home[id] = c /\ Theirs(id, {c})
Copy(Home, c, v) == Slug(Home, c, v.id) /\ (v.phase # "absent" => Home[v.name] = c)
SlugCopies(Home, c) ==
    /\ Copy(Home, c, api[c]) /\ Copy(Home, c, cache[c])
    /\ \A i \in 1..Len(pending[c]) : Copy(Home, c, pending[c][i])
SlugWork(Home, c) ==
    /\ Slug(Home, c, loc[c].id) /\ Slug(Home, c, loc[c].out)
    /\ pc[c] \in {"fetched", "retrieved", "recreate"} =>
          api[c].phase # "absent" /\ Home[loc[c].name] = c
    /\ pc[c] = "retrieved" => "name" \in loc[c].drift \/ loc[c].name = loc[c].id
SlugSeed(Home, c) == seeds[c] # NoId =>
    api[c].phase # "absent" /\ Home[seeds[c]] = c /\ Theirs(seeds[c], {c, Human})
\* No two flows have one slug.
Unique == \A u, v \in 1..made :
    objs[u].live /\ objs[v].live /\ objs[u].name = objs[v].name => u = v
Flows(Home) ==
    /\ Unique
    /\ \A c \in CRs : SlugCopies(Home, c) /\ SlugWork(Home, c) /\ SlugSeed(Home, c)

CRStep(c) == UserStep(c) \/ ImportStep(c) \/ OperatorStep(c) \/ FaultStep(c)

\* What a step of a CR writes to it, and that it leaves the other CRs alone.
LEMMA WritesOne ==
  ASSUME TypeOK, NEW c \in CRs, CRStep(c)
  PROVE  /\ api[c].phase # "absent" => api'[c].phase # "absent"
         /\ \/ api'[c].id \in {api[c].id, NoId}
            \/ ImportSeeds(c) /\ api'[c].id = seeds[c]
            \/ Publish(c) /\ pc[c] = "synced" /\ api'[c].id = loc[c].out
         /\ \/ cache'[c] = cache[c] /\ pending'[c] \in {pending[c], Append(pending[c], api'[c])}
            \/ /\ pending[c] # <<>> /\ cache'[c] = Head(pending[c])
               /\ pending'[c] = Tail(pending[c])
         /\ \A d \in CRs \ {c} :
               /\ api'[d] = api[d] /\ cache'[d] = cache[d] /\ pending'[d] = pending[d]
               /\ pc'[d] = pc[d] /\ loc'[d] = loc[d] /\ seeds'[d] = seeds[d]
         /\ seeds' = seeds \/ \E u \in 1..made : ImportCreates(c, u)
  <1> DEFINE
        Ids1 == \/ api'[c].id \in {api[c].id, NoId}
                \/ ImportSeeds(c) /\ api'[c].id = seeds[c]
                \/ Publish(c) /\ pc[c] = "synced" /\ api'[c].id = loc[c].out
        Copies1 == \/ cache'[c] = cache[c]
                      /\ pending'[c] \in {pending[c], Append(pending[c], api'[c])}
                   \/ /\ pending[c] # <<>> /\ cache'[c] = Head(pending[c])
                      /\ pending'[c] = Tail(pending[c])
        Rest1 == \A d \in CRs \ {c} :
               /\ api'[d] = api[d] /\ cache'[d] = cache[d] /\ pending'[d] = pending[d]
               /\ pc'[d] = pc[d] /\ loc'[d] = loc[d] /\ seeds'[d] = seeds[d]
        Seeds1 == seeds' = seeds \/ \E u \in 1..made : ImportCreates(c, u)
        Phase1 == api[c].phase # "absent" => api'[c].phase # "absent"
        Goal == Phase1 /\ Ids1 /\ Copies1 /\ Rest1 /\ Seeds1
  <1>0. api[c] \in Version /\ Blank \in Version /\ Blank.id = NoId
    BY BlankTypes DEF TypeOK, Blank
  <1>w. ASSUME NEW v, Write(c, v), UNCHANGED cache
        PROVE  /\ api'[c] = v /\ Copies1
               /\ \A d \in CRs \ {c} : api'[d] = api[d] /\ cache'[d] = cache[d]
                                       /\ pending'[d] = pending[d]
    BY <1>w DEF Write, TypeOK
  <1>g. ASSUME NEW step, NEW w, Goto(c, step, w)
        PROVE  \A d \in CRs \ {c} : pc'[d] = pc[d] /\ loc'[d] = loc[d]
    BY <1>g DEF Goto, TypeOK
  <1>s. ASSUME UNCHANGED <<api, cache, pending, seeds>>,
               \A d \in CRs \ {c} : pc'[d] = pc[d] /\ loc'[d] = loc[d]
        PROVE  Goal
    BY <1>s
  <1>1. ASSUME NEW n \in Names, UserCreates(c, n) PROVE Goal
    <2> DEFINE v == [Blank EXCEPT !.phase = "live", !.gen = 1, !.name = n]
    <2>1. v.id = NoId /\ v.phase = "live"
      BY <1>0 DEF Blank
    <2>2. Write(c, v) /\ UNCHANGED <<cache, pc, loc, seeds>>
      BY <1>1 DEF UserCreates
    <2> HIDE DEF v
    <2>3. QED BY <1>w, <2>1, <2>2
  <1>2. ASSUME NEW n \in Names, UserEdits(c, n) PROVE Goal
    <2> DEFINE v == [api[c] EXCEPT !.gen = @ + 1, !.name = n]
    <2>1. v.id = api[c].id /\ v.phase = api[c].phase
      BY <1>0, Zenon DEF Version
    <2>2. Write(c, v) /\ UNCHANGED <<cache, pc, loc, seeds>>
      BY <1>2 DEF UserEdits
    <2> HIDE DEF v
    <2>3. QED BY <1>w, <2>1, <2>2
  <1>3. ASSUME UserDeletes(c) PROVE Goal
    <2> DEFINE v == [api[c] EXCEPT !.phase = IF api[c].fin THEN "deleting" ELSE "gone"]
    <2>1. v.id = api[c].id /\ v.phase # "absent"
      BY <1>0 DEF Version
    <2>2. Write(c, v) /\ UNCHANGED <<cache, pc, loc, seeds>>
      BY <1>3 DEF UserDeletes
    <2> HIDE DEF v
    <2>3. QED BY <1>w, <2>1, <2>2
  <1>4. ASSUME UserOrphans(c) PROVE Goal
    <2> DEFINE v == [api[c] EXCEPT !.orphan = TRUE]
    <2>1. v.id = api[c].id /\ v.phase = api[c].phase
      BY <1>0, Zenon DEF Version
    <2>2. Write(c, v) /\ UNCHANGED <<cache, pc, loc, seeds>>
      BY <1>4 DEF UserOrphans
    <2> HIDE DEF v
    <2>3. QED BY <1>w, <2>1, <2>2
  <1>5. ASSUME NEW u \in 1..made, ImportCreates(c, u) PROVE Goal
    <2> DEFINE v == [Blank EXCEPT !.phase = "live", !.paused = TRUE, !.gen = 1,
                                  !.name = objs[u].name]
    <2>1. v.id = NoId /\ v.phase = "live"
      BY <1>0 DEF Blank
    <2>2. Write(c, v) /\ UNCHANGED <<cache, pc, loc>> /\ \A d \in CRs \ {c} : seeds'[d] = seeds[d]
      BY <1>5 DEF ImportCreates, TypeOK
    <2> HIDE DEF v
    <2>3. QED BY <1>5, <1>w, <2>1, <2>2
  <1>6. ASSUME ImportSeeds(c) PROVE Goal
    <2> DEFINE v == [api[c] EXCEPT !.id = seeds[c]]
    <2>1. v.id = seeds[c] /\ v.phase = api[c].phase
      BY <1>0, Zenon DEF Version
    <2>2. Write(c, v) /\ UNCHANGED <<cache, pc, loc, seeds>>
      BY <1>6 DEF ImportSeeds
    <2> HIDE DEF v
    <2>3. QED BY <1>6, <1>w, <2>1, <2>2
  <1>7. ASSUME ImportReleases(c) PROVE Goal
    <2> DEFINE v == [api[c] EXCEPT !.paused = FALSE]
    <2>1. v.id = api[c].id /\ v.phase = api[c].phase
      BY <1>0, Zenon DEF Version
    <2>2. Write(c, v) /\ UNCHANGED <<cache, pc, loc, seeds>>
      BY <1>7 DEF ImportReleases
    <2> HIDE DEF v
    <2>3. QED BY <1>w, <2>1, <2>2
  <1>8. ASSUME Deliver(c) PROVE Goal
    BY <1>8 DEF Deliver, TypeOK
  <1>9. ASSUME AddFinalizer(c) PROVE Goal
    <2> DEFINE v == [api[c] EXCEPT !.fin = TRUE]
    <2>1. v.id = api[c].id /\ v.phase = api[c].phase
      BY <1>0, Zenon DEF Version
    <2>2. Write(c, v) /\ UNCHANGED <<cache, pc, loc, seeds>>
      BY <1>9 DEF AddFinalizer
    <2> HIDE DEF v
    <2>3. QED BY <1>w, <2>1, <2>2
  <1>10. ASSUME Fetch(c) \/ Retrieve(c) \/ Patch(c) \/ Create(c) \/ Cleanup(c) \/ FaultStep(c)
         PROVE  Goal
    <2>1. UNCHANGED <<api, cache, pending, seeds>> /\ \E step, w : Goto(c, step, w)
      BY <1>10 DEF Fetch, Retrieve, Patch, Create, Cleanup, FaultStep, CallFails, ReplyLost,
                   WriteBackFails
    <2>2. QED BY <1>g, <1>s, <2>1
  <1>11. ASSUME Publish(c) PROVE Goal
    <2> DEFINE v == [api[c] EXCEPT !.id = loc[c].out, !.ready = "synced", !.observed = loc[c].rgen]
               f == [api[c] EXCEPT !.ready = "failed"]
    <2>1. v.id = loc[c].out /\ v.phase = api[c].phase /\ f.id = api[c].id /\ f.phase = api[c].phase
      BY <1>0, Zenon DEF Version
    <2>2. /\ \/ UNCHANGED <<api, pending>> \/ (Write(c, v) /\ pc[c] = "synced") \/ Write(c, f)
          /\ UNCHANGED <<cache, seeds>>
          /\ \A d \in CRs \ {c} : pc'[d] = pc[d] /\ loc'[d] = loc[d]
      BY <1>11, <1>g DEF Publish
    <2> HIDE DEF v, f
    <2>3. QED BY <1>11, <1>s, <1>w, <2>1, <2>2
  <1>12. ASSUME RemoveFinalizer(c) PROVE Goal
    <2> DEFINE v == [api[c] EXCEPT !.fin = FALSE, !.phase = "gone"]
    <2>1. v.id = api[c].id /\ v.phase = "gone"
      BY <1>0, Zenon DEF Version
    <2>2. /\ UNCHANGED <<api, pending>> \/ Write(c, v)
          /\ UNCHANGED <<cache, seeds>>
          /\ \A d \in CRs \ {c} : pc'[d] = pc[d] /\ loc'[d] = loc[d]
      BY <1>12, <1>g DEF RemoveFinalizer
    <2> HIDE DEF v
    <2>3. QED BY <1>s, <1>w, <2>1, <2>2
  <1>13. QED
    <2>1. Goal
      BY <1>1, <1>2, <1>3, <1>4, <1>5, <1>6, <1>7, <1>8, <1>9, <1>10, <1>11, <1>12
      DEF CRStep, UserStep, ImportStep, OperatorStep
    <2>2. QED BY <2>1

\* c puts a flow of its own at its slug, where there was none but that one.
Lands(Home, c, w) ==
    /\ w \in 1..made' /\ objs'[w].live /\ objs'[w].name = loc[c].name /\ objs'[w].owner = c
    /\ Home[loc[c].name] = c
    /\ w \in 1..made => objs[w].owner = c
    /\ \A v \in 1..made' \ {w} :
          v \in 1..made /\ objs'[v] = objs[v] /\ (objs[v].live => objs[v].name # loc[c].name)
\* Nothing appears or is renamed, and nothing changes hands.
Dwindles == \A u \in 1..made' : objs'[u].live =>
    /\ u \in 1..made /\ objs[u].live
    /\ objs'[u].name = objs[u].name /\ objs'[u].owner = objs[u].owner

LEMMA PatchLands ==
  ASSUME TypeOK, SlugKeyed, NEW Home \in [Names -> CRs \cup {Human}], Unique,
         NEW c \in CRs, SlugWork(Home, c), pc[c] = "retrieved", NEW w \in At(loc[c].id),
         ~PatchRefused(c, w), objs' = [objs EXCEPT ![w] = Patched(c, w)], made' = made
  PROVE  Lands(Home, c, w)
  <1>1. w \in 1..made /\ w \in Uids /\ objs[w].live /\ objs[w].name = loc[c].id /\ objs[w] \in Object
    BY MadeUids DEF At, IdOf, TypeOK
  <1>2. objs[w].owner = c /\ Home[loc[c].id] = c
    BY <1>1, NameAssumption DEF SlugWork, Slug, Theirs, Object
  <1>3. Home[loc[c].name] = c
    BY DEF SlugWork
  <1>4. objs'[w] = Patched(c, w) /\ \A v \in Uids \ {w} : objs'[v] = objs[v]
    BY <1>1 DEF TypeOK
  <1>5. /\ Patched(c, w).live /\ Patched(c, w).owner = c
        /\ Patched(c, w).name = IF "name" \in loc[c].drift THEN loc[c].name ELSE objs[w].name
    BY <1>1, <1>2 DEF Patched, Object
  <1>6. Patched(c, w).name = loc[c].name
    BY <1>1, <1>5 DEF SlugWork
  <1>7. ASSUME NEW v \in 1..made \ {w}, objs[v].live PROVE objs[v].name # loc[c].name
    <2>1. CASE objs[w].name = loc[c].name
      BY <1>1, <1>7, <2>1 DEF Unique
    <2>2. CASE objs[w].name # loc[c].name
      <3>1. "name" \in loc[c].drift
        BY <1>1, <2>2 DEF SlugWork
      <3>2. QED BY <1>7, <2>2, <3>1 DEF PatchRefused, Taken
    <2>3. QED BY <2>1, <2>2
  <1>8. QED BY <1>1, <1>2, <1>3, <1>4, <1>5, <1>6, <1>7, MadeUids DEF Lands

LEMMA CreateLands ==
  ASSUME TypeOK, NEW Home \in [Names -> CRs \cup {Human}],
         NEW c \in CRs, SlugWork(Home, c), Creating(c), ~Taken(loc[c].name), made < MaxUid,
         made' = made + 1, objs' = [objs EXCEPT ![made + 1] = NewObject(c)]
  PROVE  Lands(Home, c, made + 1)
  <1>1. made + 1 \in Uids /\ made \in Nat
    BY MadeUids, BoundsAssumption DEF TypeOK
  <1>2. objs'[made + 1] = NewObject(c) /\ \A v \in Uids \ {made + 1} : objs'[v] = objs[v]
    BY <1>1 DEF TypeOK
  <1>3. NewObject(c).live /\ NewObject(c).owner = c /\ NewObject(c).name = loc[c].name
    BY DEF NewObject
  <1>4. Home[loc[c].name] = c
    BY DEF SlugWork, Creating
  <1>5. \A v \in 1..made' \ {made + 1} : v \in 1..made
    BY <1>1
  <1>6. made + 1 \in 1..made' /\ made + 1 \notin 1..made
    BY <1>1
  <1>7. \A v \in 1..made : objs[v].live => objs[v].name # loc[c].name
    BY DEF Taken
  <1>8. QED BY <1>2, <1>3, <1>4, <1>5, <1>6, <1>7, MadeUids DEF Lands

\* What a step of a CR does to the flows.
LEMMA FlowEffect ==
  ASSUME TypeOK, SlugKeyed, NEW Home \in [Names -> CRs \cup {Human}], Flows(Home),
         NEW c \in CRs, CRStep(c)
  PROVE  \/ Dwindles /\ made' = made
         \/ ImportSeeds(c) /\ made' = made
         \/ /\ \E w : Lands(Home, c, w)
            /\ Patch(c) \/ Create(c) \/ ReplyLost(c)
  <1>0. Unique /\ SlugWork(Home, c)
    BY DEF Flows
  <1>1. ASSUME UNCHANGED <<made, objs>> PROVE Dwindles /\ made' = made
    BY <1>1 DEF Dwindles
  <1>2. CASE UserStep(c) \/ ImportReleases(c) \/ \E u \in 1..made : ImportCreates(c, u)
    BY <1>1, <1>2 DEF UserStep, UserCreates, UserEdits, UserDeletes, UserOrphans, ImportReleases,
                      ImportCreates
  <1>3. CASE \/ Deliver(c) \/ AddFinalizer(c) \/ Fetch(c) \/ Retrieve(c) \/ Publish(c)
             \/ RemoveFinalizer(c) \/ CallFails(c) \/ WriteBackFails(c)
    BY <1>1, <1>3 DEF Deliver, AddFinalizer, Fetch, Retrieve, Publish, RemoveFinalizer, CallFails,
                      WriteBackFails
  <1>4. CASE ImportSeeds(c)
    BY <1>4 DEF ImportSeeds
  <1>5. CASE Cleanup(c)
    <2>1. /\ made' = made
          /\ \A u \in Uids : objs'[u] = objs[u] \/ objs'[u] = [objs[u] EXCEPT !.live = FALSE]
      BY <1>5 DEF Cleanup
    <2>2. \A u \in Uids : objs[u] \in Object
      BY DEF TypeOK
    <2>3. \A u \in Uids : objs'[u].live => objs'[u] = objs[u]
      BY <2>1, <2>2 DEF Object
    <2>4. QED BY <2>1, <2>3, MadeUids DEF Dwindles
  <1>6. CASE Patch(c)
    BY <1>0, <1>1, <1>6, PatchLands DEF Patch
  <1>7. CASE Create(c)
    BY <1>0, <1>1, <1>7, CreateLands DEF Create
  <1>8. CASE ReplyLost(c)
    BY <1>0, <1>8, PatchLands, CreateLands DEF ReplyLost
  <1>9. QED BY <1>2, <1>3, <1>4, <1>5, <1>6, <1>7, <1>8
        DEF CRStep, ImportStep, OperatorStep, FaultStep

\* Whoever acts, slugs stay unique, and what comes to be at a slug of a CR there is becomes
\* that CR's.
Comes(Home, u) == \A c \in CRs :
    Home[objs'[u].name] = c /\ api[c].phase # "absent" => objs'[u].owner = c
Stays(u) == /\ u \in 1..made /\ objs[u].live
            /\ objs'[u].name = objs[u].name /\ objs'[u].owner = objs[u].owner

\* Theirs, once the step is taken.
Afterwards(id, S) ==
    \A u \in 1..made' : objs'[u].live /\ objs'[u].name = id => objs'[u].owner \in S

LEMMA DwindlesStays ==
  ASSUME Unique, Dwindles
  PROVE  Unique' /\ \A u \in 1..made' : objs'[u].live => Stays(u)
  BY DEF Unique, Dwindles, Stays

LEMMA LandsComes ==
  ASSUME TypeOK, NEW Home \in [Names -> CRs \cup {Human}], Unique,
         NEW c \in CRs, NEW w, Lands(Home, c, w)
  PROVE  /\ Unique'
         /\ \A u \in 1..made' : objs'[u].live => Stays(u) \/ Comes(Home, u)
         /\ Afterwards(loc[c].name, {c})
  <1>1. Unique'
    <2>1. SUFFICES ASSUME NEW u \in 1..made', NEW v \in 1..made', objs'[u].live, objs'[v].live,
                          objs'[u].name = objs'[v].name, u # v
                   PROVE  FALSE
      BY DEF Unique
    <2>2. CASE u = w
      BY <2>1, <2>2 DEF Lands
    <2>3. CASE v = w
      BY <2>1, <2>3 DEF Lands
    <2>4. CASE u # w /\ v # w
      BY <2>1, <2>4 DEF Lands, Unique
    <2>5. QED BY <2>2, <2>3, <2>4
  <1>2. \A u \in 1..made' : objs'[u].live => Stays(u) \/ Comes(Home, u)
    BY DEF Lands, Stays, Comes
  <1>3. \A u \in 1..made' : objs'[u].live /\ objs'[u].name = loc[c].name => objs'[u].owner \in {c}
    BY DEF Lands
  <1>4. QED BY <1>1, <1>2, <1>3 DEF Afterwards

\* Every step, whoever takes it.
LEMMA Motion ==
  ASSUME TypeOK, SlugKeyed, NEW Home \in [Names -> CRs \cup {Human}], Flows(Home),
         KeepOff(Home), Next
  PROVE  /\ Unique'
         /\ \A u \in 1..made' : objs'[u].live => Stays(u) \/ Comes(Home, u)
  <1> DEFINE Goal == /\ Unique'
                     /\ \A u \in 1..made' : objs'[u].live => Stays(u) \/ Comes(Home, u)
  <1>0. Unique /\ \A u \in Uids : objs[u] \in Object
    BY DEF Flows, TypeOK
  <1>1. ASSUME Dwindles PROVE Goal
    BY <1>0, <1>1, DwindlesStays
  <1>2. ASSUME NEW c \in CRs, ImportSeeds(c) PROVE Goal
    <2>1. made' = made /\ \A u \in Uids :
            objs'[u] = IF u \in At(seeds[c]) /\ objs[u].owner = Human
                       THEN [objs[u] EXCEPT !.owner = c] ELSE objs[u]
      BY <1>2 DEF ImportSeeds
    <2>2. \A u \in Uids : objs'[u].live = objs[u].live /\ objs'[u].name = objs[u].name
      BY <1>0, <2>1 DEF Object
    <2>3. Unique'
      BY <1>0, <2>1, <2>2, MadeUids DEF Unique
    <2>4. ASSUME NEW u \in 1..made', objs'[u].live PROVE Stays(u) \/ Comes(Home, u)
      <3>1. u \in 1..made /\ u \in Uids
        BY <2>1, MadeUids
      <3>2. CASE u \in At(seeds[c]) /\ objs[u].owner = Human
        <4>1. seeds[c] = objs[u].name /\ objs[u].name \in Names
          BY <1>0, <3>1, <3>2 DEF At, IdOf, Object
        <4>2. Home[objs[u].name] = c
          BY <4>1, NameAssumption DEF Flows, SlugSeed
        <4>3. objs'[u].owner = c
          BY <1>0, <2>1, <3>1, <3>2 DEF Object
        <4>4. QED BY <2>2, <3>1, <4>2, <4>3 DEF Comes
      <3>3. CASE ~(u \in At(seeds[c]) /\ objs[u].owner = Human)
        BY <2>1, <2>2, <2>4, <3>1, <3>3 DEF Stays
      <3>4. QED BY <3>2, <3>3
    <2>5. QED BY <2>3, <2>4
  <1>3. ASSUME NEW c \in CRs, CRStep(c) PROVE Goal
    <2>1. CASE Dwindles
      BY <1>1, <2>1
    <2>2. CASE ImportSeeds(c)
      BY <1>2, <2>2
    <2>3. CASE \E w : Lands(Home, c, w)
      BY <1>0, <2>3, LandsComes
    <2>4. QED BY <1>3, <2>1, <2>2, <2>3, FlowEffect
  <1>4. ASSUME HumanStep PROVE Goal
    <2>1. CASE \E n \in Names : HumanCreates(n)
      <3>1. PICK n \in Names : HumanCreates(n)
        BY <2>1
      <3>2. made + 1 \in Uids /\ made \in Nat
        BY <3>1, MadeUids, BoundsAssumption DEF HumanCreates, TypeOK
      <3>3. /\ made' = made + 1 /\ \A u \in Uids \ {made + 1} : objs'[u] = objs[u]
            /\ objs'[made + 1] = [owner |-> Human, name |-> n, body |-> 0, live |-> TRUE]
        BY <3>1, <3>2 DEF HumanCreates, TypeOK
      <3>4. \A u \in 1..made : u \in Uids /\ u # made + 1
        BY <3>2, MadeUids
      <3>5. \A u \in 1..made' : u \in 1..made \/ u = made + 1
        BY <3>2, <3>3
      <3>6. \A u \in 1..made : objs[u].live => objs[u].name # n
        BY <3>1 DEF HumanCreates, Taken
      <3>7. Unique'
        <4>1. objs'[made + 1].name = n
          BY <3>3
        <4>2. QED BY <1>0, <3>3, <3>4, <3>5, <3>6, <4>1 DEF Unique
      <3>8. Comes(Home, made + 1)
        <4>1. Puts(made + 1)
          BY <3>2, <3>3 DEF Puts
        <4>2. QED BY <1>4, <3>2, <4>1 DEF KeepOff, Comes
      <3>9. \A u \in 1..made : objs[u].live => Stays(u)
        BY <3>3, <3>4 DEF Stays
      <3>10. QED BY <3>3, <3>4, <3>5, <3>7, <3>8, <3>9
    <2>2. CASE \E u \in 1..made, n \in Names : HumanEdits(u, n)
      <3>1. PICK u \in 1..made, n \in Names : HumanEdits(u, n)
        BY <2>2
      <3>2. u \in Uids /\ made' = made /\ objs[u].live /\ (n = objs[u].name \/ ~Taken(n))
        BY <3>1, MadeUids DEF HumanEdits
      <3>3. /\ objs'[u].name = n /\ objs'[u].live /\ objs'[u].owner = objs[u].owner
            /\ \A v \in Uids \ {u} : objs'[v] = objs[v]
        BY <1>0, <3>1, <3>2 DEF HumanEdits, TypeOK, Object
      <3>4. Unique'
        BY <1>0, <3>2, <3>3, MadeUids DEF Unique, Taken
      <3>5. CASE n = objs[u].name
        BY <3>2, <3>3, <3>4, <3>5, MadeUids DEF Stays
      <3>6. CASE n # objs[u].name
        <4>1. Puts(u)
          BY <3>3, <3>6 DEF Puts
        <4>2. Comes(Home, u)
          BY <1>4, <3>2, <4>1 DEF KeepOff, Comes
        <4>3. QED BY <3>2, <3>3, <3>4, <4>2, MadeUids DEF Stays
      <3>7. QED BY <3>5, <3>6
    <2>3. CASE \E u \in 1..made : HumanDeletes(u)
      <3>1. PICK u \in 1..made : HumanDeletes(u)
        BY <2>3
      <3>2. u \in Uids /\ made' = made /\ ~objs'[u].live
            /\ \A v \in Uids \ {u} : objs'[v] = objs[v]
        BY <1>0, <3>1, MadeUids DEF HumanDeletes, TypeOK, Object
      <3>3. Dwindles
        BY <3>2, MadeUids DEF Dwindles
      <3>4. QED BY <1>1, <3>3
    <2>4. QED BY <1>4, <2>1, <2>2, <2>3 DEF HumanStep
  <1>5. ASSUME Crash PROVE Goal
    <2>1. Dwindles
      BY <1>5 DEF Crash, Dwindles
    <2>2. QED BY <1>1, <2>1
  <1>6. QED BY <1>3, <1>4, <1>5 DEF Next, CRStep

\* What is at a CR's slug is still the CR's after a step.
AfterSlug(Home, c, id) == id # NoId =>
    api'[c].phase # "absent" /\ Home[id] = c /\ Afterwards(id, {c})
AfterCopy(Home, c, v) == AfterSlug(Home, c, v.id) /\ (v.phase # "absent" => Home[v.name] = c)
AfterWork(Home, c, step, w) ==
    /\ AfterSlug(Home, c, w.id) /\ AfterSlug(Home, c, w.out)
    /\ step \in {"fetched", "retrieved", "recreate"} =>
          api'[c].phase # "absent" /\ Home[w.name] = c
    /\ step = "retrieved" => "name" \in w.drift \/ w.name = w.id

LEMMA TheirsStay ==
  ASSUME NEW Home, NEW c \in CRs, api[c].phase # "absent", NEW id, Home[id] = c,
         NEW S, c \in S, Theirs(id, S),
         \A u \in 1..made' : objs'[u].live => Stays(u) \/ Comes(Home, u)
  PROVE  Afterwards(id, S)
  BY DEF Theirs, Afterwards, Stays, Comes

LEMMA PhaseStays ==
  ASSUME TypeOK, Next, NEW c \in CRs, api[c].phase # "absent"
  PROVE  api'[c].phase # "absent"
  <1>1. ASSUME NEW d \in CRs, CRStep(d) PROVE api'[c].phase # "absent"
    BY <1>1, WritesOne
  <1>2. CASE HumanStep \/ Crash
    BY <1>2 DEF HumanStep, HumanCreates, HumanEdits, HumanDeletes, Crash
  <1>3. QED BY <1>1, <1>2 DEF Next, CRStep

LEMMA SlugStays ==
  ASSUME TypeOK, SlugKeyed, NEW Home \in [Names -> CRs \cup {Human}], Flows(Home),
         KeepOff(Home), Next, NEW c \in CRs
  PROVE  /\ \A id : Slug(Home, c, id) => AfterSlug(Home, c, id)
         /\ \A v : Copy(Home, c, v) => AfterCopy(Home, c, v)
  <1>1. \A u \in 1..made' : objs'[u].live => Stays(u) \/ Comes(Home, u)
    BY Motion
  <1>2. ASSUME NEW id, Slug(Home, c, id) PROVE AfterSlug(Home, c, id)
    <2>1. SUFFICES ASSUME id # NoId
                   PROVE  api'[c].phase # "absent" /\ Home[id] = c /\ Afterwards(id, {c})
      BY DEF AfterSlug
    <2>2. api[c].phase # "absent" /\ Home[id] = c /\ Theirs(id, {c})
      BY <1>2, <2>1 DEF Slug
    <2>3. Afterwards(id, {c})
      BY <1>1, <2>2, TheirsStay
    <2>4. QED BY <2>2, <2>3, PhaseStays
  <1>3. QED BY <1>2 DEF Copy, AfterCopy

\* What a reconcile carries on with is its CR's.
LEMMA GotoWork ==
  ASSUME TypeOK, NEW Home \in [Names -> CRs \cup {Human}], NEW c \in CRs,
         NEW step, NEW w, Goto(c, step, w), AfterWork(Home, c, step, w)
  PROVE  SlugWork(Home, c)'
  <1>1. pc'[c] = step /\ loc'[c] = w
    BY DEF Goto, TypeOK
  <1>2. QED BY <1>1 DEF AfterWork, AfterSlug, Afterwards, SlugWork, Slug, Theirs

LEMMA NoWorkIsAnyones ==
  ASSUME NEW Home, NEW c \in CRs, NEW step,
         step \notin {"fetched", "retrieved", "recreate"}
  PROVE  AfterWork(Home, c, step, NoWork)
  BY DEF AfterWork, AfterSlug, NoWork

LEMMA WorkOfItsOwn ==
  ASSUME TypeOK, SlugKeyed, NEW Home \in [Names -> CRs \cup {Human}], Flows(Home),
         KeepOff(Home), Next, NEW c \in CRs, CRStep(c)
  PROVE  SlugWork(Home, c)'
  <1>0. SlugWork(Home, c) /\ SlugCopies(Home, c) /\ loc[c] \in Work /\ cache[c] \in Version
    BY DEF Flows, TypeOK
  <1>1. /\ \A id : Slug(Home, c, id) => AfterSlug(Home, c, id)
        /\ api[c].phase # "absent" => api'[c].phase # "absent"
    BY SlugStays, PhaseStays
  <1>2. AfterSlug(Home, c, loc[c].id) /\ AfterSlug(Home, c, loc[c].out) /\ AfterSlug(Home, c, NoId)
    BY <1>0, <1>1 DEF SlugWork, AfterSlug
  <1>3. ASSUME NEW step \in {"recreate", "failed"}, Goto(c, step, loc[c]),
               step = "recreate" => pc[c] \in {"fetched", "retrieved"}
        PROVE  SlugWork(Home, c)'
    <2>1. AfterWork(Home, c, step, loc[c])
      BY <1>0, <1>1, <1>2, <1>3 DEF SlugWork, AfterWork
    <2>2. QED BY <1>3, <2>1, GotoWork
  <1>4. ASSUME Goto(c, "idle", NoWork) PROVE SlugWork(Home, c)'
    BY <1>4, NoWorkIsAnyones, GotoWork
  <1>5. ASSUME NEW id, AfterSlug(Home, c, id), Goto(c, "synced", [loc[c] EXCEPT !.out = id])
        PROVE  SlugWork(Home, c)'
    <2> DEFINE w == [loc[c] EXCEPT !.out = id]
    <2>1. w.id = loc[c].id /\ w.out = id
      BY <1>0, Zenon DEF Work
    <2>2. Goto(c, "synced", w)
      BY <1>5
    <2> HIDE DEF w
    <2>3. AfterWork(Home, c, "synced", w)
      BY <1>2, <1>5, <2>1 DEF AfterWork
    <2>4. QED BY <2>2, <2>3, GotoWork
  <1>6. ASSUME UNCHANGED <<pc, loc>> PROVE SlugWork(Home, c)'
    <2>1. AfterWork(Home, c, pc[c], loc[c])
      BY <1>0, <1>1, <1>2 DEF SlugWork, AfterWork
    <2>2. QED BY <1>6, <2>1 DEF AfterWork, AfterSlug, Afterwards, SlugWork, Slug, Theirs
  <1>7. CASE UserStep(c) \/ ImportStep(c) \/ Deliver(c) \/ AddFinalizer(c)
    BY <1>6, <1>7 DEF UserStep, UserCreates, UserEdits, UserDeletes, UserOrphans, ImportStep,
                      ImportCreates, ImportSeeds, ImportReleases, Deliver, AddFinalizer
  <1>8. CASE Publish(c) \/ RemoveFinalizer(c) \/ WriteBackFails(c)
    BY <1>4, <1>8 DEF Publish, RemoveFinalizer, WriteBackFails
  <1>9. CASE CallFails(c) \/ ReplyLost(c)
    BY <1>3, <1>9 DEF CallFails, ReplyLost
  <1>10. CASE Fetch(c)
    <2> DEFINE w == [gen |-> AppliedSpec(c).gen, name |-> AppliedSpec(c).name,
                     id |-> api[c].id, rgen |-> api[c].gen, drift |-> {}, out |-> NoId]
    <2>1. AppliedSpec(c) = cache[c]
      BY DEF AppliedSpec, FlowSpec, SlugKeyed
    <2>2. cache[c].phase = "live" /\ Present(api[c])
      BY <1>10 DEF Fetch
    <2>3. Home[w.name] = c /\ AfterSlug(Home, c, w.id) /\ w.out = NoId
      BY <1>0, <1>1, <2>1, <2>2 DEF SlugCopies, Copy
    <2>4. Goto(c, "fetched", w)
      BY <1>10 DEF Fetch
    <2> HIDE DEF w
    <2>5. AfterWork(Home, c, "fetched", w)
      BY <1>1, <1>2, <2>2, <2>3 DEF AfterWork, Present
    <2>6. QED BY <2>4, <2>5, GotoWork
  <1>11. CASE Retrieve(c)
    <2>1. CASE Goto(c, "recreate", loc[c])
      BY <1>3, <1>11, <2>1 DEF Retrieve
    <2>2. ASSUME NEW u \in At(loc[c].id), DriftOf(c, u) = {},
                 Goto(c, "synced", [loc[c] EXCEPT !.out = OutId(c)])
          PROVE  SlugWork(Home, c)'
      <3>1. objs[u].name = loc[c].id /\ objs[u].name = loc[c].name
        BY <2>2 DEF At, IdOf, DriftOf, Fields
      <3>2. AfterSlug(Home, c, OutId(c))
        BY <1>2, <3>1 DEF OutId
      <3>3. QED BY <1>5, <2>2, <3>2
    <2>3. ASSUME NEW u \in At(loc[c].id),
                 Goto(c, "retrieved", [loc[c] EXCEPT !.drift = DriftOf(c, u)])
          PROVE  SlugWork(Home, c)'
      <3> DEFINE w == [loc[c] EXCEPT !.drift = DriftOf(c, u)]
      <3>1. /\ w.id = loc[c].id /\ w.out = loc[c].out /\ w.name = loc[c].name
            /\ w.drift = DriftOf(c, u)
        BY <1>0, Zenon DEF Work
      <3>2. Goto(c, "retrieved", w)
        BY <2>3
      <3> HIDE DEF w
      <3>3. "name" \in DriftOf(c, u) \/ loc[c].name = loc[c].id
        BY DEF At, IdOf, DriftOf, Fields
      <3>4. AfterWork(Home, c, "retrieved", w)
        BY <1>0, <1>1, <1>2, <1>11, <3>1, <3>3 DEF Retrieve, SlugWork, AfterWork
      <3>5. QED BY <3>2, <3>4, GotoWork
    <2>4. QED BY <1>11, <2>1, <2>2, <2>3 DEF Retrieve
  <1>12. ASSUME NEW v, Lands(Home, c, v), api[c].phase # "absent"
         PROVE  AfterSlug(Home, c, loc[c].name)
    <2>1. Afterwards(loc[c].name, {c}) /\ Home[loc[c].name] = c
      BY <1>12, LandsComes DEF Flows, Lands
    <2>2. QED BY <1>1, <1>12, <2>1 DEF AfterSlug
  <1>13. CASE Patch(c)
    <2>1. CASE Goto(c, "recreate", loc[c]) \/ Goto(c, "failed", loc[c])
      BY <1>3, <1>13, <2>1 DEF Patch
    <2>2. ASSUME NEW u \in At(loc[c].id), ~PatchRefused(c, u),
                 objs' = [objs EXCEPT ![u] = Patched(c, u)],
                 Goto(c, "synced", [loc[c] EXCEPT !.out = OutId(c)])
          PROVE  SlugWork(Home, c)'
      <3>1. Lands(Home, c, u) /\ api[c].phase # "absent"
        BY <1>0, <1>13, <2>2, PatchLands DEF Patch, Flows, SlugWork
      <3>2. QED BY <1>5, <1>12, <2>2, <3>1 DEF OutId
    <2>3. QED BY <1>13, <2>1, <2>2 DEF Patch
  <1>14. CASE Create(c)
    <2>1. CASE Goto(c, "failed", loc[c])
      BY <1>3, <2>1
    <2>2. CASE /\ ~Taken(loc[c].name) /\ made < MaxUid
               /\ made' = made + 1
               /\ objs' = [objs EXCEPT ![made + 1] = NewObject(c)]
               /\ Goto(c, "synced", [loc[c] EXCEPT !.out = loc[c].name])
      <3>1. Lands(Home, c, made + 1) /\ api[c].phase # "absent"
        BY <1>0, <1>14, <2>2, CreateLands DEF Create, Creating, SlugWork
      <3>2. QED BY <1>5, <1>12, <2>2, <3>1
    <2>3. QED BY <1>14, <2>1, <2>2 DEF Create
  <1>15. CASE Cleanup(c)
    <2> DEFINE id == IF cache[c].orphan THEN NoId ELSE cache[c].id
               w == [NoWork EXCEPT !.id = id]
    <2>1. w.id = id /\ w.out = NoId
      BY DEF NoWork
    <2>2. Goto(c, "cleaned", w)
      BY <1>15 DEF Cleanup
    <2>3. AfterSlug(Home, c, id)
      BY <1>0, <1>1, <1>2 DEF SlugCopies, Copy
    <2> HIDE DEF w, id
    <2>4. AfterWork(Home, c, "cleaned", w)
      BY <1>2, <2>1, <2>3 DEF AfterWork
    <2>5. QED BY <2>2, <2>4, GotoWork
  <1>16. QED BY <1>7, <1>8, <1>9, <1>10, <1>11, <1>13, <1>14, <1>15
         DEF CRStep, OperatorStep, FaultStep

\* The copies of a CR, as it takes a step.
LEMMA CopiesOfItsOwn ==
  ASSUME TypeOK, SlugKeyed, NEW Home \in [Names -> CRs \cup {Human}], Flows(Home),
         Reserved(Home)', KeepOff(Home), Next, NEW c \in CRs, CRStep(c)
  PROVE  SlugCopies(Home, c)'
  <1>0. SlugCopies(Home, c) /\ SlugWork(Home, c) /\ SlugSeed(Home, c)
    BY DEF Flows
  <1>1. /\ \A id : Slug(Home, c, id) => AfterSlug(Home, c, id)
        /\ \A v : Copy(Home, c, v) => AfterCopy(Home, c, v)
    BY SlugStays
  <1>2. AfterSlug(Home, c, api'[c].id)
    <2>1. CASE api'[c].id \in {api[c].id, NoId}
      BY <1>0, <1>1, <2>1 DEF SlugCopies, Copy, AfterSlug
    <2>2. CASE Publish(c) /\ pc[c] = "synced" /\ api'[c].id = loc[c].out
      BY <1>0, <1>1, <2>2 DEF SlugWork
    <2>3. CASE ImportSeeds(c) /\ api'[c].id = seeds[c]
      <3>1. SUFFICES ASSUME seeds[c] # NoId PROVE AfterSlug(Home, c, seeds[c])
        BY <2>3 DEF AfterSlug
      <3>2. api[c].phase # "absent" /\ Home[seeds[c]] = c /\ Theirs(seeds[c], {c, Human})
        BY <1>0, <3>1 DEF SlugSeed
      <3>3. \A u \in Uids : objs[u] \in Object /\ objs'[u] =
                IF u \in At(seeds[c]) /\ objs[u].owner = Human
                THEN [objs[u] EXCEPT !.owner = c] ELSE objs[u]
        BY <2>3 DEF ImportSeeds, TypeOK
      <3>4. made' = made
        BY <2>3 DEF ImportSeeds
      <3>5. ASSUME NEW u \in 1..made', objs'[u].live, objs'[u].name = seeds[c]
            PROVE  objs'[u].owner = c
        <4>1. u \in 1..made /\ u \in Uids
          BY <3>4, MadeUids
        <4>2. objs[u].live /\ objs[u].name = seeds[c]
          BY <3>3, <3>5, <4>1 DEF Object
        <4>3. u \in At(seeds[c]) /\ objs[u].owner \in {c, Human}
          BY <3>2, <4>1, <4>2 DEF At, IdOf, Theirs
        <4>4. QED BY <3>3, <4>1, <4>3 DEF Object
      <3>6. QED BY <3>2, <3>5, PhaseStays DEF AfterSlug, Afterwards
    <2>4. QED BY <2>1, <2>2, <2>3, WritesOne
  <1>3. AfterCopy(Home, c, api'[c])
    BY <1>2 DEF AfterCopy, Reserved
  <1>4. AfterCopy(Home, c, cache[c])
        /\ \A i \in 1..Len(pending[c]) : AfterCopy(Home, c, pending[c][i])
    BY <1>0, <1>1 DEF SlugCopies
  <1> DEFINE V == {v \in Version : AfterCopy(Home, c, v)}
  <1>5. api'[c] \in V /\ cache[c] \in V /\ pending[c] \in Seq(V)
    <2>1. api'[c] \in Version /\ cache[c] \in Version /\ pending[c] \in Seq(Version)
      BY NextType DEF TypeOK
    <2>2. \A i \in 1..Len(pending[c]) : pending[c][i] \in V
      BY <1>4, <2>1
    <2> HIDE DEF V
    <2>3. pending[c] \in Seq(V)
      BY <2>1, <2>2
    <2>4. QED BY <1>3, <1>4, <2>1, <2>3 DEF V
  <1>6. cache'[c] \in V /\ pending'[c] \in Seq(V)
    <2> HIDE DEF V
    <2>1. Append(pending[c], api'[c]) \in Seq(V)
      BY <1>5
    <2>2. pending[c] # <<>> => Head(pending[c]) \in V /\ Tail(pending[c]) \in Seq(V)
      BY <1>5
    <2>3. QED BY <1>5, <2>1, <2>2, WritesOne
  <1>7. AfterCopy(Home, c, cache'[c])
        /\ \A i \in 1..Len(pending'[c]) : AfterCopy(Home, c, pending'[c][i])
    <2>1. \A v \in V : AfterCopy(Home, c, v)
      OBVIOUS
    <2> HIDE DEF V
    <2>2. QED BY <1>6, <2>1
  <1>8. QED BY <1>3, <1>7
        DEF AfterCopy, AfterSlug, Afterwards, SlugCopies, Copy, Slug, Theirs

\* A CR the step is not of, or the crash finds.
LEMMA LeftAlone ==
  ASSUME TypeOK, SlugKeyed, NEW Home \in [Names -> CRs \cup {Human}], Flows(Home),
         KeepOff(Home), Next, NEW d \in CRs,
         api'[d] = api[d], cache'[d] \in {cache[d], api[d]}, pending'[d] \in {pending[d], <<>>},
         \/ pc'[d] = pc[d] /\ loc'[d] = loc[d]
         \/ pc'[d] = "idle" /\ loc'[d] = NoWork
  PROVE  SlugCopies(Home, d)' /\ SlugWork(Home, d)'
  <1>1. SlugCopies(Home, d) /\ SlugWork(Home, d)
    BY DEF Flows
  <1>2. /\ \A id : Slug(Home, d, id) => AfterSlug(Home, d, id)
        /\ \A v : Copy(Home, d, v) => AfterCopy(Home, d, v)
        /\ api[d].phase # "absent" => api'[d].phase # "absent"
    BY SlugStays, PhaseStays
  <1>3. SlugCopies(Home, d)'
    <2>1. /\ AfterCopy(Home, d, api[d]) /\ AfterCopy(Home, d, cache[d])
          /\ \A i \in 1..Len(pending[d]) : AfterCopy(Home, d, pending[d][i])
      BY <1>1, <1>2 DEF SlugCopies
    <2>2. \A i \in 1..Len(pending'[d]) : AfterCopy(Home, d, pending'[d][i])
      <3>1. CASE pending'[d] = <<>>
        BY <3>1
      <3>2. QED BY <2>1, <3>1
    <2>3. AfterCopy(Home, d, api'[d]) /\ AfterCopy(Home, d, cache'[d])
      BY <2>1
    <2>4. QED BY <2>2, <2>3
          DEF AfterCopy, AfterSlug, Afterwards, SlugCopies, Copy, Slug, Theirs
  <1>4. SlugWork(Home, d)'
    <2>1. AfterWork(Home, d, pc'[d], loc'[d])
      <3>1. CASE pc'[d] = pc[d] /\ loc'[d] = loc[d]
        BY <1>1, <1>2, <3>1 DEF SlugWork, AfterWork
      <3>2. CASE pc'[d] = "idle" /\ loc'[d] = NoWork
        BY <3>2, NoWorkIsAnyones
      <3>3. QED BY <3>1, <3>2
    <2>2. QED BY <2>1 DEF AfterWork, AfterSlug, Afterwards, SlugWork, Slug, Theirs
  <1>5. QED BY <1>3, <1>4

\* What the importer set aside for a CR is still a person's, or the CR's.
LEMMA SeedOfItsOwn ==
  ASSUME TypeOK, SlugKeyed, NEW Home \in [Names -> CRs \cup {Human}], Flows(Home),
         Reserved(Home)', KeepOff(Home), Next, NEW d \in CRs
  PROVE  SlugSeed(Home, d)'
  <1>1. ASSUME seeds'[d] = seeds[d] PROVE SlugSeed(Home, d)'
    <2>1. SUFFICES ASSUME seeds[d] # NoId
                   PROVE  /\ api'[d].phase # "absent" /\ Home[seeds[d]] = d
                          /\ Afterwards(seeds[d], {d, Human})
      BY <1>1 DEF SlugSeed, Theirs, Afterwards
    <2>2. api[d].phase # "absent" /\ Home[seeds[d]] = d /\ Theirs(seeds[d], {d, Human})
      BY <2>1 DEF Flows, SlugSeed
    <2>3. \A u \in 1..made' : objs'[u].live => Stays(u) \/ Comes(Home, u)
      BY Motion
    <2>4. Afterwards(seeds[d], {d, Human})
      BY <2>2, <2>3, TheirsStay
    <2>5. QED BY <2>2, <2>4, PhaseStays
  <1>2. ASSUME NEW u \in 1..made, ImportCreates(d, u) PROVE SlugSeed(Home, d)'
    <2> DEFINE v == [Blank EXCEPT !.phase = "live", !.paused = TRUE, !.gen = 1,
                                  !.name = objs[u].name]
    <2>1. v.phase = "live" /\ v.name = objs[u].name
      BY BlankTypes DEF Blank
    <2>2. api'[d] = v
      BY <1>2 DEF ImportCreates, Write, TypeOK
    <2> HIDE DEF v
    <2>3. /\ seeds'[d] = objs[u].name /\ UNCHANGED <<made, objs>>
          /\ objs[u].live /\ objs[u].owner = Human
      BY <1>2 DEF ImportCreates, IdOf, TypeOK
    <2>4. Home[objs[u].name] = d /\ api'[d].phase # "absent"
      BY <2>1, <2>2 DEF Reserved
    <2>5. \A w \in 1..made : objs[w].live /\ objs[w].name = objs[u].name => objs[w].owner = Human
      BY <2>3 DEF Flows, Unique
    <2>6. QED BY <2>3, <2>4, <2>5 DEF SlugSeed, Theirs
  <1>3. ASSUME NEW c \in CRs, CRStep(c) PROVE SlugSeed(Home, d)'
    <2>1. CASE c # d \/ seeds' = seeds
      BY <1>1, <1>3, <2>1, WritesOne
    <2>2. CASE c = d /\ \E u \in 1..made : ImportCreates(c, u)
      BY <1>2, <2>2
    <2>3. QED BY <1>3, <2>1, <2>2, WritesOne
  <1>4. CASE HumanStep \/ Crash
    BY <1>1, <1>4 DEF HumanStep, HumanCreates, HumanEdits, HumanDeletes, Crash
  <1>5. QED BY <1>3, <1>4 DEF Next, CRStep

LEMMA InitFlows ==
  ASSUME NEW Home \in [Names -> CRs \cup {Human}], Init
  PROVE  Flows(Home)
  <1>1. Blank.id = NoId /\ Blank.phase = "absent" /\ NoWork.id = NoId /\ NoWork.out = NoId
    BY DEF Blank, NoWork
  <1>2. Unique
    BY DEF Init, Unique
  <1>3. ASSUME NEW c \in CRs PROVE SlugCopies(Home, c) /\ SlugWork(Home, c) /\ SlugSeed(Home, c)
    <2>1. /\ api[c] = Blank /\ cache[c] = Blank /\ pending[c] = <<>> /\ pc[c] = "idle"
          /\ loc[c] = NoWork /\ seeds[c] = NoId
      BY DEF Init
    <2>2. QED BY <1>1, <2>1 DEF SlugCopies, Copy, SlugWork, SlugSeed, Slug
  <1>4. QED BY <1>2, <1>3 DEF Flows

LEMMA NextFlows ==
  ASSUME TypeOK, SlugKeyed, NEW Home \in [Names -> CRs \cup {Human}], Flows(Home),
         Reserved(Home)', [KeepOff(Home)]_vars, [Next]_vars
  PROVE  Flows(Home)'
  <1>1. CASE UNCHANGED vars
    BY <1>1 DEF vars, Flows, Unique, SlugCopies, Copy, SlugWork, SlugSeed, Slug, Theirs
  <1>2. CASE Next /\ KeepOff(Home)
    <2>1. Unique'
      BY <1>2, Motion
    <2>2. ASSUME NEW d \in CRs PROVE SlugCopies(Home, d)' /\ SlugWork(Home, d)'
      <3>1. ASSUME NEW c \in CRs, CRStep(c) PROVE SlugCopies(Home, d)' /\ SlugWork(Home, d)'
        <4>1. CASE c = d
          BY <1>2, <3>1, <4>1, CopiesOfItsOwn, WorkOfItsOwn
        <4>2. CASE c # d
          BY <1>2, <3>1, <4>2, WritesOne, LeftAlone
        <4>3. QED BY <4>1, <4>2
      <3>2. CASE HumanStep
        <4>1. UNCHANGED <<api, cache, pending, pc, loc>>
          BY <3>2 DEF HumanStep, HumanCreates, HumanEdits, HumanDeletes
        <4>2. QED BY <1>2, <4>1, LeftAlone
      <3>3. CASE Crash
        <4>1. /\ api'[d] = api[d] /\ cache'[d] = api[d] /\ pending'[d] = <<>>
              /\ pc'[d] = "idle" /\ loc'[d] = NoWork
          BY <3>3 DEF Crash
        <4>2. QED BY <1>2, <4>1, LeftAlone
      <3>4. QED BY <1>2, <3>1, <3>2, <3>3 DEF Next, CRStep
    <2>3. ASSUME NEW d \in CRs PROVE SlugSeed(Home, d)'
      BY <1>2, SeedOfItsOwn
    <2>4. QED BY <2>1, <2>2, <2>3 DEF Flows
  <1>3. QED BY <1>1, <1>2 DEF vars, KeepOff

LEMMA FlowsInvariant ==
  ASSUME SlugKeyed, NEW Home \in [Names -> CRs \cup {Human}]
  PROVE  Spec /\ []Reserved(Home) /\ [][KeepOff(Home)]_vars => []Flows(Home)
  <1>1. Init => Flows(Home)
    BY InitFlows
  <1>2. TypeOK /\ Flows(Home) /\ Reserved(Home)' /\ [KeepOff(Home)]_vars /\ [Next]_vars
          => Flows(Home)'
    BY NextFlows
  <1>3. QED BY <1>1, <1>2, TypeCorrect, PTL DEF Spec

\* A flow's recorded slug is never that of somebody else's live flow, however CRs and
\* people rename theirs, as long as no two CRs are ever given one slug and people take
\* none of a CR's (api/src/status.rs).  Without that a slug renamed away is anybody's.
THEOREM FlowRecordsItsOwn ==
  ASSUME SlugKeyed, NEW Home \in [Names -> CRs \cup {Human}]
  PROVE  Spec /\ []Reserved(Home) /\ [][KeepOff(Home)]_vars => []RecordedIsOwned
  <1>1. TypeOK /\ Flows(Home) => RecordedIsOwned
    <2>1. SUFFICES ASSUME TypeOK, Flows(Home), NEW c \in CRs, NEW u \in Uids,
                          u \in At(api[c].id)
                   PROVE  objs[u].owner = c
      BY DEF RecordedIsOwned
    <2>2. /\ u \in 1..made /\ objs[u].live /\ objs[u].name = api[c].id
          /\ objs[u].name \in Names
      BY <2>1 DEF At, IdOf, TypeOK, Object
    <2>3. api[c].id # NoId
      BY <2>2, NameAssumption
    <2>4. Slug(Home, c, api[c].id)
      BY <2>1 DEF Flows, SlugCopies, Copy
    <2>5. QED BY <2>2, <2>3, <2>4 DEF Slug, Theirs
  <1>2. QED BY <1>1, TypeCorrect, FlowsInvariant, PTL DEF Spec

LEMMA FlowTouchesOwn ==
  ASSUME TypeOK, SlugKeyed, NEW Home \in [Names -> CRs \cup {Human}], Flows(Home), Next,
         NEW u \in Uids, objs'[u] # objs[u], pc' # pc
  PROVE  \E c \in CRs : /\ pc'[c] # pc[c]
                        /\ objs'[u].owner = c
                        /\ u <= made => objs[u].owner = c
  <1>1. PICK c \in CRs : Patch(c) \/ Create(c) \/ Cleanup(c) \/ ReplyLost(c)
    BY DEF Next, UserStep, ImportStep, HumanStep, OperatorStep, FaultStep, UserCreates,
       UserEdits, UserDeletes, UserOrphans, ImportCreates, ImportSeeds, ImportReleases,
       HumanCreates, HumanEdits, HumanDeletes, Deliver, AddFinalizer, Fetch, Retrieve,
       Publish, RemoveFinalizer, CallFails, WriteBackFails, Crash
  <1>2. pc'[c] # pc[c]
    BY <1>1 DEF Patch, Create, Creating, Cleanup, ReplyLost, Reconcilable, Goto, TypeOK
  <1>3. Unique /\ SlugWork(Home, c) /\ SlugCopies(Home, c)
    BY DEF Flows
  <1>4. ASSUME NEW w \in Uids, Lands(Home, c, w), \A v \in Uids \ {w} : objs'[v] = objs[v]
        PROVE  objs'[u].owner = c /\ (u <= made => objs[u].owner = c)
    BY <1>4 DEF Lands, Uids, TypeOK
  <1>5. ASSUME pc[c] = "retrieved", NEW w \in At(loc[c].id), ~PatchRefused(c, w),
               objs' = [objs EXCEPT ![w] = Patched(c, w)], made' = made
        PROVE  objs'[u].owner = c /\ (u <= made => objs[u].owner = c)
    <2>1. Lands(Home, c, w)
      BY <1>3, <1>5, PatchLands
    <2>2. w \in Uids /\ \A v \in Uids \ {w} : objs'[v] = objs[v]
      BY <1>5, MadeUids DEF At, TypeOK
    <2>3. QED BY <1>4, <2>1, <2>2
  <1>6. ASSUME Creating(c), ~Taken(loc[c].name), made < MaxUid, made' = made + 1,
               objs' = [objs EXCEPT ![made + 1] = NewObject(c)]
        PROVE  objs'[u].owner = c /\ (u <= made => objs[u].owner = c)
    <2>1. Lands(Home, c, made + 1)
      BY <1>3, <1>6, CreateLands
    <2>2. made + 1 \in Uids /\ \A v \in Uids \ {made + 1} : objs'[v] = objs[v]
      BY <1>6, BoundsAssumption DEF Uids, TypeOK
    <2>3. QED BY <1>4, <2>1, <2>2
  <1>7. CASE Patch(c)
    BY <1>2, <1>5, <1>7 DEF Patch
  <1>8. CASE Create(c)
    BY <1>2, <1>6, <1>8 DEF Create
  <1>9. CASE Cleanup(c)
    <2>1. PICK id : /\ id \in {NoId, cache[c].id}
                    /\ objs' = [w \in Uids |-> IF w \in At(id)
                                  THEN [objs[w] EXCEPT !.live = FALSE] ELSE objs[w]]
      BY <1>9 DEF Cleanup
    <2>2. u \in At(id) /\ objs'[u] = [objs[u] EXCEPT !.live = FALSE]
      BY <2>1
    <2>3. u \in 1..made /\ objs[u].live /\ objs[u].name = id /\ id # NoId
      BY <2>2, NameAssumption DEF At, IdOf, TypeOK, Object
    <2>4. objs[u].owner = c
      BY <1>3, <2>1, <2>3 DEF SlugCopies, Copy, Slug, Theirs
    <2>5. objs'[u].owner = c
      BY <2>2, <2>4 DEF TypeOK, Object
    <2>6. QED BY <1>2, <2>4, <2>5
  <1>10. CASE ReplyLost(c)
    BY <1>2, <1>5, <1>6, <1>10 DEF ReplyLost
  <1>11. QED BY <1>1, <1>7, <1>8, <1>9, <1>10

\* On the same terms, no reconcile of a flow ever patches or deletes one of a person or
\* of another CR: not from a stale cache, after a crash or a lost answer.
THEOREM FlowTouchesOnlyOwn ==
  ASSUME SlugKeyed, NEW Home \in [Names -> CRs \cup {Human}]
  PROVE  Spec /\ []Reserved(Home) /\ [][KeepOff(Home)]_vars => OnlyOwnObjects
  <1>1. TypeOK /\ Flows(Home) /\ [Next]_vars =>
          [\A u \in Uids : objs'[u] # objs[u] /\ pc' # pc =>
             \E c \in CRs : /\ pc'[c] # pc[c]
                            /\ objs'[u].owner = c
                            /\ u <= made => objs[u].owner = c]_vars
    BY FlowTouchesOwn
  <1>2. QED BY <1>1, TypeCorrect, FlowsInvariant, PTL DEF Spec, OnlyOwnObjects
=============================================================================
