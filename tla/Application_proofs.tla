-------------------------- MODULE Application_proofs --------------------------
(***************************************************************************)
(* What the reconcile of applications promises for every number of slugs,  *)
(* generations, providers, undelivered versions, faults and interventions  *)
(* in Authentik: its types, that credentials precede their use, that what  *)
(* was made is never lost track of, what a cleanup leaves, and that no     *)
(* provider in use is replaced unasked.                                    *)
(***************************************************************************)
EXTENDS Application, SequenceTheorems, TLAPS

-----------------------------------------------------------------------------
(* What the operators return.                                              *)

LEMMA BlankTypes == Blank \in Version /\ NoWork \in Work /\ NoProvider \in Provider /\ NoApp \in App
  BY BoundsAssumption, NameAssumption
  DEF Blank, NoWork, NoProvider, NoApp, Version, Work, Provider, App, Kinds, Pks, NoPk

LEMMA PkIs == Pks \subseteq Nat \ {0} /\ NoPk \notin Pks /\ NoPk \in Nat
  BY BoundsAssumption DEF Pks, NoPk

\* A version with another phase; with another spec.
LEMMA VersionTypes ==
  ASSUME NEW v \in Version
  PROVE  /\ \A x \in {"live", "deleting", "gone"} : [v EXCEPT !.phase = x] \in Version
         /\ [v EXCEPT !.fin = TRUE] \in Version
         /\ [v EXCEPT !.fin = FALSE, !.phase = "gone"] \in Version
         /\ \A g \in 0..MaxGen, s \in Slugs, k \in Kinds, allow \in BOOLEAN :
               /\ [v EXCEPT !.gen = g, !.slug = s, !.kind = k, !.allow = allow] \in Version
               /\ [v EXCEPT !.phase = "live", !.gen = g, !.slug = s, !.kind = k] \in Version
  <1>1. \A x \in {"live", "deleting", "gone"} : [v EXCEPT !.phase = x] \in Version
    BY DEF Version
  <1>2. /\ [v EXCEPT !.fin = TRUE] \in Version
        /\ [v EXCEPT !.fin = FALSE, !.phase = "gone"] \in Version
    BY DEF Version
  <1>3. ASSUME NEW g \in 0..MaxGen, NEW s \in Slugs, NEW k \in Kinds, NEW allow \in BOOLEAN
        PROVE  [v EXCEPT !.gen = g, !.slug = s, !.kind = k, !.allow = allow] \in Version
    BY DEF Version
  <1>4. ASSUME NEW g \in 0..MaxGen, NEW s \in Slugs, NEW k \in Kinds
        PROVE  [v EXCEPT !.phase = "live", !.gen = g, !.slug = s, !.kind = k] \in Version
    BY DEF Version
  <1>5. QED BY <1>1, <1>2, <1>3, <1>4

LEMMA WriteType ==
  ASSUME TypeOK, NEW c \in CRs, NEW v \in Version, Write(c, v)
  PROVE  api' \in [CRs -> Version] /\ pending' \in [CRs -> Seq(Version)]
  <1>1. Append(pending[c], v) \in Seq(Version)
    BY DEF TypeOK
  <1>2. QED BY <1>1 DEF TypeOK, Write

LEMMA GotoType ==
  ASSUME TypeOK, NEW c \in CRs, NEW step \in Steps, NEW w \in Work, Goto(c, step, w)
  PROVE  pc' \in [CRs -> Steps] /\ loc' \in [CRs -> Work]
  BY DEF TypeOK, Goto

LEMMA DeletesType ==
  ASSUME TypeOK, NEW p, DeletesProvider(p)
  PROVE  provs' \in [Pks -> Provider] /\ apps' \in [Slugs -> App] /\ made' \in 0..MaxProv
  <1> USE DEF TypeOK, DeletesProvider
  <1>1. \A q \in Pks : [provs[q] EXCEPT !.live = FALSE] \in Provider
    BY DEF Provider
  <1>2. [provs EXCEPT ![p].live = FALSE] \in [Pks -> Provider]
    BY <1>1
  <1>3. \A s \in Slugs : [apps[s] EXCEPT !.prov = NoPk] \in App
    BY DEF App
  <1>4. WithoutProvider(p) \in [Slugs -> App]
    BY <1>3 DEF WithoutProvider
  <1>5. QED BY <1>2, <1>4

LEMMA CreatesType ==
  ASSUME TypeOK, NEW c \in CRs, CreatesProvider(c)
  PROVE  /\ provs' \in [Pks -> Provider] /\ apps' \in [Slugs -> App] /\ made' \in 0..MaxProv
         /\ made + 1 \in Pks
  <1> DEFINE v == [owner |-> c, name |-> c, kind |-> loc[c].kind, attached |-> FALSE, live |-> TRUE]
  <1>1. v \in Provider
    BY DEF TypeOK, Provider, Work
  <1>2. made + 1 \in Pks
    BY BoundsAssumption DEF TypeOK, CreatesProvider, Pks
  <1>3. provs' = [provs EXCEPT ![made + 1] = v] /\ made' = made + 1 /\ apps' = apps
    BY DEF CreatesProvider
  <1> HIDE DEF v
  <1>4. QED BY <1>1, <1>2, <1>3, BoundsAssumption DEF TypeOK, Pks

LEMMA WritesAppType ==
  ASSUME TypeOK, NEW c \in CRs, WritesApp(c)
  PROVE  provs' \in [Pks -> Provider] /\ apps' \in [Slugs -> App] /\ made' \in 0..MaxProv
  <1>1. loc[c] \in Work
    BY DEF TypeOK
  <1>2. [owner |-> IF loc[c].app = NoId THEN c ELSE apps[loc[c].app].owner,
         prov |-> loc[c].wprov, live |-> TRUE] \in App
    BY <1>1 DEF TypeOK, App, Work
  <1>3. QED BY <1>2, BlankTypes DEF TypeOK, WritesApp

-----------------------------------------------------------------------------
(* Types.                                                                  *)

LEMMA InitTypes == Init => TypeOK
  BY BlankTypes, BoundsAssumption, EmptySeq, PkIs DEF Init, TypeOK, Steps

LEMMA PeopleType ==
  ASSUME TypeOK, HumanStep \/ \E c \in CRs : UserStep(c)
  PROVE  TypeOK'
  <1> USE DEF TypeOK
  <1>1. ASSUME NEW c \in CRs, NEW s \in Slugs, NEW k \in Kinds, UserCreates(c, s, k)
        PROVE  TypeOK'
    <2>1. [Blank EXCEPT !.phase = "live", !.gen = 1, !.slug = s, !.kind = k] \in Version
      <3>1. 1 \in 0..MaxGen
        BY BoundsAssumption
      <3>2. QED BY <3>1, BlankTypes, VersionTypes
    <2>2. api' \in [CRs -> Version] /\ pending' \in [CRs -> Seq(Version)]
      BY <1>1, <2>1, WriteType DEF UserCreates
    <2>3. QED BY <1>1, <2>2 DEF UserCreates, authentik
  <1>2. ASSUME NEW c \in CRs, NEW s \in Slugs, NEW k \in Kinds, NEW allow \in BOOLEAN,
               UserEdits(c, s, k, allow)
        PROVE  TypeOK'
    <2>1. api[c] \in Version /\ api[c].gen < MaxGen
      BY <1>2 DEF UserEdits
    <2>2. [api[c] EXCEPT !.gen = @ + 1, !.slug = s, !.kind = k, !.allow = allow] \in Version
      <3>1. api[c].gen + 1 \in 0..MaxGen
        BY <2>1, BoundsAssumption DEF Version
      <3>2. QED BY <2>1, <3>1, VersionTypes
    <2>3. api' \in [CRs -> Version] /\ pending' \in [CRs -> Seq(Version)]
      BY <1>2, <2>2, WriteType DEF UserEdits
    <2>4. QED BY <1>2, <2>3 DEF UserEdits, authentik
  <1>3. ASSUME NEW c \in CRs, UserDeletes(c)
        PROVE  TypeOK'
    <2>1. [api[c] EXCEPT !.phase = IF api[c].fin THEN "deleting" ELSE "gone"] \in Version
      BY VersionTypes
    <2>2. api' \in [CRs -> Version] /\ pending' \in [CRs -> Seq(Version)]
      BY <1>3, <2>1, WriteType DEF UserDeletes
    <2>3. QED BY <1>3, <2>2 DEF UserDeletes, authentik
  <1>4. ASSUME NEW p \in 1..made, HumanDeletesProvider(p)
        PROVE  TypeOK'
    <2>1. p \in Pks
      BY BoundsAssumption DEF Pks
    <2>2. DeletesProvider(p)
      BY <1>4, <2>1 DEF HumanDeletesProvider, DeletesProvider
    <2>3. human' \in 0..MaxHuman
      BY <1>4, BoundsAssumption DEF HumanDeletesProvider
    <2>4. QED BY <1>4, <2>2, <2>3, DeletesType DEF HumanDeletesProvider
  <1>5. ASSUME NEW s \in Slugs, HumanDeletesApp(s)
        PROVE  TypeOK'
    <2>1. human' \in 0..MaxHuman
      BY <1>5, BoundsAssumption DEF HumanDeletesApp
    <2>2. QED BY <1>5, <2>1, BlankTypes DEF HumanDeletesApp
  <1>6. ASSUME NEW s \in Slugs, NEW k \in Kinds, HumanPoints(s, k)
        PROVE  TypeOK'
    <2>1. human' \in 0..MaxHuman /\ made' \in 0..MaxProv /\ made + 1 \in Pks
      BY <1>6, BoundsAssumption DEF HumanPoints, Pks
    <2>2. [NoProvider EXCEPT !.kind = k, !.live = TRUE] \in Provider
      BY BlankTypes DEF Provider
    <2>3. \A a \in App : [a EXCEPT !.prov = made + 1, !.live = TRUE] \in App
      BY <2>1 DEF App
    <2>4. provs' \in [Pks -> Provider]
      BY <1>6, <2>1, <2>2 DEF HumanPoints
    <2>5. apps' \in [Slugs -> App]
      BY <1>6, <2>3 DEF HumanPoints
    <2>6. QED BY <1>6, <2>1, <2>4, <2>5 DEF HumanPoints
  <1>7. QED BY <1>1, <1>2, <1>3, <1>4, <1>5, <1>6 DEF HumanStep, UserStep

\* Scheduling and the finalizer.
LEMMA StartType ==
  ASSUME TypeOK, NEW c \in CRs, Deliver(c) \/ StartStep(c) \/ RemoveFinalizer(c)
  PROVE  TypeOK'
  <1> USE DEF TypeOK
  <1>1. CASE Deliver(c)
    <2>1. pending[c] \in Seq(Version) /\ pending[c] # <<>>
      BY <1>1 DEF Deliver
    <2>2. Head(pending[c]) \in Version /\ Tail(pending[c]) \in Seq(Version)
      BY <2>1
    <2>3. QED BY <1>1, <2>2 DEF Deliver, authentik
  <1>2. CASE AddFinalizer(c)
    <2>1. [api[c] EXCEPT !.fin = TRUE] \in Version
      BY VersionTypes
    <2>2. api' \in [CRs -> Version] /\ pending' \in [CRs -> Seq(Version)]
      BY <1>2, <2>1, WriteType DEF AddFinalizer
    <2>3. QED BY <1>2, <2>2 DEF AddFinalizer, authentik
  <1>3. CASE Fetch(c)
    <2>1. api[c] \in Version
      OBVIOUS
    <2>2. [NoWork EXCEPT !.gen = api[c].gen, !.slug = api[c].slug, !.kind = api[c].kind,
                         !.allow = api[c].allow, !.id = api[c].id, !.prov = api[c].prov] \in Work
      BY <2>1, BlankTypes DEF Work, Version
    <2>3. pc' \in [CRs -> Steps] /\ loc' \in [CRs -> Work]
      BY <1>3, <2>2, GotoType DEF Fetch, Steps, Applying
    <2>4. QED BY <1>3, <2>3 DEF Fetch, authentik
  <1>4. CASE Cleanup(c)
    <2>1. cache[c] \in Version
      OBVIOUS
    <2>2. [NoWork EXCEPT !.slug = cache[c].slug, !.kind = cache[c].kind,
                         !.id = cache[c].id, !.prov = cache[c].prov] \in Work
      BY <2>1, BlankTypes DEF Work, Version
    <2>3. PICK step \in Steps : Goto(c, step,
             [NoWork EXCEPT !.slug = cache[c].slug, !.kind = cache[c].kind,
                            !.id = cache[c].id, !.prov = cache[c].prov])
      BY <1>4 DEF Cleanup, Steps, Cleaning
    <2>4. pc' \in [CRs -> Steps] /\ loc' \in [CRs -> Work]
      BY <2>2, <2>3, GotoType
    <2>5. QED BY <1>4, <2>4 DEF Cleanup, authentik
  <1>5. CASE RemoveFinalizer(c)
    <2>1. [api[c] EXCEPT !.fin = FALSE, !.phase = "gone"] \in Version
      BY VersionTypes
    <2>2. api' \in [CRs -> Version] /\ pending' \in [CRs -> Seq(Version)]
      BY <1>5, <2>1, WriteType DEF RemoveFinalizer
    <2>3. pc' \in [CRs -> Steps] /\ loc' \in [CRs -> Work]
      BY <1>5, GotoType, BlankTypes DEF RemoveFinalizer, Steps
    <2>4. QED BY <1>5, <2>2, <2>3 DEF RemoveFinalizer, authentik
  <1>6. QED BY <1>1, <1>2, <1>3, <1>4, <1>5 DEF StartStep

\* What a reconcile carries on, with what it learnt.
LEMMA WorkTypes ==
  ASSUME NEW w \in Work
  PROVE  /\ \A p \in Pks \cup {NoPk} : /\ [w EXCEPT !.target = p] \in Work
                                       /\ [w EXCEPT !.target = p, !.wprov = p] \in Work
         /\ \A p \in Pks \cup {NoPk}, s \in Slugs \cup {NoId} :
               [w EXCEPT !.app = s, !.target = p] \in Work
         /\ \A s \in Slugs : [w EXCEPT !.wapp = s] \in Work
  BY DEF Work

LEMMA AfterProviderType ==
  ASSUME TypeOK, NEW c \in CRs, NEW p \in Pks, AfterProvider(c, p)
  PROVE  pc' \in [CRs -> Steps] /\ loc' \in [CRs -> Work]
  <1>1. [loc[c] EXCEPT !.target = p, !.wprov = p] \in Work
    BY WorkTypes DEF TypeOK
  <1>2. PICK step \in Steps : Goto(c, step, [loc[c] EXCEPT !.target = p, !.wprov = p])
    BY DEF AfterProvider, Steps, Applying
  <1>3. QED BY <1>1, <1>2, GotoType

LEMMA ApplyType ==
  ASSUME TypeOK, NEW c \in CRs, ApplyStep(c)
  PROVE  TypeOK'
  <1> USE DEF TypeOK
  <1>0. loc[c] \in Work /\ loc[c].target \in Pks \cup {NoPk} /\ loc[c].wprov \in Pks \cup {NoPk}
    BY DEF Work
  <1>1. CASE GetApplication(c)
    <2>1. ExistingProvider(c) \in Pks \cup {NoPk}
      BY <1>0 DEF ExistingProvider, Found, Work, App
    <2>2. (IF Found(loc[c].id) THEN loc[c].id ELSE NoId) \in Slugs \cup {NoId}
      BY <1>0 DEF Work
    <2>3. AfterGet(c, Found(loc[c].id)) \in Steps
      BY DEF AfterGet, Steps, Applying
    <2>4. pc' \in [CRs -> Steps] /\ loc' \in [CRs -> Work]
      BY <1>0, <1>1, <2>1, <2>2, <2>3, WorkTypes, GotoType DEF GetApplication
    <2>5. QED BY <1>1, <2>4 DEF GetApplication, authentik
  <1>2. CASE ReplaceProvider(c) \/ DiscardProvider(c)
    <2>1. pc' \in [CRs -> Steps] /\ loc' \in [CRs -> Work]
      BY <1>0, <1>2, WorkTypes, GotoType DEF ReplaceProvider, DiscardProvider, Steps, Applying
    <2>2. QED BY <1>2, <2>1, DeletesType DEF ReplaceProvider, DiscardProvider
  <1>3. CASE PatchProvider(c)
    <2>1. ASSUME NEW step \in {"discard", "failed"}, Goto(c, step, loc[c]), UNCHANGED authentik
          PROVE  TypeOK'
      <3>1. pc' \in [CRs -> Steps] /\ loc' \in [CRs -> Work]
        BY <1>0, <2>1, GotoType DEF Steps, Applying
      <3>2. QED BY <1>3, <2>1, <3>1 DEF PatchProvider, authentik
    <2>2. CASE PatchesProvider(c) /\ AfterProvider(c, loc[c].target)
      <3>1. loc[c].target \in Pks
        BY <1>0, <1>3 DEF PatchProvider
      <3>p. provs[loc[c].target] \in Provider /\ \A p \in Provider : [p EXCEPT !.name = c] \in Provider
        BY <3>1 DEF TypeOK, Provider
      <3>2. [provs[loc[c].target] EXCEPT !.name = c] \in Provider
        BY <3>p
      <3>3. provs' \in [Pks -> Provider] /\ made' = made /\ apps' = apps
        BY <2>2, <3>2 DEF PatchesProvider
      <3>4. pc' \in [CRs -> Steps] /\ loc' \in [CRs -> Work]
        BY <2>2, <3>1, AfterProviderType
      <3>5. QED BY <1>3, <3>3, <3>4 DEF PatchProvider
    <2>3. QED BY <1>3, <2>1, <2>2 DEF PatchProvider
  <1>4. CASE CreateProvider(c)
    <2>1. CASE Goto(c, "failed", loc[c]) /\ UNCHANGED authentik
      <3>1. pc' \in [CRs -> Steps] /\ loc' \in [CRs -> Work]
        BY <1>0, <2>1, GotoType DEF Steps
      <3>2. QED BY <1>4, <2>1, <3>1 DEF CreateProvider, authentik
    <2>2. CASE CreatesProvider(c) /\ AfterProvider(c, made + 1)
      <3>1. /\ provs' \in [Pks -> Provider] /\ apps' \in [Slugs -> App] /\ made' \in 0..MaxProv
            /\ made + 1 \in Pks
        BY <2>2, CreatesType
      <3>2. pc' \in [CRs -> Steps] /\ loc' \in [CRs -> Work]
        BY <2>2, <3>1, AfterProviderType
      <3>3. QED BY <1>4, <3>1, <3>2 DEF CreateProvider
    <2>3. QED BY <1>4, <2>1, <2>2 DEF CreateProvider
  <1>5. CASE WriteCredentials(c)
    <2>1. pc' \in [CRs -> Steps] /\ loc' \in [CRs -> Work]
      BY <1>0, <1>5, GotoType DEF WriteCredentials, Steps, Applying
    <2>2. QED BY <1>0, <1>5, <2>1 DEF WriteCredentials, authentik
  <1>6. CASE UpsertApplication(c)
    <2>1. CASE Goto(c, "failed", loc[c]) /\ UNCHANGED authentik
      <3>1. pc' \in [CRs -> Steps] /\ loc' \in [CRs -> Work]
        BY <1>0, <2>1, GotoType DEF Steps
      <3>2. QED BY <1>6, <2>1, <3>1 DEF UpsertApplication, authentik
    <2>2. ASSUME WritesApp(c), NEW step \in {"attach", "synced"},
                 Goto(c, step, [loc[c] EXCEPT !.wapp = loc[c].slug])
          PROVE  TypeOK'
      <3>1. [loc[c] EXCEPT !.wapp = loc[c].slug] \in Work
        BY <1>0, WorkTypes DEF Work
      <3>2. pc' \in [CRs -> Steps] /\ loc' \in [CRs -> Work]
        BY <2>2, <3>1, GotoType DEF Steps, Applying
      <3>3. provs' \in [Pks -> Provider] /\ apps' \in [Slugs -> App] /\ made' \in 0..MaxProv
        BY <2>2, WritesAppType
      <3>4. QED BY <1>6, <3>2, <3>3 DEF UpsertApplication
    <2>3. QED BY <1>6, <2>1, <2>2 DEF UpsertApplication
  <1>7. CASE AttachOutpost(c)
    <2>1. PICK step \in {"synced", "failed"} : Goto(c, step, loc[c])
      BY <1>7 DEF AttachOutpost
    <2>2. pc' \in [CRs -> Steps] /\ loc' \in [CRs -> Work]
      BY <1>0, <2>1, GotoType DEF Steps
    <2>3. \A v \in Provider : [v EXCEPT !.attached = TRUE] \in Provider
      BY DEF Provider
    <2>4. provs' \in [Pks -> Provider]
      <3>1. [provs EXCEPT ![loc[c].wprov].attached = TRUE] \in [Pks -> Provider]
        BY <2>3
      <3>2. QED BY <1>7, <3>1 DEF AttachOutpost
    <2>5. QED BY <1>7, <2>2, <2>4 DEF AttachOutpost
  <1>8. CASE Publish(c)
    <2>1. pc[c] \in {"synced", "failed"} /\ api[c] \in Version
      BY <1>8 DEF Publish
    <2>2. Recorded(c) \in Version
      BY <1>0, <2>1 DEF Recorded, Version, Work
    <2>3. api' \in [CRs -> Version] /\ pending' \in [CRs -> Seq(Version)]
      BY <1>8, <2>2, WriteType DEF Publish
    <2>4. pc' \in [CRs -> Steps] /\ loc' \in [CRs -> Work]
      BY <1>8, GotoType, BlankTypes DEF Publish, Steps
    <2>5. QED BY <1>8, <2>3, <2>4 DEF Publish, authentik
  <1>9. QED BY <1>1, <1>2, <1>3, <1>4, <1>5, <1>6, <1>7, <1>8 DEF ApplyStep

LEMMA CleanupType ==
  ASSUME TypeOK, NEW c \in CRs, CleanupStep(c)
  PROVE  TypeOK'
  <1> USE DEF TypeOK
  <1>0. loc[c] \in Work
    OBVIOUS
  <1>1. CASE CleanupReads(c)
    <2>1. /\ (IF Found(loc[c].id) THEN loc[c].id ELSE NoId) \in Slugs \cup {NoId}
          /\ (IF Found(loc[c].id) THEN apps[loc[c].id].prov ELSE NoPk) \in Pks \cup {NoPk}
      BY <1>0 DEF Found, Work, App
    <2>2. pc' \in [CRs -> Steps] /\ loc' \in [CRs -> Work]
      BY <1>0, <1>1, <2>1, WorkTypes, GotoType DEF CleanupReads, Steps, Cleaning
    <2>3. QED BY <1>1, <2>2 DEF CleanupReads, authentik
  <1>2. CASE CleanupProvider(c) \/ CleanupRecord(c)
    <2>1. pc' \in [CRs -> Steps] /\ loc' \in [CRs -> Work]
      BY <1>0, <1>2, GotoType DEF CleanupProvider, CleanupRecord, Steps, Cleaning
    <2>2. QED BY <1>2, <2>1, DeletesType DEF CleanupProvider, CleanupRecord
  <1>3. CASE CleanupApplication(c)
    <2>1. pc' \in [CRs -> Steps] /\ loc' \in [CRs -> Work]
      BY <1>0, <1>3, GotoType DEF CleanupApplication, Steps, Cleaning
    <2>2. QED BY <1>3, <2>1, BlankTypes DEF CleanupApplication
  <1>4. CASE CleanupCredentials(c)
    <2>1. pc' \in [CRs -> Steps] /\ loc' \in [CRs -> Work]
      BY <1>0, <1>4, GotoType DEF CleanupCredentials, Steps
    <2>2. QED BY <1>4, <2>1 DEF CleanupCredentials, authentik
  <1>5. QED BY <1>1, <1>2, <1>3, <1>4, StartType DEF CleanupStep

LEMMA FaultType ==
  ASSUME TypeOK, Crash \/ \E c \in CRs : FaultStep(c)
  PROVE  TypeOK'
  <1> USE DEF TypeOK
  <1>1. ASSUME Fault PROVE faults' \in 0..MaxFaults
    BY <1>1, BoundsAssumption DEF Fault
  <1>2. CASE Crash
    BY <1>1, <1>2, BlankTypes, EmptySeq DEF Crash, Steps, authentik
  <1>3. ASSUME NEW c \in CRs, NEW step \in Steps, NEW w \in {loc[c], NoWork}, Goto(c, step, w)
        PROVE  pc' \in [CRs -> Steps] /\ loc' \in [CRs -> Work]
    BY <1>3, GotoType, BlankTypes
  <1>4. ASSUME NEW c \in CRs, CallFails(c) \/ WriteBackFails(c)
        PROVE  TypeOK'
    <2>1. PICK step \in Steps, w \in {loc[c], NoWork} : Goto(c, step, w)
      BY <1>4 DEF CallFails, WriteBackFails, Steps
    <2>2. QED BY <1>1, <1>3, <1>4, <2>1 DEF CallFails, WriteBackFails, authentik
  <1>5. ASSUME NEW c \in CRs, ReplyLost(c)
        PROVE  TypeOK'
    <2>1. provs' \in [Pks -> Provider] /\ apps' \in [Slugs -> App] /\ made' \in 0..MaxProv
      BY <1>5, CreatesType, WritesAppType DEF ReplyLost
    <2>2. pc' \in [CRs -> Steps] /\ loc' \in [CRs -> Work]
      BY <1>3, <1>5 DEF ReplyLost, Steps
    <2>3. QED BY <1>1, <1>5, <2>1, <2>2 DEF ReplyLost
  <1>6. QED BY <1>2, <1>4, <1>5 DEF FaultStep

LEMMA NextTypes == TypeOK /\ [Next]_vars => TypeOK'
  <1>1. SUFFICES ASSUME TypeOK, [Next]_vars PROVE TypeOK'
    OBVIOUS
  <1>2. CASE UNCHANGED vars
    BY <1>1, <1>2 DEF TypeOK, vars
  <1>3. CASE Next
    BY <1>1, <1>3, PeopleType, StartType, ApplyType, CleanupType, FaultType DEF Next
  <1>4. QED BY <1>1, <1>2, <1>3

\* Every variable keeps to its values, whatever people, calls and crashes do.
THEOREM TypeCorrect == Spec => []TypeOK
  BY InitTypes, NextTypes, PTL DEF Spec
-----------------------------------------------------------------------------
(* What a step does.                                                       *)

CRStep(c) ==
    \/ UserStep(c) \/ Deliver(c) \/ StartStep(c)
    \/ ApplyStep(c) \/ CleanupStep(c) \/ FaultStep(c)

\* To Authentik, in the name of a CR: to its providers, or to an application.
Lesser(c) ==
    \/ UNCHANGED authentik
    \/ \E p \in Pks \cup {NoPk} : DeletesProvider(p)
    \/ loc[c].target # NoPk /\ Live(loc[c].target) /\ PatchesProvider(c)
    \/ CreatesProvider(c)
    \/ /\ Live(loc[c].wprov) /\ provs' = [provs EXCEPT ![loc[c].wprov].attached = TRUE]
       /\ UNCHANGED <<made, apps>>
    \/ \E s \in Slugs : apps' = [apps EXCEPT ![s] = NoApp] /\ UNCHANGED <<made, provs>>
Points(c) ==
    /\ pc[c] = "application" /\ ~AppRefused(c) /\ (loc[c].app = NoId \/ Found(loc[c].app))
    /\ WritesApp(c)
Effect(c) == Lesser(c) \/ Points(c)

\* By the people there.
HumanEffect ==
    \/ \E p \in Pks : DeletesProvider(p)
    \/ \E s \in Slugs : apps' = [apps EXCEPT ![s] = NoApp] /\ UNCHANGED <<made, provs>>
    \/ \E s \in Slugs, k \in Kinds : HumanPoints(s, k)

LEMMA EffectIs ==
  ASSUME TypeOK, NEW c \in CRs, CRStep(c)
  PROVE  Effect(c)
  <1>0. loc[c] \in Work
    BY DEF TypeOK
  <1>1. CASE UserStep(c) \/ Deliver(c) \/ StartStep(c)
    BY <1>1 DEF UserStep, UserCreates, UserEdits, UserDeletes, Deliver, StartStep, AddFinalizer,
                Fetch, Cleanup, Effect, Lesser, Points
  <1>2. CASE \/ GetApplication(c) \/ WriteCredentials(c) \/ Publish(c) \/ CleanupReads(c)
             \/ CleanupCredentials(c) \/ RemoveFinalizer(c) \/ CallFails(c) \/ WriteBackFails(c)
    BY <1>2 DEF GetApplication, WriteCredentials, Publish, CleanupReads, CleanupCredentials,
                RemoveFinalizer, CallFails, WriteBackFails, Effect, Lesser, Points
  <1>3. CASE \/ ReplaceProvider(c) \/ DiscardProvider(c) \/ CleanupProvider(c)
             \/ CleanupRecord(c)
    BY <1>0, <1>3
    DEF ReplaceProvider, DiscardProvider, CleanupProvider, CleanupRecord, Effect, Lesser, Points, Work
  <1>4. CASE PatchProvider(c)
    BY <1>4 DEF PatchProvider, Effect, Lesser, Points
  <1>5. CASE CreateProvider(c)
    BY <1>5 DEF CreateProvider, Effect, Lesser, Points
  <1>6. CASE UpsertApplication(c)
    BY <1>6 DEF UpsertApplication, Effect, Lesser, Points
  <1>7. CASE AttachOutpost(c)
    BY <1>7 DEF AttachOutpost, Effect, Lesser, Points, authentik
  <1>8. CASE CleanupApplication(c)
    BY <1>0, <1>8 DEF CleanupApplication, Effect, Lesser, Points, authentik, Work
  <1>9. CASE ReplyLost(c)
    BY <1>9 DEF ReplyLost, Effect, Lesser, Points
  <1>10. QED
    BY <1>1, <1>2, <1>3, <1>4, <1>5, <1>6, <1>7, <1>8, <1>9
    DEF CRStep, ApplyStep, CleanupStep, FaultStep

LEMMA HumanEffectIs ==
  ASSUME TypeOK, HumanStep
  PROVE  /\ HumanEffect
         /\ UNCHANGED <<api, cache, pending, due, pc, loc, creds, faults>>
  <1>1. ASSUME NEW p \in 1..made, HumanDeletesProvider(p)
        PROVE  HumanEffect /\ UNCHANGED <<api, cache, pending, due, pc, loc, creds, faults>>
    <2>1. p \in Pks
      BY BoundsAssumption DEF Pks, TypeOK
    <2>2. QED BY <1>1, <2>1 DEF HumanDeletesProvider, HumanEffect, DeletesProvider
  <1>2. ASSUME NEW s \in Slugs, HumanDeletesApp(s)
        PROVE  HumanEffect /\ UNCHANGED <<api, cache, pending, due, pc, loc, creds, faults>>
    BY <1>2 DEF HumanDeletesApp, HumanEffect
  <1>3. ASSUME NEW s \in Slugs, NEW k \in Kinds, HumanPoints(s, k)
        PROVE  HumanEffect /\ UNCHANGED <<api, cache, pending, due, pc, loc, creds, faults>>
    BY <1>3 DEF HumanPoints, HumanEffect
  <1>4. QED BY <1>1, <1>2, <1>3 DEF HumanStep

\* The step of a CR leaves what is the other CRs' own as it was.
LEMMA OneMoves ==
  ASSUME TypeOK, NEW c \in CRs, CRStep(c)
  PROVE  /\ faults' <= faults
         /\ \A d \in CRs \ {c} :
               /\ api'[d] = api[d] /\ cache'[d] = cache[d] /\ pending'[d] = pending[d]
               /\ pc'[d] = pc[d] /\ loc'[d] = loc[d] /\ creds'[d] = creds[d]
  <1> USE DEF TypeOK
  <1>0. faults \in Nat
    BY BoundsAssumption
  <1>1. CASE UserStep(c)
    <2>1. PICK v : Write(c, v)
      BY <1>1 DEF UserStep, UserCreates, UserEdits, UserDeletes
    <2>2. UNCHANGED <<cache, pc, loc, creds, faults>>
      BY <1>1 DEF UserStep, UserCreates, UserEdits, UserDeletes
    <2>3. QED BY <1>0, <2>1, <2>2 DEF Write
  <1>2. CASE Deliver(c) \/ StartStep(c)
    BY <1>0, <1>2 DEF Deliver, StartStep, AddFinalizer, Fetch, Cleanup, Goto, Write
  <1>3. CASE GetApplication(c) \/ ReplaceProvider(c) \/ DiscardProvider(c)
    BY <1>0, <1>3 DEF GetApplication, ReplaceProvider, DiscardProvider, Goto
  <1>4. CASE PatchProvider(c) \/ CreateProvider(c)
    BY <1>0, <1>4 DEF PatchProvider, CreateProvider, AfterProvider, Goto
  <1>5. CASE WriteCredentials(c) \/ UpsertApplication(c) \/ AttachOutpost(c)
    BY <1>0, <1>5 DEF WriteCredentials, UpsertApplication, AttachOutpost, Goto
  <1>6. CASE Publish(c) \/ RemoveFinalizer(c)
    BY <1>0, <1>6 DEF Publish, RemoveFinalizer, Goto, Write
  <1>7. CASE \/ CleanupReads(c) \/ CleanupProvider(c) \/ CleanupRecord(c)
             \/ CleanupApplication(c) \/ CleanupCredentials(c)
    BY <1>0, <1>7 DEF CleanupReads, CleanupProvider, CleanupRecord, CleanupApplication,
                      CleanupCredentials, Goto
  <1>8. CASE FaultStep(c)
    BY <1>0, <1>8 DEF FaultStep, CallFails, ReplyLost, WriteBackFails, Goto, Fault
  <1>9. QED
    BY <1>1, <1>2, <1>3, <1>4, <1>5, <1>6, <1>7, <1>8 DEF CRStep, ApplyStep, CleanupStep

-----------------------------------------------------------------------------
(* Authentik's objects.                                                    *)

\* Providers are numbered as they are made, and a dead application is forgotten.
Objects ==
    /\ \A p \in Pks : p > made => provs[p] = NoProvider
    /\ \A s \in Slugs : apps[s].prov <= made /\ (~apps[s].live => apps[s] = NoApp)

\* A provider keeps its kind and its maker, and does not come back.
Endures ==
    /\ made <= made'
    /\ \A p \in Pks : p <= made =>
          /\ provs'[p].kind = provs[p].kind /\ provs'[p].owner = provs[p].owner
          /\ provs'[p].live => provs[p].live

LEMMA LiveIsMade ==
  ASSUME TypeOK, Objects, NEW p \in Pks \cup {NoPk}, Live(p)
  PROVE  p \in Pks /\ p <= made
  BY PkIs DEF Live, Objects, NoProvider, TypeOK

LEMMA DeletesKeeps ==
  ASSUME TypeOK, Objects, NEW p \in Pks \cup {NoPk}, DeletesProvider(p)
  PROVE  /\ Objects' /\ Endures
         /\ made' = made
         /\ \A q \in Pks : /\ q # p => provs'[q] = provs[q]
                           /\ provs'[q].owner = provs[q].owner /\ provs'[q].name = provs[q].name
                           /\ provs'[q].live <=> provs[q].live /\ q # p
         /\ \A s \in Slugs : apps'[s] = [apps[s] EXCEPT !.prov =
                                            IF apps[s].prov = p THEN NoPk ELSE apps[s].prov]
  <1> USE DEF TypeOK
  <1>1. made' = made /\ made \in Nat
    BY BoundsAssumption DEF DeletesProvider
  <1>2. \A q \in Pks : provs[q] \in Provider
    OBVIOUS
  <1>3. \A q \in Pks : provs'[q] = IF q = p THEN [provs[q] EXCEPT !.live = FALSE] ELSE provs[q]
    BY PkIs DEF DeletesProvider
  <1>4. \A q \in Pks : /\ q # p => provs'[q] = provs[q]
                       /\ provs'[q].owner = provs[q].owner /\ provs'[q].name = provs[q].name
                       /\ provs'[q].kind = provs[q].kind
                       /\ provs'[q].live <=> provs[q].live /\ q # p
    BY <1>2, <1>3 DEF Provider
  <1>5. \A s \in Slugs : apps[s] \in App
    OBVIOUS
  <1>6. \A s \in Slugs : apps'[s] = [apps[s] EXCEPT !.prov =
                                        IF apps[s].prov = p THEN NoPk ELSE apps[s].prov]
    <2>1. \A a \in App : [a EXCEPT !.prov = a.prov] = a
      BY DEF App
    <2>2. CASE p \in Pks
      BY <1>5, <2>1, <2>2 DEF DeletesProvider, WithoutProvider
    <2>3. CASE p = NoPk
      <3>1. apps' = apps
        BY <2>3, PkIs DEF DeletesProvider
      <3>2. QED BY <1>5, <2>1, <2>3, <3>1
    <2>4. QED BY <2>2, <2>3
  <1>7. Endures
    BY <1>1, <1>4 DEF Endures
  <1>8. \A q \in Pks : q > made => provs'[q] = NoProvider
    <2>1. \A v \in Provider : ~v.live => [v EXCEPT !.live = FALSE] = v
      BY DEF Provider
    <2>2. [NoProvider EXCEPT !.live = FALSE] = NoProvider
      BY <2>1, BlankTypes DEF NoProvider
    <2>3. QED BY <1>3, <2>2 DEF Objects
  <1>9. \A s \in Slugs : apps'[s].prov <= made /\ (~apps'[s].live => apps'[s] = NoApp)
    <2>0. \A a \in App : a.prov = NoPk => [a EXCEPT !.prov = NoPk] = a
      BY DEF App
    <2>1. [NoApp EXCEPT !.prov = NoPk] = NoApp /\ NoApp.prov = NoPk
      BY <2>0, BlankTypes DEF NoApp
    <2>2. \A s \in Slugs : apps'[s].live = apps[s].live /\ apps'[s].prov \in {apps[s].prov, NoPk}
      BY <1>5, <1>6 DEF App
    <2>3. NoPk <= made
      BY <1>1 DEF NoPk
    <2>4. ASSUME NEW s \in Slugs, ~apps'[s].live PROVE apps'[s] = NoApp
      <3>1. apps[s] = NoApp
        BY <2>2, <2>4 DEF Objects
      <3>2. QED BY <1>6, <2>1, <3>1
    <2>5. QED BY <2>2, <2>3, <2>4 DEF Objects
  <1>10. QED BY <1>1, <1>4, <1>6, <1>7, <1>8, <1>9 DEF Objects

LEMMA DeletedIs ==
  ASSUME TypeOK, Objects, NEW p \in Pks \cup {NoPk}, DeletesProvider(p)
  PROVE  \A s \in Slugs : /\ apps'[s].live = apps[s].live /\ apps'[s].owner = apps[s].owner
                          /\ apps'[s].prov = IF apps[s].prov = p THEN NoPk ELSE apps[s].prov
  <1>1. \A s \in Slugs : apps'[s] = [apps[s] EXCEPT !.prov =
                                        IF apps[s].prov = p THEN NoPk ELSE apps[s].prov]
    BY DeletesKeeps
  <1>2. \A a \in App : \A x : /\ [a EXCEPT !.prov = x].live = a.live
                             /\ [a EXCEPT !.prov = x].owner = a.owner
                             /\ [a EXCEPT !.prov = x].prov = x
    BY DEF App
  <1>3. ASSUME NEW s \in Slugs
        PROVE  /\ apps'[s].live = apps[s].live /\ apps'[s].owner = apps[s].owner
               /\ apps'[s].prov = IF apps[s].prov = p THEN NoPk ELSE apps[s].prov
    <2>1. PICK x : x = IF apps[s].prov = p THEN NoPk ELSE apps[s].prov
      OBVIOUS
    <2>2. apps'[s] = [apps[s] EXCEPT !.prov = x] /\ apps[s] \in App
      BY <1>1, <2>1 DEF TypeOK
    <2>3. apps'[s].live = apps[s].live /\ apps'[s].owner = apps[s].owner /\ apps'[s].prov = x
      BY <1>2, <2>2
    <2>4. QED BY <2>1, <2>3
  <1>4. QED BY <1>3

LEMMA CreatesIs ==
  ASSUME TypeOK, Objects, NEW c \in CRs, CreatesProvider(c)
  PROVE  /\ made' = made + 1 /\ made + 1 \in Pks /\ apps' = apps
         /\ \A q \in Pks : q # made + 1 => provs'[q] = provs[q]
         /\ provs'[made + 1] = [owner |-> c, name |-> c, kind |-> loc[c].kind,
                                attached |-> FALSE, live |-> TRUE]
  BY CreatesType DEF TypeOK, CreatesProvider

LEMMA PatchesIs ==
  ASSUME TypeOK, NEW c \in CRs, PatchesProvider(c), loc[c].target # NoPk
  PROVE  /\ made' = made /\ apps' = apps /\ loc[c].target \in Pks
         /\ \A q \in Pks :
               /\ provs'[q].owner = provs[q].owner /\ provs'[q].kind = provs[q].kind
               /\ provs'[q].live = provs[q].live
               /\ provs'[q].name = IF q = loc[c].target THEN c ELSE provs[q].name
               /\ q # loc[c].target => provs'[q] = provs[q]
  <1>1. \A q \in Pks : provs[q] \in Provider
    BY DEF TypeOK
  <1>2. loc[c].target \in Pks
    BY DEF TypeOK, Work
  <1>3. \A q \in Pks : provs'[q] =
            IF q = loc[c].target THEN [provs[q] EXCEPT !.name = c] ELSE provs[q]
    BY <1>2 DEF TypeOK, PatchesProvider
  <1>4. QED BY <1>1, <1>2, <1>3 DEF PatchesProvider, Provider

LEMMA AttachIs ==
  ASSUME TypeOK, NEW p \in Pks \cup {NoPk}, Live(p),
         provs' = [provs EXCEPT ![p].attached = TRUE]
  PROVE  \A q \in Pks :
            /\ provs'[q].owner = provs[q].owner /\ provs'[q].kind = provs[q].kind
            /\ provs'[q].live = provs[q].live /\ provs'[q].name = provs[q].name
            /\ q # p => provs'[q] = provs[q]
  <1>1. \A q \in Pks : provs[q] \in Provider
    BY DEF TypeOK
  <1>2. \A q \in Pks : provs'[q] =
            IF q = p THEN [provs[q] EXCEPT !.attached = TRUE] ELSE provs[q]
    BY DEF TypeOK
  <1>3. QED BY <1>1, <1>2 DEF Provider

LEMMA PointsIs ==
  ASSUME TypeOK, Objects, NEW s \in Slugs, NEW k \in Kinds, HumanPoints(s, k)
  PROVE  /\ made' = made + 1 /\ made + 1 \in Pks
         /\ \A q \in Pks : q # made + 1 => provs'[q] = provs[q]
         /\ provs'[made + 1].owner = Human /\ provs'[made + 1].live
         /\ \A t \in Slugs \ {s} : apps'[t] = apps[t]
         /\ apps'[s].owner = apps[s].owner /\ apps'[s].prov = made + 1 /\ apps'[s].live
  <1>1. made' = made + 1 /\ made + 1 \in Pks
    BY BoundsAssumption DEF HumanPoints, TypeOK, Pks
  <1>2. \A q \in Pks : provs'[q] = IF q = made + 1 THEN [NoProvider EXCEPT !.kind = k, !.live = TRUE]
                                   ELSE provs[q]
    BY <1>1 DEF HumanPoints, TypeOK
  <1>3. \A t \in Slugs : apps'[t] = IF t = s THEN [apps[t] EXCEPT !.prov = made + 1, !.live = TRUE]
                                    ELSE apps[t]
    BY DEF HumanPoints, TypeOK
  <1>4. apps[s] \in App
    BY DEF TypeOK
  <1>5. /\ [NoProvider EXCEPT !.kind = k, !.live = TRUE].owner = Human
        /\ [NoProvider EXCEPT !.kind = k, !.live = TRUE].live
    BY DEF NoProvider
  <1>6. QED BY <1>1, <1>2, <1>3, <1>4, <1>5 DEF App

LEMMA WritesIs ==
  ASSUME TypeOK, Objects, NEW c \in CRs, WritesApp(c), ~AppRefused(c),
         loc[c].app = NoId \/ Found(loc[c].app)
  PROVE  /\ made' = made /\ provs' = provs
         /\ loc[c].wprov \in Pks /\ loc[c].wprov <= made
         /\ loc[c].slug \in Slugs /\ loc[c].app \in Slugs \cup {NoId}
         /\ apps'[loc[c].slug].live /\ apps'[loc[c].slug].prov = loc[c].wprov
         /\ apps'[loc[c].slug].owner = IF loc[c].app = NoId THEN c ELSE apps[loc[c].app].owner
         /\ loc[c].app # NoId /\ loc[c].app # loc[c].slug => apps'[loc[c].app] = NoApp
         /\ \A s \in Slugs \ {loc[c].slug, loc[c].app} : apps'[s] = apps[s]
  <1>1. loc[c] \in Work
    BY DEF TypeOK
  <1>2. loc[c].slug \in Slugs /\ loc[c].app \in Slugs \cup {NoId} /\ loc[c].wprov \in Pks \cup {NoPk}
    BY <1>1 DEF Work
  <1>3. loc[c].wprov \in Pks /\ loc[c].wprov <= made
    BY <1>2, LiveIsMade DEF AppRefused
  <1>4. QED BY <1>2, <1>3, NameAssumption DEF WritesApp

\* Whoever acts, the objects are in order, and providers endure.
LEMMA ObjectsStep ==
  ASSUME TypeOK, Objects, HumanEffect \/ \E c \in CRs : Effect(c)
  PROVE  Objects' /\ Endures
  <1> USE DEF Objects, Endures
  <1>0. /\ made \in Nat /\ NoApp.prov <= made
        /\ \A p \in Pks : p \in Nat
    BY BoundsAssumption, PkIs DEF TypeOK, NoApp, NoPk
  <1>1. CASE UNCHANGED authentik
    BY <1>0, <1>1 DEF authentik
  <1>2. ASSUME NEW p \in Pks \cup {NoPk}, DeletesProvider(p)
        PROVE  Objects' /\ Endures
    BY <1>2, DeletesKeeps
  <1>3. ASSUME NEW s \in Slugs, apps' = [apps EXCEPT ![s] = NoApp], UNCHANGED <<made, provs>>
        PROVE  Objects' /\ Endures
    BY <1>0, <1>3 DEF TypeOK
  <1>4. ASSUME NEW s \in Slugs, NEW k \in Kinds, HumanPoints(s, k)
        PROVE  Objects' /\ Endures
    <2>1. \A t \in Slugs : apps'[t].prov <= made + 1 /\ (~apps'[t].live => apps'[t] = NoApp)
      <3>1. \A t \in Slugs : apps[t].prov \in Nat
        BY PkIs DEF TypeOK, App
      <3>2. QED BY <1>0, <1>4, <3>1, PointsIs
    <2>2. QED BY <1>0, <1>4, <2>1, PointsIs
  <1>5. ASSUME NEW c \in CRs, loc[c].target # NoPk, Live(loc[c].target), PatchesProvider(c)
        PROVE  Objects' /\ Endures
    <2>1. loc[c].target \in Pks /\ loc[c].target <= made
      BY <1>5, PatchesIs, LiveIsMade
    <2>2. QED BY <1>0, <1>5, <2>1, PatchesIs
  <1>6. ASSUME NEW c \in CRs, CreatesProvider(c)
        PROVE  Objects' /\ Endures
    <2>1. \A t \in Slugs : apps[t].prov \in Nat
      BY PkIs DEF TypeOK, App
    <2>2. /\ made' = made + 1 /\ made + 1 \in Pks /\ apps' = apps
          /\ \A q \in Pks : q # made + 1 => provs'[q] = provs[q]
      BY <1>6, CreatesIs
    <2>3. \A q \in Pks : q > made + 1 => q # made + 1 /\ q > made
      BY <1>0
    <2>4. \A q \in Pks : q <= made => q # made + 1
      BY <1>0
    <2>5. Endures
      BY <1>0, <2>2, <2>4
    <2>6. \A t \in Slugs : apps[t].prov <= made + 1
      BY <1>0, <2>1
    <2>7. QED BY <2>2, <2>3, <2>5, <2>6
  <1>7. ASSUME NEW c \in CRs, ~AppRefused(c), loc[c].app = NoId \/ Found(loc[c].app), WritesApp(c)
        PROVE  Objects' /\ Endures
    <2>1. \A s \in Slugs : apps'[s].prov <= made /\ (~apps'[s].live => apps'[s] = NoApp)
      <3>1. /\ apps'[loc[c].slug].live /\ apps'[loc[c].slug].prov <= made
            /\ loc[c].app # NoId /\ loc[c].app # loc[c].slug => apps'[loc[c].app] = NoApp
            /\ \A s \in Slugs \ {loc[c].slug, loc[c].app} : apps'[s] = apps[s]
        BY <1>7, WritesIs
      <3>2. ASSUME NEW s \in Slugs
            PROVE  apps'[s].prov <= made /\ (~apps'[s].live => apps'[s] = NoApp)
        <4>1. CASE s = loc[c].slug
          BY <3>1, <4>1
        <4>2. CASE s = loc[c].app /\ s # loc[c].slug
          BY <1>0, <3>1, <4>2, NameAssumption
        <4>3. CASE s \notin {loc[c].slug, loc[c].app}
          BY <3>1, <4>3
        <4>4. QED BY <4>1, <4>2, <4>3
      <3>3. QED BY <3>2
    <2>2. made' = made /\ provs' = provs
      BY <1>7, WritesIs
    <2>3. QED BY <1>0, <2>1, <2>2
  <1>8. ASSUME NEW c \in CRs, Live(loc[c].wprov),
               provs' = [provs EXCEPT ![loc[c].wprov].attached = TRUE], UNCHANGED <<made, apps>>
        PROVE  Objects' /\ Endures
    <2>1. loc[c].wprov \in Pks \cup {NoPk}
      BY DEF TypeOK, Work
    <2>2. loc[c].wprov \in Pks /\ loc[c].wprov <= made
      BY <1>8, <2>1, LiveIsMade
    <2>3. QED BY <1>0, <1>8, <2>2, AttachIs
  <1>9. QED BY <1>1, <1>2, <1>3, <1>4, <1>5, <1>6, <1>7, <1>8
        DEF Effect, Lesser, Points, HumanEffect
-----------------------------------------------------------------------------
(* A CR, its copies and its reconcile.                                     *)

Applies == Applying \cup {"synced", "failed"}
Cleans  == Cleaning \cup {"cleaned"}

\* What a copy of the CR still to be read says.
Sent(c, v) ==
    /\ v.phase = "deleting" => api[c].phase \in {"deleting", "gone"}
    /\ v.fin => api[c].fin \/ api[c].phase = "gone"
    /\ v.prov <= made
Seen(c) == Sent(c, cache[c]) /\ \A i \in 1..Len(pending[c]) : Sent(c, pending[c][i])

Counted(c) ==
    /\ api[c].prov <= made
    /\ loc[c].prov <= made /\ loc[c].target <= made /\ loc[c].wprov <= made

\* What is carried along is what the step reached needs, and no more.
Working(c) ==
    /\ api[c].phase = "absent" => ~api[c].fin /\ api[c].id = NoId /\ api[c].prov = NoPk
    /\ pc[c] \in Applies => /\ Present(api[c]) /\ api[c].fin
                            /\ loc[c].id = api[c].id /\ loc[c].prov = api[c].prov
    /\ pc[c] \in Cleans => api[c].phase \in {"deleting", "gone"}
    /\ pc[c] \in {"idle", "fetched", "replace", "provider", "discard"} \cup Cleans
       => loc[c].wprov = NoPk
    /\ pc[c] \notin {"attach", "synced", "failed"} => loc[c].wapp = NoId
    /\ loc[c].wprov # NoPk => loc[c].wprov = loc[c].target
    /\ pc[c] \in {"credentials", "application", "attach"}
       => loc[c].wprov # NoPk /\ provs[loc[c].wprov].kind = loc[c].kind
    /\ loc[c].app \in {NoId, loc[c].id}

Local(c) == Seen(c) /\ Counted(c) /\ Working(c)

\* How a CR changes at its own step.
LEMMA ApiIs ==
  ASSUME TypeOK, NEW c \in CRs, CRStep(c)
  PROVE  \* not at all
         \/ /\ api'[c] = api[c]
            /\ \/ cache'[c] = cache[c] /\ pending'[c] = pending[c]
               \/ /\ pending[c] # <<>> /\ cache'[c] = Head(pending[c])
                  /\ pending'[c] = Tail(pending[c])
         \* by its user or the finalizer, between the steps of its reconcile
         \/ /\ pending'[c] = Append(pending[c], api'[c]) /\ cache'[c] = cache[c]
            /\ pc'[c] = pc[c] /\ loc'[c] = loc[c] /\ UNCHANGED <<authentik, creds, faults>>
            /\ \/ /\ api[c].phase = "absent" /\ api'[c].phase = "live" /\ ~api'[c].fin
                  /\ api'[c].id = NoId /\ api'[c].prov = NoPk
               \/ /\ api[c].phase = "live" /\ api'[c].phase = "live"
                  /\ api'[c].fin = api[c].fin
                  /\ api'[c].id = api[c].id /\ api'[c].prov = api[c].prov
               \/ /\ api[c].phase = "live" /\ api'[c].fin = api[c].fin
                  /\ api'[c].phase = IF api[c].fin THEN "deleting" ELSE "gone"
                  /\ api'[c].id = api[c].id /\ api'[c].prov = api[c].prov
               \/ /\ Present(api[c]) /\ api'[c].phase = api[c].phase /\ api'[c].fin
                  /\ api'[c].id = api[c].id /\ api'[c].prov = api[c].prov
         \* by its publication
         \/ /\ pending'[c] \in {pending[c], Append(pending[c], api'[c])} /\ cache'[c] = cache[c]
            /\ pc[c] \in {"synced", "failed"} /\ pc'[c] = "idle" /\ loc'[c] = NoWork
            /\ UNCHANGED <<authentik, creds, faults>>
            /\ Present(api[c]) /\ api'[c].phase = api[c].phase /\ api'[c].fin = api[c].fin
            /\ api'[c].id = IF loc[c].wapp # NoId THEN loc[c].wapp ELSE api[c].id
            /\ api'[c].prov = IF loc[c].wprov # NoPk THEN loc[c].wprov ELSE api[c].prov
         \* by its end
         \/ /\ pending'[c] \in {pending[c], Append(pending[c], api'[c])} /\ cache'[c] = cache[c]
            /\ pc[c] = "cleaned" /\ pc'[c] = "idle" /\ loc'[c] = NoWork
            /\ UNCHANGED <<authentik, creds, faults>>
            /\ api'[c].phase = "gone" /\ ~api'[c].fin
            /\ api'[c].id = api[c].id /\ api'[c].prov = api[c].prov
  <1> USE DEF TypeOK
  <1>0. api[c] \in Version
    OBVIOUS
  <1>w. ASSUME NEW v, Write(c, v)
        PROVE  api'[c] = v /\ pending'[c] = IF v = api[c] THEN pending[c] ELSE Append(pending[c], v)
    BY <1>w DEF Write
  <1>1. ASSUME NEW s \in Slugs, NEW k \in Kinds, UserCreates(c, s, k)
        PROVE  /\ pending'[c] = Append(pending[c], api'[c]) /\ cache'[c] = cache[c]
               /\ pc'[c] = pc[c] /\ loc'[c] = loc[c] /\ UNCHANGED <<authentik, creds, faults>>
               /\ api[c].phase = "absent" /\ api'[c].phase = "live" /\ ~api'[c].fin
               /\ api'[c].id = NoId /\ api'[c].prov = NoPk
    <2>1. Write(c, [Blank EXCEPT !.phase = "live", !.gen = 1, !.slug = s, !.kind = k])
      BY <1>1 DEF UserCreates
    <2>2. api'[c] = [Blank EXCEPT !.phase = "live", !.gen = 1, !.slug = s, !.kind = k]
      BY <1>w, <2>1
    <2>3. api'[c].phase = "live" /\ ~api'[c].fin /\ api'[c].id = NoId /\ api'[c].prov = NoPk
      BY <2>2 DEF Blank
    <2>4. api[c].phase = "absent"
      BY <1>1 DEF UserCreates
    <2>5. pending'[c] = Append(pending[c], api'[c])
      BY <1>w, <2>1, <2>2, <2>3, <2>4
    <2>6. QED BY <1>1, <2>3, <2>4, <2>5 DEF UserCreates
  <1>2. ASSUME NEW s \in Slugs, NEW k \in Kinds, NEW allow \in BOOLEAN, UserEdits(c, s, k, allow)
        PROVE  /\ pending'[c] = Append(pending[c], api'[c]) /\ cache'[c] = cache[c]
               /\ pc'[c] = pc[c] /\ loc'[c] = loc[c] /\ UNCHANGED <<authentik, creds, faults>>
               /\ api[c].phase = "live" /\ api'[c].phase = "live"
               /\ api'[c].fin = api[c].fin
               /\ api'[c].id = api[c].id /\ api'[c].prov = api[c].prov
    <2> DEFINE v == [api[c] EXCEPT !.gen = @ + 1, !.slug = s, !.kind = k, !.allow = allow]
    <2>1. Write(c, v)
      BY <1>2 DEF UserEdits
    <2>2. /\ v.phase = api[c].phase /\ v.fin = api[c].fin /\ v.id = api[c].id
          /\ v.prov = api[c].prov /\ v.gen = api[c].gen + 1
      BY <1>0 DEF Version
    <2> HIDE DEF v
    <2>3. v # api[c]
      <3>1. api[c].gen \in Nat
        BY <1>0, BoundsAssumption DEF Version
      <3>2. api[c].gen + 1 # api[c].gen
        BY <3>1
      <3>3. QED BY <2>2, <3>2
    <2>4. api'[c] = v /\ pending'[c] = Append(pending[c], api'[c])
      BY <1>w, <2>1, <2>3
    <2>5. QED BY <1>2, <2>2, <2>4 DEF UserEdits
  <1>3. CASE UserDeletes(c)
    <2> DEFINE v == [api[c] EXCEPT !.phase = IF api[c].fin THEN "deleting" ELSE "gone"]
    <2>1. Write(c, v) /\ api[c].phase = "live"
      BY <1>3 DEF UserDeletes
    <2>2. /\ v.phase = (IF api[c].fin THEN "deleting" ELSE "gone") /\ v.fin = api[c].fin
          /\ v.id = api[c].id /\ v.prov = api[c].prov
      BY <1>0 DEF Version
    <2> HIDE DEF v
    <2>3. api'[c] = v /\ pending'[c] = Append(pending[c], api'[c])
      BY <1>w, <2>1, <2>2
    <2>4. QED BY <1>3, <2>1, <2>2, <2>3 DEF UserDeletes
  <1>4. CASE AddFinalizer(c)
    <2> DEFINE v == [api[c] EXCEPT !.fin = TRUE]
    <2>1. Write(c, v) /\ Present(api[c]) /\ ~api[c].fin
      BY <1>4 DEF AddFinalizer
    <2>2. v.phase = api[c].phase /\ v.fin = TRUE /\ v.id = api[c].id /\ v.prov = api[c].prov
      BY <1>0 DEF Version
    <2> HIDE DEF v
    <2>3. api'[c] = v /\ pending'[c] = Append(pending[c], api'[c])
      BY <1>w, <2>1, <2>2
    <2>4. QED BY <1>4, <2>1, <2>2, <2>3 DEF AddFinalizer
  <1>5. CASE Publish(c)
    <2>1. /\ pc[c] \in {"synced", "failed"} /\ pc'[c] = "idle" /\ loc'[c] = NoWork
          /\ UNCHANGED <<authentik, creds, faults>> /\ cache'[c] = cache[c]
      BY <1>5 DEF Publish, Goto
    <2>2. CASE Present(api[c])
      <3>1. Write(c, Recorded(c))
        BY <1>5, <2>2 DEF Publish
      <3>2. /\ Recorded(c).phase = api[c].phase /\ Recorded(c).fin = api[c].fin
            /\ Recorded(c).id = (IF loc[c].wapp # NoId THEN loc[c].wapp ELSE api[c].id)
            /\ Recorded(c).prov = (IF loc[c].wprov # NoPk THEN loc[c].wprov ELSE api[c].prov)
        BY <1>0 DEF Recorded, Version
      <3>3. api'[c] = Recorded(c) /\ pending'[c] \in {pending[c], Append(pending[c], api'[c])}
        BY <1>w, <3>1
      <3>4. QED BY <2>1, <2>2, <3>2, <3>3
    <2>3. CASE ~Present(api[c])
      BY <1>5, <2>3 DEF Publish
    <2>4. QED BY <2>2, <2>3
  <1>6. CASE RemoveFinalizer(c)
    <2>1. /\ pc[c] = "cleaned" /\ pc'[c] = "idle" /\ loc'[c] = NoWork
          /\ UNCHANGED <<authentik, creds, faults>> /\ cache'[c] = cache[c]
      BY <1>6 DEF RemoveFinalizer, Goto
    <2>2. CASE Present(api[c])
      <3> DEFINE v == [api[c] EXCEPT !.fin = FALSE, !.phase = "gone"]
      <3>1. Write(c, v)
        BY <1>6, <2>2 DEF RemoveFinalizer
      <3>2. v.phase = "gone" /\ v.fin = FALSE /\ v.id = api[c].id /\ v.prov = api[c].prov
        BY <1>0 DEF Version
      <3> HIDE DEF v
      <3>3. api'[c] = v /\ pending'[c] \in {pending[c], Append(pending[c], api'[c])}
        BY <1>w, <3>1
      <3>4. QED BY <2>1, <3>2, <3>3
    <2>3. CASE ~Present(api[c])
      BY <1>6, <2>3 DEF RemoveFinalizer
    <2>4. QED BY <2>2, <2>3
  <1>7. CASE Deliver(c) \/ Fetch(c) \/ Cleanup(c)
    BY <1>7 DEF Deliver, Fetch, Cleanup
  <1>8. CASE \/ GetApplication(c) \/ ReplaceProvider(c) \/ PatchProvider(c) \/ DiscardProvider(c)
             \/ CreateProvider(c) \/ WriteCredentials(c) \/ UpsertApplication(c)
             \/ AttachOutpost(c)
    BY <1>8 DEF GetApplication, ReplaceProvider, PatchProvider, DiscardProvider,
                CreateProvider, WriteCredentials, UpsertApplication, AttachOutpost
  <1>9. CASE \/ CleanupReads(c) \/ CleanupProvider(c) \/ CleanupRecord(c)
             \/ CleanupApplication(c) \/ CleanupCredentials(c) \/ FaultStep(c)
    BY <1>9 DEF CleanupReads, CleanupProvider, CleanupRecord, CleanupApplication,
                CleanupCredentials, FaultStep, CallFails, ReplyLost, WriteBackFails
  <1>10. QED
    BY <1>1, <1>2, <1>3, <1>4, <1>5, <1>6, <1>7, <1>8, <1>9
    DEF CRStep, UserStep, StartStep, ApplyStep, CleanupStep
-----------------------------------------------------------------------------
(* What a reconcile carries from step to step.                             *)

LEMMA NoWorkIs == /\ NoWork.id = NoId /\ NoWork.prov = NoPk /\ NoWork.app = NoId
                  /\ NoWork.target = NoPk /\ NoWork.wprov = NoPk /\ NoWork.wapp = NoId
  BY DEF NoWork

\* The CR as it was fetched, and what its status recorded.
Fetched(c) ==
    /\ loc'[c].slug = loc[c].slug /\ loc'[c].kind = loc[c].kind
    /\ loc'[c].allow = loc[c].allow
    /\ loc'[c].id = loc[c].id /\ loc'[c].prov = loc[c].prov

LEMMA FetchIs ==
  ASSUME TypeOK, NEW c \in CRs, Fetch(c)
  PROVE  /\ pc[c] = "idle" /\ pc'[c] = "fetched" /\ UNCHANGED <<api, authentik, creds, faults>>
         /\ Present(api[c]) /\ cache[c].phase = "live" /\ cache[c].fin
         /\ loc'[c].id = api[c].id /\ loc'[c].prov = api[c].prov
         /\ loc'[c].app = NoId /\ loc'[c].target = NoPk
         /\ loc'[c].wprov = NoPk /\ loc'[c].wapp = NoId
  <1>1. loc'[c] = [NoWork EXCEPT !.gen = api[c].gen, !.slug = api[c].slug, !.kind = api[c].kind,
                           !.allow = api[c].allow, !.id = api[c].id, !.prov = api[c].prov]
    BY DEF Fetch, Goto, TypeOK
  <1>2. /\ loc'[c].id = api[c].id /\ loc'[c].prov = api[c].prov
        /\ loc'[c].app = NoId /\ loc'[c].target = NoPk
        /\ loc'[c].wprov = NoPk /\ loc'[c].wapp = NoId
    BY <1>1 DEF NoWork
  <1>3. QED BY <1>2 DEF Fetch, Goto, TypeOK, Reconcilable

LEMMA GetIs ==
  ASSUME TypeOK, NEW c \in CRs, GetApplication(c)
  PROVE  /\ pc[c] = "fetched" /\ pc'[c] = AfterGet(c, Found(loc[c].id))
         /\ UNCHANGED <<api, authentik, creds, faults>>
         /\ Fetched(c) /\ loc'[c].wprov = loc[c].wprov /\ loc'[c].wapp = loc[c].wapp
         /\ loc'[c].app = IF Found(loc[c].id) THEN loc[c].id ELSE NoId
         /\ loc'[c].target = ExistingProvider(c)
  <1>1. loc[c] \in Work
    BY DEF TypeOK
  <1>2. loc'[c] = [loc[c] EXCEPT !.app = IF Found(loc[c].id) THEN loc[c].id ELSE NoId,
                                 !.target = ExistingProvider(c)]
    BY DEF GetApplication, Goto, TypeOK
  <1>3. /\ Fetched(c) /\ loc'[c].wprov = loc[c].wprov /\ loc'[c].wapp = loc[c].wapp
        /\ loc'[c].app = (IF Found(loc[c].id) THEN loc[c].id ELSE NoId)
        /\ loc'[c].target = ExistingProvider(c)
    BY <1>1, <1>2 DEF Fetched, Work
  <1>4. QED BY <1>3 DEF GetApplication, Goto, TypeOK

LEMMA DropIs ==
  ASSUME TypeOK, NEW c \in CRs, ReplaceProvider(c) \/ DiscardProvider(c)
  PROVE  /\ pc'[c] = "provider" /\ UNCHANGED <<api, creds, faults>>
         /\ loc[c].target \in Pks \cup {NoPk} /\ DeletesProvider(loc[c].target)
         /\ Fetched(c) /\ loc'[c].wprov = loc[c].wprov /\ loc'[c].wapp = loc[c].wapp
         /\ loc'[c].app = loc[c].app /\ loc'[c].target = NoPk
  <1>1. loc[c] \in Work
    BY DEF TypeOK
  <1>2. loc'[c] = [loc[c] EXCEPT !.target = NoPk]
    BY DEF ReplaceProvider, DiscardProvider, Goto, TypeOK
  <1>3. /\ Fetched(c) /\ loc'[c].wprov = loc[c].wprov /\ loc'[c].wapp = loc[c].wapp
        /\ loc'[c].app = loc[c].app /\ loc'[c].target = NoPk
        /\ loc[c].target \in Pks \cup {NoPk}
    BY <1>1, <1>2 DEF Fetched, Work
  <1>4. QED BY <1>3 DEF ReplaceProvider, DiscardProvider, Goto, TypeOK

\* With a provider, to the credentials or to the application.
Provided(c, p) ==
    /\ pc'[c] = (IF loc[c].kind = "oauth2" THEN "credentials" ELSE "application")
    /\ Fetched(c) /\ loc'[c].wapp = loc[c].wapp /\ loc'[c].app = loc[c].app
    /\ loc'[c].target = p /\ loc'[c].wprov = p

LEMMA AfterProviderIs ==
  ASSUME TypeOK, NEW c \in CRs, NEW p, AfterProvider(c, p)
  PROVE  Provided(c, p)
  <1>1. loc[c] \in Work
    BY DEF TypeOK
  <1>2. loc'[c] = [loc[c] EXCEPT !.target = p, !.wprov = p]
    BY DEF AfterProvider, Goto, TypeOK
  <1>3. /\ Fetched(c) /\ loc'[c].wapp = loc[c].wapp /\ loc'[c].app = loc[c].app
        /\ loc'[c].target = p /\ loc'[c].wprov = p
    BY <1>1, <1>2 DEF Fetched, Work
  <1>4. QED BY <1>3 DEF Provided, AfterProvider, Goto, TypeOK

LEMMA PatchIs ==
  ASSUME TypeOK, NEW c \in CRs, PatchProvider(c)
  PROVE  /\ pc[c] = "provider" /\ loc[c].target # NoPk /\ UNCHANGED <<api, creds, faults>>
         /\ \/ /\ loc'[c] = loc[c] /\ pc'[c] = "discard" /\ UNCHANGED authentik
               /\ ~Live(loc[c].target) \/ provs[loc[c].target].kind # loc[c].kind
            \/ loc'[c] = loc[c] /\ pc'[c] = "failed" /\ UNCHANGED authentik
            \/ /\ Live(loc[c].target) /\ provs[loc[c].target].kind = loc[c].kind
               /\ ~NameTaken(c, loc[c].target) /\ PatchesProvider(c)
               /\ Provided(c, loc[c].target)
  BY AfterProviderIs DEF PatchProvider, Goto, TypeOK

LEMMA CreateIs ==
  ASSUME TypeOK, NEW c \in CRs, CreateProvider(c)
  PROVE  /\ pc[c] = "provider" /\ loc[c].target = NoPk /\ UNCHANGED <<api, creds, faults>>
         /\ \/ loc'[c] = loc[c] /\ pc'[c] = "failed" /\ UNCHANGED authentik
            \/ ~NameTaken(c, NoPk) /\ CreatesProvider(c) /\ Provided(c, made + 1)
  BY AfterProviderIs DEF CreateProvider, Goto, TypeOK

LEMMA UpsertIs ==
  ASSUME TypeOK, NEW c \in CRs, UpsertApplication(c)
  PROVE  /\ pc[c] = "application" /\ UNCHANGED <<api, creds, faults>>
         /\ \/ loc'[c] = loc[c] /\ pc'[c] = "failed" /\ UNCHANGED authentik
            \/ /\ ~AppRefused(c) /\ (loc[c].app = NoId \/ Found(loc[c].app)) /\ WritesApp(c)
               /\ pc'[c] \in {"attach", "synced"}
               /\ Fetched(c) /\ loc'[c].app = loc[c].app /\ loc'[c].target = loc[c].target
               /\ loc'[c].wprov = loc[c].wprov /\ loc'[c].wapp = loc[c].slug
  <1>1. loc[c] \in Work
    BY DEF TypeOK
  <1>2. ASSUME NEW step \in {"attach", "synced"}, Goto(c, step, [loc[c] EXCEPT !.wapp = loc[c].slug])
        PROVE  /\ pc'[c] \in {"attach", "synced"}
               /\ Fetched(c) /\ loc'[c].app = loc[c].app /\ loc'[c].target = loc[c].target
               /\ loc'[c].wprov = loc[c].wprov /\ loc'[c].wapp = loc[c].slug
    <2>1. pc'[c] = step /\ loc'[c] = [loc[c] EXCEPT !.wapp = loc[c].slug]
      BY <1>2 DEF Goto, TypeOK
    <2>2. QED BY <1>1, <2>1 DEF Fetched, Work
  <1>3. CASE Goto(c, "failed", loc[c]) /\ UNCHANGED authentik
    BY <1>3 DEF UpsertApplication, Goto, TypeOK
  <1>4. CASE WritesApp(c) /\ ~AppRefused(c) /\ (loc[c].app = NoId \/ Found(loc[c].app))
    <2>1. PICK step \in {"attach", "synced"} : Goto(c, step, [loc[c] EXCEPT !.wapp = loc[c].slug])
      BY <1>4 DEF UpsertApplication, Goto, authentik, WritesApp
    <2>2. QED BY <1>2, <1>4, <2>1 DEF UpsertApplication
  <1>5. QED BY <1>3, <1>4 DEF UpsertApplication

LEMMA CleanupIs ==
  ASSUME TypeOK, NEW c \in CRs, Cleanup(c)
  PROVE  /\ pc[c] = "idle" /\ pc'[c] \in {"cleanup", "cleaned"}
         /\ UNCHANGED <<api, authentik, creds, faults>> /\ cache[c].phase = "deleting"
         /\ loc'[c].id = cache[c].id /\ loc'[c].prov = cache[c].prov
         /\ loc'[c].app = NoId /\ loc'[c].target = NoPk
         /\ loc'[c].wprov = NoPk /\ loc'[c].wapp = NoId
         /\ pc'[c] = "cleaned" => cache[c].id = NoId /\ cache[c].prov = NoPk
  <1>1. loc'[c] = [NoWork EXCEPT !.slug = cache[c].slug, !.kind = cache[c].kind,
                                 !.id = cache[c].id, !.prov = cache[c].prov]
    BY DEF Cleanup, Goto, TypeOK
  <1>2. /\ loc'[c].id = cache[c].id /\ loc'[c].prov = cache[c].prov
        /\ loc'[c].app = NoId /\ loc'[c].target = NoPk
        /\ loc'[c].wprov = NoPk /\ loc'[c].wapp = NoId
    BY <1>1 DEF NoWork
  <1>3. QED BY <1>2 DEF Cleanup, Goto, TypeOK, Reconcilable

LEMMA CleanupReadsIs ==
  ASSUME TypeOK, NEW c \in CRs, CleanupReads(c)
  PROVE  /\ pc[c] = "cleanup" /\ pc'[c] = "its_provider"
         /\ UNCHANGED <<api, authentik, creds, faults>>
         /\ Fetched(c) /\ loc'[c].wprov = loc[c].wprov /\ loc'[c].wapp = loc[c].wapp
         /\ loc'[c].app = IF Found(loc[c].id) THEN loc[c].id ELSE NoId
         /\ loc'[c].target = IF Found(loc[c].id) THEN apps[loc[c].id].prov ELSE NoPk
  <1>1. loc[c] \in Work
    BY DEF TypeOK
  <1>2. loc'[c] = [loc[c] EXCEPT !.app = IF Found(loc[c].id) THEN loc[c].id ELSE NoId,
                           !.target = IF Found(loc[c].id) THEN apps[loc[c].id].prov ELSE NoPk]
    BY DEF CleanupReads, Goto, TypeOK
  <1>3. /\ Fetched(c) /\ loc'[c].wprov = loc[c].wprov /\ loc'[c].wapp = loc[c].wapp
        /\ loc'[c].app = (IF Found(loc[c].id) THEN loc[c].id ELSE NoId)
        /\ loc'[c].target = (IF Found(loc[c].id) THEN apps[loc[c].id].prov ELSE NoPk)
    BY <1>1, <1>2 DEF Fetched, Work
  <1>4. QED BY <1>3 DEF CleanupReads, Goto, TypeOK

\* The cleanup's deletes carry on what they were given.
LEMMA CleaningIs ==
  ASSUME TypeOK, NEW c \in CRs,
         CleanupProvider(c) \/ CleanupRecord(c) \/ CleanupApplication(c) \/ CleanupCredentials(c)
  PROVE  /\ loc'[c] = loc[c] /\ UNCHANGED <<api, faults>>
         /\ \/ pc[c] = "its_provider" /\ pc'[c] = "its_record" /\ DeletesProvider(loc[c].target)
            \/ pc[c] = "its_record" /\ pc'[c] = "its_application" /\ DeletesProvider(loc[c].prov)
            \/ /\ pc[c] = "its_application" /\ pc'[c] = "its_credentials"
               /\ UNCHANGED <<made, provs>>
               /\ apps' = IF loc[c].app # NoId THEN [apps EXCEPT ![loc[c].app] = NoApp] ELSE apps
            \/ pc[c] = "its_credentials" /\ pc'[c] = "cleaned" /\ UNCHANGED authentik
         /\ creds' = creds \/ pc[c] = "its_credentials"
  BY DEF CleanupProvider, CleanupRecord, CleanupApplication, CleanupCredentials, Goto, TypeOK

\* A fault ends a reconcile, before or after the call it struck.
LEMMA FaultIs ==
  ASSUME TypeOK, NEW c \in CRs, FaultStep(c)
  PROVE  /\ faults' < MaxFaults /\ UNCHANGED <<api, creds>>
         /\ \/ pc'[c] = "idle" /\ loc'[c] = NoWork /\ UNCHANGED authentik
            \/ /\ pc[c] \in Applying /\ pc'[c] = "failed" /\ loc'[c] = loc[c]
               /\ \/ UNCHANGED authentik
                  \/ pc[c] = "provider" /\ CreatesProvider(c)
                  \/ /\ pc[c] = "application" /\ ~AppRefused(c)
                     /\ (loc[c].app = NoId \/ Found(loc[c].app)) /\ WritesApp(c)
  <1>1. faults' < MaxFaults
    BY BoundsAssumption DEF FaultStep, CallFails, ReplyLost, WriteBackFails, Fault, TypeOK
  <1>2. QED BY <1>1 DEF FaultStep, CallFails, ReplyLost, WriteBackFails, Goto, TypeOK, Applying
-----------------------------------------------------------------------------
(* A CR's invariant.                                                       *)

LEMMA EffectIsStep ==
  ASSUME TypeOK, Objects, [Next]_vars
  PROVE  Objects' /\ Endures
  <1>1. CASE UNCHANGED authentik
    BY <1>1, ObjectsStep, BoundsAssumption DEF authentik, Objects, Endures, TypeOK
  <1>2. CASE Next
    <2>1. UNCHANGED authentik \/ HumanEffect \/ \E c \in CRs : Effect(c)
      BY <1>2, EffectIs, HumanEffectIs DEF Next, CRStep, Crash
    <2>2. QED BY <1>1, <2>1, ObjectsStep
  <1>3. QED BY <1>1, <1>2 DEF vars, authentik

LEMMA SeenKept ==
  ASSUME TypeOK, Objects, NEW c \in CRs, Local(c), CRStep(c), Endures, api'[c].prov <= made'
  PROVE  Seen(c)'
  <1> USE DEF TypeOK
  <1>0. /\ made \in Nat /\ made' \in Nat /\ made <= made'
        /\ pending[c] \in Seq(Version) /\ cache[c] \in Version
    BY NextTypes, BoundsAssumption DEF Endures, Next, CRStep
  <1> DEFINE S(v) == /\ v.phase = "deleting" => api'[c].phase \in {"deleting", "gone"}
                     /\ v.fin => api'[c].fin \/ api'[c].phase = "gone"
                     /\ v.prov <= made'
  <1>1. /\ api[c].phase \in {"deleting", "gone"} => api'[c].phase \in {"deleting", "gone"}
        /\ api[c].fin \/ api[c].phase = "gone" => api'[c].fin \/ api'[c].phase = "gone"
    BY ApiIs DEF Local, Working, Present
  <1>2. ASSUME NEW v \in Version, Sent(c, v) PROVE S(v)
    <2>1. v.prov \in Nat
      BY PkIs DEF Version
    <2>2. v.prov <= made'
      BY <1>0, <1>2, <2>1 DEF Sent
    <2>3. QED BY <1>1, <1>2, <2>2 DEF Sent
  <1>3. S(api'[c])
    OBVIOUS
  <1>4. \A i \in 1..Len(pending[c]) : pending[c][i] \in Version /\ S(pending[c][i])
    <2>1. \A i \in 1..Len(pending[c]) : pending[c][i] \in Version /\ Sent(c, pending[c][i])
      BY <1>0 DEF Local, Seen
    <2> HIDE DEF S
    <2>2. QED BY <1>2, <2>1
  <1>5. S(cache[c])
    BY <1>0, <1>2 DEF Local, Seen
  <1>6. SUFFICES S(cache'[c]) /\ \A i \in 1..Len(pending'[c]) : S(pending'[c][i])
    BY DEF Seen, Sent
  <1> HIDE DEF S
  <1>7. CASE pending'[c] = pending[c] /\ cache'[c] = cache[c]
    BY <1>4, <1>5, <1>7
  <1>8. CASE pending[c] # <<>> /\ cache'[c] = Head(pending[c]) /\ pending'[c] = Tail(pending[c])
    <2>1. Head(pending[c]) = pending[c][1] /\ 1 \in 1..Len(pending[c])
      BY <1>0, <1>8
    <2>2. ASSUME NEW i \in 1..Len(Tail(pending[c]))
          PROVE  i + 1 \in 1..Len(pending[c]) /\ Tail(pending[c])[i] = pending[c][i + 1]
      BY <1>0, <1>8
    <2>3. QED BY <1>4, <1>8, <2>1, <2>2
  <1>9. CASE pending'[c] = Append(pending[c], api'[c]) /\ cache'[c] = cache[c]
    <2>1. ASSUME NEW i \in 1..Len(pending'[c])
          PROVE  \/ pending'[c][i] = api'[c]
                 \/ i \in 1..Len(pending[c]) /\ pending'[c][i] = pending[c][i]
      BY <1>0, <1>9
    <2>2. QED BY <1>3, <1>4, <1>5, <1>9, <2>1
  <1>10. QED BY <1>7, <1>8, <1>9, ApiIs

\* The other steps carry on what they were given, or end.
LEMMA SameWork ==
  ASSUME TypeOK, NEW c \in CRs, CRStep(c)
  PROVE  \/ loc'[c] = loc[c] \/ loc'[c] = NoWork
         \/ Fetch(c) \/ GetApplication(c) \/ ReplaceProvider(c) \/ DiscardProvider(c)
         \/ PatchProvider(c) \/ CreateProvider(c) \/ UpsertApplication(c)
         \/ Cleanup(c) \/ CleanupReads(c)
  <1>1. CASE UserStep(c) \/ Deliver(c) \/ AddFinalizer(c)
    BY <1>1 DEF UserStep, UserCreates, UserEdits, UserDeletes, Deliver, AddFinalizer
  <1>2. CASE WriteCredentials(c) \/ AttachOutpost(c) \/ Publish(c) \/ RemoveFinalizer(c)
    BY <1>2 DEF WriteCredentials, AttachOutpost, Publish, RemoveFinalizer, Goto, TypeOK
  <1>3. QED BY <1>1, <1>2, CleaningIs, FaultIs DEF CRStep, StartStep, ApplyStep, CleanupStep

\* A reconcile knows of no provider that was not made.
LEMMA CountedKept ==
  ASSUME TypeOK, Objects, NEW c \in CRs, Local(c), CRStep(c), Objects', Endures
  PROVE  Counted(c)'
  <1> USE DEF Counted
  <1>0. /\ made \in Nat /\ made' \in Nat /\ made <= made' /\ NoPk = 0
        /\ api[c].prov \in Nat /\ cache[c].prov \in Nat
        /\ loc[c].prov \in Nat /\ loc[c].target \in Nat /\ loc[c].wprov \in Nat
        /\ api[c].prov <= made /\ cache[c].prov <= made
        /\ loc[c].prov <= made /\ loc[c].target <= made /\ loc[c].wprov <= made
    <2>1. TypeOK'
      BY NextTypes DEF Next, CRStep
    <2>2. made \in Nat /\ made' \in Nat /\ made <= made'
      BY <2>1, BoundsAssumption DEF TypeOK, Endures
    <2>3. api[c] \in Version /\ cache[c] \in Version /\ loc[c] \in Work
      BY DEF TypeOK
    <2>4. QED BY <2>2, <2>3, PkIs DEF Local, Seen, Sent, Version, Work, NoPk
  <1>1. api'[c].prov <= made'
    <2>1. api'[c] = api[c] \/ api'[c].prov \in {NoPk, api[c].prov, loc[c].wprov}
      BY ApiIs
    <2>2. QED BY <1>0, <2>1
  <1>2. /\ loc'[c].prov \in {NoPk, loc[c].prov, api[c].prov, cache[c].prov}
        /\ loc'[c].target <= made' /\ loc'[c].wprov <= made'
    <2>1. CASE loc'[c] = loc[c] \/ loc'[c] = NoWork
      BY <1>0, <2>1, NoWorkIs
    <2>2. CASE Fetch(c)
      BY <1>0, <2>2, FetchIs
    <2>3. CASE GetApplication(c)
      <3>1. loc[c].id \in Slugs => apps[loc[c].id].prov <= made /\ apps[loc[c].id].prov \in Nat
        BY PkIs DEF Objects, TypeOK, App
      <3>2. ExistingProvider(c) <= made
        BY <1>0, <3>1 DEF ExistingProvider, Found, TypeOK, Work
      <3>3. ExistingProvider(c) \in Nat
        BY <1>0, <3>1 DEF ExistingProvider, Found, TypeOK, Work
      <3>4. QED BY <1>0, <2>3, <3>2, <3>3, GetIs DEF Fetched
    <2>4. CASE ReplaceProvider(c) \/ DiscardProvider(c)
      BY <1>0, <2>4, DropIs DEF Fetched
    <2>5. CASE PatchProvider(c)
      BY <1>0, <2>1, <2>5, PatchIs DEF Fetched, Provided
    <2>6. CASE CreateProvider(c)
      <3>1. CASE CreatesProvider(c) /\ Provided(c, made + 1)
        BY <1>0, <3>1 DEF Fetched, Provided, CreatesProvider
      <3>2. QED BY <2>1, <2>6, <3>1, CreateIs
    <2>7. CASE UpsertApplication(c)
      BY <1>0, <2>1, <2>7, UpsertIs DEF Fetched
    <2>8. CASE Cleanup(c)
      BY <1>0, <2>8, CleanupIs
    <2>9. CASE CleanupReads(c)
      <3>1. loc[c].id \in Slugs => apps[loc[c].id].prov <= made /\ apps[loc[c].id].prov \in Nat
        BY PkIs DEF Objects, TypeOK, App
      <3>2. Found(loc[c].id) => loc[c].id \in Slugs
        BY DEF Found, TypeOK, Work
      <3>3. QED BY <1>0, <2>9, <3>1, <3>2, CleanupReadsIs DEF Fetched
    <2>10. QED BY <2>1, <2>2, <2>3, <2>4, <2>5, <2>6, <2>7, <2>8, <2>9, SameWork
  <1>3. loc'[c].prov <= made'
    BY <1>0, <1>2
  <1>4. QED BY <1>1, <1>2, <1>3

LEMMA WorkingKept ==
  ASSUME TypeOK, Objects, NEW c \in CRs, Local(c), CRStep(c), Objects', Endures
  PROVE  Working(c)'
  <1> USE DEF Working, Applies, Applying, Cleans, Cleaning, Present
  <1>0. /\ Working(c) /\ Sent(c, cache[c]) /\ Counted(c)
        /\ loc[c] \in Work /\ loc[c].id \in Slugs \cup {NoId}
        /\ loc[c].target \in Pks \cup {NoPk} /\ loc[c].wprov \in Pks \cup {NoPk}
    BY DEF Local, Seen, TypeOK, Work
  <1>1. \A p \in Pks : p <= made => provs'[p].kind = provs[p].kind
    BY DEF Endures
  <1>2. loc[c].wprov # NoPk => provs'[loc[c].wprov].kind = provs[loc[c].wprov].kind
    BY <1>0, <1>1 DEF Counted
  \* Steps that leave the CR at the API server as it is.
  <1>3. CASE api'[c] = api[c] /\ pc'[c] = "idle" /\ loc'[c] = NoWork
    BY <1>0, <1>3, NoWorkIs
  <1>4. CASE api'[c] = api[c] /\ pc'[c] = pc[c] /\ loc'[c] = loc[c]
    BY <1>0, <1>2, <1>4
  <1>5. CASE Fetch(c)
    <2>1. api[c].fin
      BY <1>0, <1>5, FetchIs DEF Sent
    <2>2. QED BY <1>0, <1>5, <2>1, FetchIs
  <1>6. CASE GetApplication(c)
    BY <1>0, <1>6, GetIs DEF Fetched, AfterGet
  <1>7. CASE ReplaceProvider(c) \/ DiscardProvider(c)
    BY <1>0, <1>7, DropIs DEF Fetched, ReplaceProvider, DiscardProvider
  <1>8. CASE PatchProvider(c)
    <2>1. loc[c].target \in Pks => provs'[loc[c].target].kind = provs[loc[c].target].kind
      BY <1>0, <1>1 DEF Counted
    <2>2. QED BY <1>0, <1>8, <2>1, PatchIs DEF Fetched, Provided
  <1>9. CASE CreateProvider(c)
    <2>1. CASE CreatesProvider(c) /\ Provided(c, made + 1)
      <3>1. made + 1 # NoPk /\ provs'[made + 1].kind = loc[c].kind
        <4>1. made + 1 \in Pks /\ provs'[made + 1] = [owner |-> c, name |-> c,
                  kind |-> loc[c].kind, attached |-> FALSE, live |-> TRUE]
          BY <2>1, CreatesIs
        <4>2. QED BY <4>1, PkIs
      <3>2. QED BY <1>0, <1>9, <2>1, <3>1, CreateIs DEF Fetched, Provided
    <2>2. QED BY <1>0, <1>9, <2>1, CreateIs
  <1>10. CASE WriteCredentials(c)
    BY <1>0, <1>2, <1>10 DEF WriteCredentials, Goto, TypeOK
  <1>11. CASE UpsertApplication(c)
    BY <1>0, <1>2, <1>11, UpsertIs DEF Fetched
  <1>12. CASE AttachOutpost(c)
    BY <1>0, <1>12 DEF AttachOutpost, Goto, TypeOK
  <1>13. CASE Cleanup(c)
    BY <1>0, <1>13, CleanupIs DEF Sent
  <1>14. CASE CleanupReads(c)
    BY <1>0, <1>14, CleanupReadsIs DEF Fetched
  <1>15. CASE CleanupProvider(c) \/ CleanupRecord(c) \/ CleanupApplication(c) \/ CleanupCredentials(c)
    BY <1>0, <1>15, CleaningIs
  <1>16. CASE FaultStep(c)
    BY <1>0, <1>3, <1>16, FaultIs
  \* Steps that write it.
  <1>17. CASE UserStep(c) \/ AddFinalizer(c) \/ Publish(c) \/ RemoveFinalizer(c) \/ Deliver(c)
    <2>1. CASE api'[c] = api[c]
      <3>1. CASE pc'[c] = pc[c] /\ loc'[c] = loc[c]
        BY <1>4, <2>1, <3>1
      <3>2. CASE pc'[c] = "idle" /\ loc'[c] = NoWork
        BY <1>3, <2>1, <3>2
      <3>3. QED BY <1>17, <3>1, <3>2
            DEF UserStep, UserCreates, UserEdits, UserDeletes, AddFinalizer, Publish,
                RemoveFinalizer, Deliver, Goto, TypeOK
    <2>2. CASE pc'[c] = "idle" /\ loc'[c] = NoWork
      BY <1>0, <2>1, <2>2, ApiIs, NoWorkIs
    <2>3. CASE pc'[c] = pc[c] /\ loc'[c] = loc[c]
      <3>1. CASE api[c].phase = "absent" /\ api'[c].phase = "live" /\ ~api'[c].fin
        BY <1>0, <1>2, <2>3, <3>1
      <3>2. CASE /\ api[c].phase = "live" /\ api'[c].phase = "live" /\ api'[c].fin = api[c].fin
                 /\ api'[c].id = api[c].id /\ api'[c].prov = api[c].prov
        BY <1>0, <1>2, <2>3, <3>2
      <3>3. CASE /\ api[c].phase = "live" /\ api'[c].fin = api[c].fin
                 /\ api'[c].phase = IF api[c].fin THEN "deleting" ELSE "gone"
                 /\ api'[c].id = api[c].id /\ api'[c].prov = api[c].prov
        BY <1>0, <1>2, <2>3, <3>3
      <3>4. CASE /\ Present(api[c]) /\ api'[c].phase = api[c].phase /\ api'[c].fin
                 /\ api'[c].id = api[c].id /\ api'[c].prov = api[c].prov
        BY <1>0, <1>2, <2>3, <3>4
      <3>5. QED BY <2>1, <2>2, <3>1, <3>2, <3>3, <3>4, ApiIs
    <2>4. QED BY <2>1, <2>2, <2>3, ApiIs
  <1>18. QED
    BY <1>5, <1>6, <1>7, <1>8, <1>9, <1>10, <1>11, <1>12, <1>13, <1>14, <1>15, <1>16, <1>17
    DEF CRStep, StartStep, ApplyStep, CleanupStep

Ordered == Objects /\ \A c \in CRs : Local(c)

LEMMA InitOrdered == Init => Ordered
  BY BoundsAssumption, NoWorkIs, EmptySeq
  DEF Init, Ordered, Objects, Local, Seen, Sent, Counted, Working, Blank, NoApp, NoPk, Applies,
      Applying, Cleans, Cleaning

LEMMA NextOrdered == TypeOK /\ Ordered /\ [Next]_vars => Ordered'
  <1>1. SUFFICES ASSUME TypeOK, Ordered, [Next]_vars PROVE Ordered'
    OBVIOUS
  <1>2. Objects' /\ Endures /\ TypeOK'
    BY <1>1, EffectIsStep, NextTypes DEF Ordered
  <1>3. SUFFICES ASSUME NEW c \in CRs PROVE Local(c)'
    BY <1>2 DEF Ordered
  <1>4. Local(c)
    BY <1>1 DEF Ordered
  \* What others do leaves a CR as it was.
  <1>5. /\ made \in Nat /\ made' \in Nat /\ made <= made'
        /\ cache[c] \in Version /\ pending[c] \in Seq(Version) /\ loc[c] \in Work
        /\ loc[c].wprov \in Pks \cup {NoPk}
    BY <1>1, <1>2, BoundsAssumption DEF TypeOK, Endures, Work
  <1>6. \A p \in Pks \cup {NoPk} : p <= made => p <= made'
    BY <1>5, PkIs
  <1>7. CASE /\ api'[c] = api[c] /\ cache'[c] \in {cache[c], api[c]}
             /\ pending'[c] \in {pending[c], <<>>}
             /\ \/ pc'[c] = pc[c] /\ loc'[c] = loc[c]
                \/ pc'[c] = "idle" /\ loc'[c] = NoWork
    <2>1. Seen(c)'
      <3>1. \A v \in Version : Sent(c, v) =>
                /\ v.phase = "deleting" => api'[c].phase \in {"deleting", "gone"}
                /\ v.fin => api'[c].fin \/ api'[c].phase = "gone"
                /\ v.prov <= made'
        BY <1>6, <1>7 DEF Sent, Version
      <3>2. Sent(c, api[c])
        BY <1>4 DEF Local, Counted, Sent
      <3>3. api[c] \in Version
        BY <1>1 DEF TypeOK
      <3>4. \A i \in 1..Len(pending[c]) : pending[c][i] \in Version
        BY <1>5
      <3>5. Len(<<>>) = 0
        OBVIOUS
      <3>6. QED BY <1>4, <1>5, <1>7, <3>1, <3>2, <3>3, <3>4, <3>5 DEF Local, Seen, Sent
    <2>2. Counted(c)'
      <3>1. /\ api[c].prov \in Pks \cup {NoPk} /\ loc[c].prov \in Pks \cup {NoPk}
            /\ loc[c].target \in Pks \cup {NoPk}
        BY <1>1 DEF TypeOK, Version, Work
      <3>2. /\ api[c].prov <= made' /\ loc[c].prov <= made' /\ loc[c].target <= made'
            /\ loc[c].wprov <= made' /\ NoPk <= made'
        BY <1>4, <1>5, <1>6, <3>1 DEF Local, Counted, NoPk
      <3>3. QED BY <1>7, <3>2, NoWorkIs DEF Counted
    <2>3. Working(c)'
      <3>1. loc[c].wprov # NoPk => provs'[loc[c].wprov].kind = provs[loc[c].wprov].kind
        BY <1>2, <1>4, <1>5 DEF Endures, Local, Counted
      <3>2. QED BY <1>4, <1>7, <3>1, NoWorkIs
            DEF Local, Working, Applies, Applying, Cleans, Cleaning, Present
    <2>4. QED BY <2>1, <2>2, <2>3 DEF Local
  <1>8. CASE UNCHANGED vars
    BY <1>7, <1>8 DEF vars
  <1>9. CASE HumanStep
    BY <1>1, <1>7, <1>9, HumanEffectIs
  <1>10. CASE Crash
    BY <1>7, <1>10 DEF Crash
  <1>11. ASSUME NEW d \in CRs, CRStep(d) PROVE Local(c)'
    <2>1. CASE d = c
      <3>1. Counted(c)'
        BY <1>1, <1>2, <1>4, <1>11, <2>1, CountedKept DEF Ordered
      <3>2. Seen(c)'
        BY <1>1, <1>2, <1>4, <1>11, <2>1, <3>1, SeenKept DEF Ordered, Counted
      <3>3. Working(c)'
        BY <1>1, <1>2, <1>4, <1>11, <2>1, WorkingKept DEF Ordered
      <3>4. QED BY <3>1, <3>2, <3>3 DEF Local
    <2>2. CASE d # c
      BY <1>1, <1>7, <1>11, <2>2, OneMoves
    <2>3. QED BY <2>1, <2>2
  <1>12. QED BY <1>1, <1>8, <1>9, <1>10, <1>11 DEF Next, CRStep

LEMMA AlwaysOrdered == Spec => [](TypeOK /\ Ordered)
  BY InitTypes, NextTypes, InitOrdered, NextOrdered, PTL DEF Spec
-----------------------------------------------------------------------------
(* CRs that do not meet.  A CR whose application was deleted in Authentik  *)
(* finds, under the slug it recorded, the application another CR has made  *)
(* there since, and takes it for its own: what follows is about CRs to     *)
(* which that does not happen.                                             *)

\* No reconcile deals with an application or a provider that another CR made, and no two
\* with one provider.
Apart ==
    \A c, d \in CRs : c # d =>
        /\ loc[d].app # NoId => ~Own(c, apps[loc[d].app])
        /\ loc[d].target # NoPk =>
              ~Own(c, provs[loc[d].target]) /\ loc[c].target # loc[d].target

\* One CR has nobody to meet.
LEMMA OneIsApart ==
  ASSUME \A c, d \in CRs : c = d
  PROVE  Apart
  BY DEF Apart

Foreign(c) == HumanStep \/ Crash \/ UNCHANGED vars \/ \E d \in CRs \ {c} : CRStep(d)

\* What others do to the objects a CR made, and to the provider it deals with.
LEMMA ForeignKeeps ==
  ASSUME TypeOK, Ordered, Apart, NEW c \in CRs, Foreign(c)
  PROVE  /\ \A p \in Pks : Own(c, provs'[p]) => Own(c, provs[p]) /\ provs'[p].name = provs[p].name
         /\ \A s \in Slugs : Own(c, apps'[s]) => Own(c, apps[s])
         /\ \A s \in Slugs : Own(c, apps'[s]) /\ apps'[s].prov # NoPk /\ Own(c, provs'[apps'[s].prov])
                             => apps'[s].prov = apps[s].prov
         /\ \A s \in Slugs : loc[c].target # NoPk /\ apps'[s].live /\ apps'[s].prov = loc[c].target
                             => apps[s].live /\ apps[s].prov = loc[c].target
  <1> DEFINE Goal ==
        /\ \A p \in Pks : Own(c, provs'[p]) => Own(c, provs[p]) /\ provs'[p].name = provs[p].name
        /\ \A s \in Slugs : Own(c, apps'[s]) => Own(c, apps[s])
        /\ \A s \in Slugs : Own(c, apps'[s]) /\ apps'[s].prov # NoPk /\ Own(c, provs'[apps'[s].prov])
                            => apps'[s].prov = apps[s].prov
        /\ \A s \in Slugs : loc[c].target # NoPk /\ apps'[s].live /\ apps'[s].prov = loc[c].target
                            => apps[s].live /\ apps[s].prov = loc[c].target
  <1>0. /\ loc[c].target \in Pks \cup {NoPk} /\ loc[c].target <= made /\ made \in Nat
        /\ \A s \in Slugs : apps[s] \in App /\ apps[s].prov \in Pks \cup {NoPk} /\ apps[s].prov <= made
        /\ Objects
    BY BoundsAssumption DEF TypeOK, Work, App, Ordered, Local, Counted, Objects
  <1>1. CASE UNCHANGED authentik
    BY <1>1 DEF authentik
  <1>2. ASSUME NEW p \in Pks \cup {NoPk}, DeletesProvider(p)
        PROVE  Goal
    <2>1. \A s \in Slugs : /\ apps'[s].live = apps[s].live /\ apps'[s].owner = apps[s].owner
                           /\ apps'[s].prov = IF apps[s].prov = p THEN NoPk ELSE apps[s].prov
      BY <1>0, <1>2, DeletedIs
    <2>2. \A q \in Pks : /\ provs'[q].owner = provs[q].owner /\ provs'[q].name = provs[q].name
                         /\ provs'[q].live => provs[q].live
      BY <1>0, <1>2, DeletesKeeps
    <2>3. QED BY <2>1, <2>2 DEF Own
  <1>3. ASSUME NEW s \in Slugs, apps' = [apps EXCEPT ![s] = NoApp], UNCHANGED <<made, provs>>
        PROVE  Goal
    <2>1. \A t \in Slugs : apps'[t] = apps[t] \/ ~apps'[t].live
      BY <1>3 DEF TypeOK, NoApp
    <2>2. QED BY <1>3, <2>1 DEF Own
  <1>4. ASSUME NEW s \in Slugs, NEW k \in Kinds, HumanPoints(s, k)
        PROVE  Goal
    <2>1. /\ made + 1 \in Pks /\ \A q \in Pks : q # made + 1 => provs'[q] = provs[q]
          /\ provs'[made + 1].owner # c
          /\ \A t \in Slugs \ {s} : apps'[t] = apps[t]
          /\ apps'[s].owner = apps[s].owner /\ apps'[s].prov = made + 1
      BY <1>0, <1>4, PointsIs, OwnerAssumption
    <2>2. Own(c, apps'[s]) => Own(c, apps[s])
      <3>1. ~apps[s].live => apps[s].owner = Human
        BY <1>0 DEF Objects, NoApp
      <3>2. Human # c
        BY OwnerAssumption
      <3>3. QED BY <2>1, <3>1, <3>2 DEF Own
    <2>3. loc[c].target # made + 1
      BY <1>0, PkIs
    <2>4. \A p \in Pks : Own(c, provs'[p]) => Own(c, provs[p]) /\ provs'[p].name = provs[p].name
      BY <2>1 DEF Own
    <2>5. \A t \in Slugs : Own(c, apps'[t]) => Own(c, apps[t])
      BY <2>1, <2>2
    <2>6. ASSUME NEW t \in Slugs, apps'[t].prov # NoPk, Own(c, provs'[apps'[t].prov])
          PROVE  apps'[t].prov = apps[t].prov
      BY <2>1, <2>6 DEF Own
    <2>7. \A t \in Slugs : apps'[t].live /\ apps'[t].prov = loc[c].target
                           => apps[t].live /\ apps[t].prov = loc[c].target
      BY <2>1, <2>3
    <2>8. QED BY <2>4, <2>5, <2>6, <2>7
  <1>5. ASSUME NEW d \in CRs \ {c}, CRStep(d)
        PROVE  Goal
    <2>1. /\ loc[d].app # NoId => ~Own(c, apps[loc[d].app])
          /\ loc[d].target # NoPk =>
                ~Own(c, provs[loc[d].target]) /\ loc[c].target # loc[d].target
      BY DEF Apart
    <2>2. CASE loc[d].target # NoPk /\ PatchesProvider(d)
      BY <2>1, <2>2, PatchesIs DEF Own
    <2>3. CASE CreatesProvider(d)
      <3>1. /\ apps' = apps /\ made + 1 \in Pks
            /\ \A q \in Pks : q # made + 1 => provs'[q] = provs[q]
            /\ provs'[made + 1] = [owner |-> d, name |-> d, kind |-> loc[d].kind,
                                   attached |-> FALSE, live |-> TRUE]
        BY <1>0, <2>3, CreatesIs
      <3>2. ~Own(c, provs'[made + 1])
        BY <3>1 DEF Own
      <3>3. QED BY <3>1, <3>2
    <2>4. CASE ~AppRefused(d) /\ (loc[d].app = NoId \/ Found(loc[d].app)) /\ WritesApp(d)
      <3>1. /\ provs' = provs /\ loc[d].wprov # NoPk
            /\ apps'[loc[d].slug].prov = loc[d].wprov
            /\ apps'[loc[d].slug].owner = (IF loc[d].app = NoId THEN d ELSE apps[loc[d].app].owner)
            /\ loc[d].app # NoId /\ loc[d].app # loc[d].slug => apps'[loc[d].app] = NoApp
            /\ \A s \in Slugs \ {loc[d].slug, loc[d].app} : apps'[s] = apps[s]
        BY <1>0, <2>4, WritesIs, PkIs
      <3>2. ~Own(c, apps'[loc[d].slug])
        BY <2>1, <2>4, <3>1 DEF Own, Found
      <3>3. loc[d].wprov = loc[d].target
        BY <3>1 DEF Ordered, Local, Working
      <3>4. \A s \in Slugs : \/ apps'[s] = apps[s] \/ ~apps'[s].live
                             \/ ~Own(c, apps'[s]) /\ apps'[s].prov # loc[c].target
        <4>1. ~NoApp.live
          BY DEF NoApp
        <4>2. QED BY <2>1, <3>1, <3>2, <3>3, <4>1, NameAssumption
      <3>5. QED BY <3>1, <3>4 DEF Own
    <2>5. CASE Live(loc[d].wprov) /\ provs' = [provs EXCEPT ![loc[d].wprov].attached = TRUE]
               /\ UNCHANGED <<made, apps>>
      <3>1. loc[d].wprov \in Pks \cup {NoPk}
        BY DEF TypeOK, Work
      <3>2. QED BY <2>5, <3>1, AttachIs DEF Own
    <2>6. QED BY <1>1, <1>2, <1>3, <1>5, <2>2, <2>3, <2>4, <2>5, EffectIs DEF Effect, Lesser, Points
  <1>6. QED
    BY <1>1, <1>2, <1>3, <1>4, <1>5, HumanEffectIs
    DEF Foreign, HumanEffect, Crash, vars, authentik

\* And to the rest of what is its own.
LEMMA ForeignLeaves ==
  ASSUME TypeOK, NEW c \in CRs, Foreign(c)
  PROVE  /\ api'[c] = api[c] /\ creds'[c] = creds[c]
         /\ \/ pc'[c] = pc[c] /\ loc'[c] = loc[c]
            \/ pc'[c] = "idle" /\ loc'[c] = NoWork /\ faults' < MaxFaults /\ UNCHANGED authentik
         /\ faults' <= faults
  <1>1. faults \in Nat /\ faults <= MaxFaults /\ MaxFaults \in Nat
    BY BoundsAssumption DEF TypeOK
  <1>2. CASE HumanStep \/ UNCHANGED vars
    BY <1>1, <1>2, HumanEffectIs DEF vars
  <1>3. CASE Crash
    BY <1>1, <1>3 DEF Crash, Fault
  <1>4. CASE \E d \in CRs \ {c} : CRStep(d)
    BY <1>4, OneMoves
  <1>5. QED BY <1>2, <1>3, <1>4 DEF Foreign

LEMMA NextIs ==
  ASSUME [Next]_vars, NEW c \in CRs
  PROVE  Foreign(c) \/ CRStep(c)
  BY DEF Next, Foreign, CRStep
-----------------------------------------------------------------------------
(* Credentials.                                                            *)

\* An application of the CR's own that points at a provider of its own.
Pair(c, s) ==
    /\ s # NoId /\ Own(c, apps[s])
    /\ apps[s].prov # NoPk /\ Own(c, provs[apps[s].prov])

Held(c, s) ==
    Pair(c, s) /\ provs[apps[s].prov].kind = "oauth2" => creds[c] = apps[s].prov

\* The application recorded points at the provider dealt with, so that the credentials
\* written are the ones in use; the application just written has them already.
Credited(c) ==
    /\ pc[c] \in Applying \ {"fetched"} /\ Pair(c, loc[c].id)
       => apps[loc[c].id].prov = loc[c].target
    /\ Held(c, loc[c].wapp)
    /\ api[c].phase = "live" => Held(c, api[c].id)
    /\ pc[c] = "application" /\ loc[c].kind = "oauth2" => creds[c] = loc[c].wprov

\* No pair is made, and none changes hands.
NoNewPair(c) ==
    \A s \in Slugs : Pair(c, s)' => Pair(c, s) /\ apps'[s].prov = apps[s].prov

LEMMA PairsKept ==
  ASSUME TypeOK, Ordered, Endures, NEW c \in CRs, NoNewPair(c), creds'[c] = creds[c]
  PROVE  \A s \in Slugs \cup {NoId} : Held(c, s) => Held(c, s)'
  <1>1. SUFFICES ASSUME NEW s \in Slugs, Held(c, s), Pair(c, s)', provs'[apps'[s].prov].kind = "oauth2"
                 PROVE  creds[c] = apps'[s].prov
    BY DEF Held, Pair
  <1>2. Pair(c, s) /\ apps'[s].prov = apps[s].prov
    BY <1>1 DEF NoNewPair
  <1>3. apps[s].prov \in Pks /\ apps[s].prov <= made
    BY <1>2 DEF Pair, TypeOK, App, Ordered, Objects
  <1>4. provs'[apps[s].prov].kind = provs[apps[s].prov].kind
    BY <1>3 DEF Endures
  <1>5. QED BY <1>1, <1>2, <1>4 DEF Held

LEMMA NoNewPairs ==
  ASSUME TypeOK, Ordered, NEW c \in CRs, Lesser(c)
  PROVE  NoNewPair(c)
  <1> USE DEF NoNewPair, Pair, Own
  <1>0. /\ Objects /\ \A s \in Slugs : apps[s] \in App /\ apps[s].prov \in Pks \cup {NoPk}
                                       /\ apps[s].prov <= made
    BY DEF Ordered, Objects, TypeOK, App
  <1>1. CASE UNCHANGED authentik
    BY <1>1 DEF authentik
  <1>2. ASSUME NEW p \in Pks \cup {NoPk}, DeletesProvider(p)
        PROVE  NoNewPair(c)
    <2>1. \A s \in Slugs : /\ apps'[s].live = apps[s].live /\ apps'[s].owner = apps[s].owner
                           /\ apps'[s].prov \in {NoPk, apps[s].prov}
      BY <1>0, <1>2, DeletedIs
    <2>2. \A q \in Pks : provs'[q].owner = provs[q].owner /\ (provs'[q].live => provs[q].live)
      BY <1>0, <1>2, DeletesKeeps
    <2>3. QED BY <1>0, <2>1, <2>2
  <1>3. ASSUME NEW s \in Slugs, apps' = [apps EXCEPT ![s] = NoApp], UNCHANGED <<made, provs>>
        PROVE  NoNewPair(c)
    <2>1. \A t \in Slugs : apps'[t] = apps[t] \/ ~apps'[t].live
      BY <1>3 DEF TypeOK, NoApp
    <2>2. QED BY <1>3, <2>1
  <1>4. CASE loc[c].target # NoPk /\ PatchesProvider(c)
    BY <1>0, <1>4, PatchesIs
  <1>5. CASE CreatesProvider(c)
    <2>1. apps' = apps /\ \A q \in Pks : q # made + 1 => provs'[q] = provs[q]
      BY <1>0, <1>5, CreatesIs
    <2>2. \A s \in Slugs : apps[s].prov # made + 1
      BY <1>0, PkIs, BoundsAssumption DEF TypeOK
    <2>3. QED BY <1>0, <2>1, <2>2
  <1>6. CASE Live(loc[c].wprov) /\ provs' = [provs EXCEPT ![loc[c].wprov].attached = TRUE]
             /\ UNCHANGED <<made, apps>>
    <2>1. loc[c].wprov \in Pks \cup {NoPk}
      BY DEF TypeOK, Work
    <2>2. \A q \in Pks : provs'[q].owner = provs[q].owner /\ provs'[q].live = provs[q].live
      BY <1>6, <2>1, AttachIs
    <2>3. QED BY <1>0, <1>6, <2>2
  <1>7. QED BY <1>1, <1>2, <1>3, <1>4, <1>5, <1>6 DEF Lesser

\* The application is pointed at the provider whose credentials were written.
LEMMA WritesKeepHeld ==
  ASSUME TypeOK, Ordered, NEW c \in CRs, Credited(c), pc[c] = "application",
         WritesApp(c), ~AppRefused(c), loc[c].app = NoId \/ Found(loc[c].app),
         creds'[c] = creds[c]
  PROVE  /\ \A s \in Slugs \cup {NoId} : Held(c, s) => Held(c, s)'
         /\ \A s \in Slugs : s = loc[c].slug => Held(c, s)'
         /\ \A s \in Slugs : s = loc[c].id /\ Pair(c, s)' => apps'[s].prov = loc[c].target
  <1>1. /\ provs' = provs /\ loc[c].slug \in Slugs /\ loc[c].app \in Slugs \cup {NoId}
        /\ apps'[loc[c].slug].prov = loc[c].wprov
        /\ loc[c].app # NoId /\ loc[c].app # loc[c].slug => apps'[loc[c].app] = NoApp
        /\ \A s \in Slugs \ {loc[c].slug, loc[c].app} : apps'[s] = apps[s]
    BY WritesIs DEF Ordered
  <1>2. provs[loc[c].wprov].kind = loc[c].kind /\ loc[c].wprov # NoPk /\ loc[c].wprov = loc[c].target
    BY DEF Ordered, Local, Working
  <1>3. loc[c].kind = "oauth2" => creds[c] = loc[c].wprov
    BY DEF Credited
  <1>4. \A s \in Slugs : apps'[s] = apps[s] \/ ~apps'[s].live \/ s = loc[c].slug
    BY <1>1, NameAssumption DEF NoApp
  <1>5. ASSUME NEW s \in Slugs, s = loc[c].slug PROVE Held(c, s)'
    BY <1>1, <1>2, <1>3, <1>5 DEF Held
  <1>6. ASSUME NEW s \in Slugs, Held(c, s) PROVE Held(c, s)'
    <2>1. CASE s = loc[c].slug
      BY <1>5, <2>1
    <2>2. CASE ~apps'[s].live
      BY <2>2 DEF Held, Pair, Own
    <2>3. CASE apps'[s] = apps[s]
      BY <1>1, <1>6, <2>3 DEF Held, Pair, Own
    <2>4. QED BY <1>4, <2>1, <2>2, <2>3
  <1>7. ASSUME NEW s \in Slugs, s = loc[c].id, Pair(c, s)'
        PROVE  apps'[s].prov = loc[c].target
    <2>1. CASE s = loc[c].slug
      BY <1>1, <1>2, <2>1
    <2>2. CASE apps'[s] = apps[s]
      <3>1. Pair(c, s)
        BY <1>1, <1>7, <2>2 DEF Pair, Own
      <3>2. QED BY <1>7, <2>2, <3>1 DEF Credited, Applying
    <2>3. QED BY <1>4, <1>7, <2>1, <2>2 DEF Pair, Own
  <1>8. Held(c, NoId)'
    BY DEF Held, Pair
  <1>9. QED BY <1>5, <1>6, <1>7, <1>8

\* Its own step keeps it so.
LEMMA CreditedOwn ==
  ASSUME TypeOK, Ordered, NEW c \in CRs, Credited(c), CRStep(c), Endures
  PROVE  Credited(c)'
  <1> USE DEF Applying
  <1>0. /\ Objects /\ Working(c) /\ Counted(c) /\ NoWork.wapp = NoId
        /\ loc[c].id \in Slugs \cup {NoId} /\ loc[c].wapp \in Slugs \cup {NoId}
        /\ api[c].id \in Slugs \cup {NoId} /\ NoId \notin Slugs
        /\ loc[c].slug \in Slugs /\ loc[c].target \in Pks \cup {NoPk}
    BY NoWorkIs, NameAssumption DEF Ordered, Local, TypeOK, Work, Version
  <1>1. Lesser(c) /\ creds'[c] = creds[c] => \A s \in Slugs \cup {NoId} : Held(c, s) => Held(c, s)'
    BY NoNewPairs, PairsKept
  \* The end of a reconcile, and what concerns the CR alone.
  <1>3. ASSUME UNCHANGED <<authentik, creds>> PROVE \A s \in Slugs \cup {NoId} : Held(c, s) => Held(c, s)'
    BY <1>3 DEF Held, Pair, authentik
  <1>4. CASE UserStep(c) \/ AddFinalizer(c) \/ Deliver(c) \/ Publish(c) \/ RemoveFinalizer(c)
    <2>1. UNCHANGED <<authentik, creds>>
      BY <1>4 DEF UserStep, UserCreates, UserEdits, UserDeletes, AddFinalizer, Deliver, Publish,
                  RemoveFinalizer
    <2>2. \/ pc'[c] = pc[c] /\ loc'[c] = loc[c]
          \/ pc'[c] = "idle" /\ loc'[c] = NoWork
      BY <1>4 DEF UserStep, UserCreates, UserEdits, UserDeletes, AddFinalizer, Deliver, Publish,
                  RemoveFinalizer, Goto, TypeOK
    <2>3. api'[c].phase = "live" => \/ api[c].phase = "live" /\ api'[c].id = api[c].id
                                    \/ api'[c].id = loc[c].wapp \/ api'[c].id = NoId
      BY ApiIs
    <2>4. Held(c, NoId)
      BY DEF Held, Pair
    <2>5. api'[c].phase = "live" => Held(c, api[c].id)' 
      <3>1. SUFFICES ASSUME api'[c].phase = "live", NEW s, s = api'[c].id PROVE Held(c, s)'
        OBVIOUS
      <3>2. s \in Slugs \cup {NoId} /\ Held(c, s)
        BY <1>0, <2>3, <2>4, <3>1 DEF Credited
      <3>3. QED BY <1>3, <2>1, <3>2
    <2>6. Held(c, loc[c].wapp)'
      <3>1. SUFFICES ASSUME NEW s, s = loc'[c].wapp PROVE Held(c, s)'
        OBVIOUS
      <3>2. s \in Slugs \cup {NoId} /\ Held(c, s)
        BY <1>0, <2>2, <2>4, <3>1 DEF Credited
      <3>3. QED BY <1>3, <2>1, <3>2
    <2>7. QED BY <2>1, <2>2, <2>5, <2>6 DEF Credited, Pair, authentik
  \* Steps that make no pair and write no credentials, and what they must bring.
  <1>5. ASSUME Lesser(c), UNCHANGED <<api, creds>>, loc'[c].wapp \in {loc[c].wapp, NoId},
               pc'[c] \in Applying \ {"fetched"} =>
                  \A s \in Slugs : s = loc'[c].id /\ Pair(c, s)' => apps'[s].prov = loc'[c].target,
               pc'[c] = "application" /\ loc'[c].kind = "oauth2" => creds[c] = loc'[c].wprov
        PROVE  Credited(c)'
    <2>1. \A s \in Slugs \cup {NoId} : Held(c, s) => Held(c, s)'
      BY <1>1, <1>5
    <2>2. Held(c, NoId) /\ Held(c, loc[c].wapp) /\ (api[c].phase = "live" => Held(c, api[c].id))
      BY DEF Credited, Held, Pair
    <2>3. Held(c, loc[c].wapp)'
      <3>1. SUFFICES ASSUME NEW s, s = loc'[c].wapp PROVE Held(c, s)'
        OBVIOUS
      <3>2. QED BY <1>0, <1>5, <2>1, <2>2, <3>1
    <2>4. api'[c].phase = "live" => Held(c, api[c].id)'
      <3>1. SUFFICES ASSUME api'[c].phase = "live", NEW s, s = api'[c].id PROVE Held(c, s)'
        OBVIOUS
      <3>2. QED BY <1>0, <1>5, <2>1, <2>2, <3>1
    <2>5. pc'[c] \in Applying \ {"fetched"} /\ Pair(c, loc[c].id)'
          => apps'[loc'[c].id].prov = loc'[c].target
      <3>1. SUFFICES ASSUME pc'[c] \in Applying \ {"fetched"}, NEW s, s = loc'[c].id, Pair(c, s)'
                     PROVE  apps'[s].prov = loc'[c].target
        OBVIOUS
      <3>2. s \in Slugs
        <4>1. TypeOK'
          BY NextTypes DEF Next, CRStep
        <4>2. QED BY <3>1, <4>1 DEF Pair, TypeOK, Work
      <3>3. QED BY <1>5, <3>1, <3>2
    <2>6. QED BY <1>5, <2>3, <2>4, <2>5 DEF Credited
  \* From one application step to the next, the provider dealt with being the same.
  <1>6. ASSUME Lesser(c), pc[c] \in Applying \ {"fetched"}, NEW s \in Slugs, s = loc[c].id,
               Pair(c, s)'
        PROVE  Pair(c, s) /\ apps[s].prov = loc[c].target /\ apps'[s].prov = apps[s].prov
    BY <1>6, NoNewPairs DEF NoNewPair, Credited
  <1>7. CASE Fetch(c) \/ Cleanup(c) \/ CleanupReads(c)
    <2>1. UNCHANGED <<api, creds>> /\ loc'[c].wapp \in {loc[c].wapp, NoId}
          /\ pc'[c] \notin Applying \ {"fetched"} /\ Lesser(c)
      BY <1>7, FetchIs, CleanupIs, CleanupReadsIs DEF Fetched, Lesser
    <2>2. QED BY <1>5, <2>1
  <1>8. CASE GetApplication(c)
    <2>1. ASSUME NEW s \in Slugs, s = loc[c].id, Pair(c, s)'
          PROVE  apps'[s].prov = loc'[c].target
      <3>1. Pair(c, s) /\ apps' = apps
        BY <1>8, <2>1, GetIs DEF authentik, Pair
      <3>2. QED BY <1>8, <2>1, <3>1, GetIs DEF ExistingProvider, Pair, Own, Found
    <2>2. QED BY <1>5, <1>8, <2>1, GetIs DEF Lesser, AfterGet, Fetched
  <1>9. CASE ReplaceProvider(c) \/ DiscardProvider(c)
    <2>1. Lesser(c) /\ pc[c] \in {"replace", "discard"}
      BY <1>9, DropIs DEF Lesser, ReplaceProvider, DiscardProvider
    <2>2. ASSUME NEW s \in Slugs, s = loc[c].id, Pair(c, s)'
          PROVE  FALSE
      <3>1. apps'[s].prov = loc[c].target /\ loc[c].target # NoPk /\ loc[c].target \in Pks
        BY <1>0, <1>6, <2>1, <2>2 DEF Pair
      <3>2. ~provs'[loc[c].target].live
        BY <1>0, <1>9, <3>1, DropIs, DeletesKeeps
      <3>3. QED BY <2>2, <3>1, <3>2 DEF Pair, Own
    <2>3. QED BY <1>5, <1>9, <2>1, <2>2, DropIs DEF Fetched
  <1>10. CASE PatchProvider(c)
    <2>1. Lesser(c) /\ pc[c] = "provider"
      BY <1>10, PatchIs DEF Lesser
    <2>2. QED BY <1>5, <1>6, <1>10, <2>1, PatchIs DEF Fetched, Provided
  <1>11. CASE CreateProvider(c)
    <2>1. Lesser(c) /\ pc[c] = "provider" /\ loc[c].target = NoPk
      BY <1>11, CreateIs DEF Lesser
    <2>2. ASSUME NEW s \in Slugs, s = loc[c].id, Pair(c, s)'
          PROVE  FALSE
      BY <1>6, <2>1, <2>2 DEF Pair
    <2>3. QED BY <1>5, <1>11, <2>1, <2>2, CreateIs DEF Fetched, Provided
  <1>12. CASE WriteCredentials(c)
    <2>1. /\ pc[c] = "credentials" /\ pc'[c] = "application" /\ loc'[c] = loc[c]
          /\ creds'[c] = loc[c].wprov /\ UNCHANGED <<api, authentik>>
      BY <1>12 DEF WriteCredentials, Goto, TypeOK
    <2>2. loc[c].wapp = NoId /\ loc[c].wprov = loc[c].target /\ loc[c].id = api[c].id
      BY <1>0, <2>1 DEF Working, Applies
    <2>3. \A s \in Slugs \cup {NoId} : Pair(c, s)' <=> Pair(c, s)
      BY <2>1 DEF Pair, authentik
    <2>4. \A s : s = loc[c].id /\ Pair(c, s) => apps[s].prov = loc[c].target
      BY <2>1 DEF Credited
    <2>5. Held(c, api[c].id)'
      <3>1. SUFFICES ASSUME NEW s, s = api'[c].id PROVE Held(c, s)'
        OBVIOUS
      <3>2. QED BY <1>0, <2>1, <2>2, <2>3, <2>4, <3>1 DEF Held, authentik
    <2>6. Held(c, loc[c].wapp)'
      <3>1. SUFFICES ASSUME NEW s, s = loc'[c].wapp PROVE Held(c, s)'
        OBVIOUS
      <3>2. QED BY <2>1, <2>2, <3>1 DEF Held, Pair
    <2>7. Pair(c, loc[c].id)' => apps'[loc'[c].id].prov = loc'[c].target
      <3>1. SUFFICES ASSUME NEW s, s = loc'[c].id, Pair(c, s)' PROVE apps'[s].prov = loc'[c].target
        OBVIOUS
      <3>2. QED BY <1>0, <2>1, <2>3, <2>4, <3>1 DEF authentik
    <2>8. QED BY <2>1, <2>5, <2>6, <2>7 DEF Credited
  \* The write of the application, answered or not.
  <1>13. ASSUME Points(c), pc[c] = "application", UNCHANGED <<api, creds>>, Fetched(c),
                loc'[c].target = loc[c].target, loc'[c].wapp \in {loc[c].wapp, loc[c].slug},
                pc'[c] # "application"
         PROVE  Credited(c)'
    <2>1. /\ \A s \in Slugs \cup {NoId} : Held(c, s) => Held(c, s)'
          /\ \A s \in Slugs : s = loc[c].slug => Held(c, s)'
          /\ \A s \in Slugs : s = loc[c].id /\ Pair(c, s)' => apps'[s].prov = loc[c].target
      BY <1>13, WritesKeepHeld DEF Points
    <2>2. Held(c, loc[c].wapp)'
      <3>1. SUFFICES ASSUME NEW s, s = loc'[c].wapp PROVE Held(c, s)'
        OBVIOUS
      <3>2. QED BY <1>0, <1>13, <2>1, <3>1 DEF Credited
    <2>3. api'[c].phase = "live" => Held(c, api[c].id)'
      <3>1. SUFFICES ASSUME api'[c].phase = "live", NEW s, s = api'[c].id PROVE Held(c, s)'
        OBVIOUS
      <3>2. QED BY <1>0, <1>13, <2>1, <3>1 DEF Credited
    <2>4. Pair(c, loc[c].id)' => apps'[loc'[c].id].prov = loc'[c].target
      <3>1. SUFFICES ASSUME NEW s, s = loc'[c].id, Pair(c, s)' PROVE apps'[s].prov = loc'[c].target
        OBVIOUS
      <3>2. QED BY <1>0, <1>13, <2>1, <3>1 DEF Fetched, Pair
    <2>5. QED BY <1>13, <2>2, <2>3, <2>4 DEF Credited
  <1>14. CASE UpsertApplication(c)
    <2>1. CASE loc'[c] = loc[c] /\ pc'[c] = "failed" /\ UNCHANGED authentik
      BY <1>5, <1>14, <2>1, UpsertIs DEF Lesser
    <2>2. CASE Points(c)
      BY <1>13, <1>14, <2>1, <2>2, UpsertIs
    <2>3. QED BY <1>14, <2>1, <2>2, UpsertIs DEF Points
  <1>15. CASE AttachOutpost(c)
    <2>1. /\ loc'[c] = loc[c] /\ pc'[c] \in {"synced", "failed"} /\ UNCHANGED <<api, creds>>
          /\ Lesser(c)
      BY <1>15 DEF AttachOutpost, Goto, TypeOK, Lesser, authentik
    <2>2. QED BY <1>5, <2>1
  <1>16. CASE \/ CleanupProvider(c) \/ CleanupRecord(c) \/ CleanupApplication(c)
              \/ CleanupCredentials(c)
    <2>0. loc[c].prov \in Pks \cup {NoPk} /\ loc[c].app \in Slugs \cup {NoId}
      BY DEF TypeOK, Work
    <2>1. /\ loc'[c] = loc[c] /\ UNCHANGED api /\ pc'[c] \notin Applying /\ Lesser(c)
          /\ pc[c] \in Cleaning
      BY <1>0, <1>16, <2>0, CleaningIs DEF Lesser, authentik, Cleaning
    <2>2. CASE creds' = creds
      BY <1>5, <2>1, <2>2
    <2>3. CASE pc[c] = "its_credentials"
      <3>1. api'[c].phase # "live" /\ loc'[c].wapp = NoId
        BY <1>0, <2>1, <2>3 DEF Working, Cleans, Cleaning
      <3>2. QED BY <2>1, <3>1 DEF Credited, Held, Pair
    <2>4. QED BY <1>16, <2>2, <2>3, CleaningIs
  <1>17. CASE FaultStep(c)
    <2>1. CASE Points(c) /\ pc[c] = "application" /\ loc'[c] = loc[c] /\ pc'[c] = "failed"
      BY <1>13, <1>17, <2>1, FaultIs DEF Fetched
    <2>2. ASSUME Lesser(c) PROVE Credited(c)'
      <3>1. /\ UNCHANGED <<api, creds>> /\ pc'[c] \in {"idle", "failed"}
            /\ loc'[c].wapp \in {loc[c].wapp, NoId}
        BY <1>0, <1>17, FaultIs
      <3>2. QED BY <1>5, <2>2, <3>1
    <2>3. CASE UNCHANGED authentik \/ CreatesProvider(c)
      BY <2>2, <2>3 DEF Lesser
    <2>4. QED BY <1>17, <2>1, <2>3, FaultIs DEF Points
  <1>18. QED
    BY <1>4, <1>7, <1>8, <1>9, <1>10, <1>11, <1>12, <1>14, <1>15, <1>16, <1>17
    DEF CRStep, StartStep, ApplyStep, CleanupStep

\* Nor does anyone else bring a pair about.
LEMMA CreditedForeign ==
  ASSUME TypeOK, Ordered, Apart, NEW c \in CRs, Credited(c), Foreign(c), Endures
  PROVE  Credited(c)'
  <1>0. /\ loc[c].wapp \in Slugs \cup {NoId} /\ api[c].id \in Slugs \cup {NoId}
        /\ loc[c].id \in Slugs \cup {NoId} /\ NoWork.wapp = NoId
    BY NoWorkIs DEF TypeOK, Work, Version
  <1>1. /\ api'[c] = api[c] /\ creds'[c] = creds[c]
        /\ \/ pc'[c] = pc[c] /\ loc'[c] = loc[c]
           \/ pc'[c] = "idle" /\ loc'[c] = NoWork
    BY ForeignLeaves
  <1>2. NoNewPair(c)
    <2>1. SUFFICES ASSUME NEW s \in Slugs, Pair(c, s)'
                   PROVE  Pair(c, s) /\ apps'[s].prov = apps[s].prov
      BY DEF NoNewPair
    <2>2. Own(c, apps'[s]) /\ apps'[s].prov # NoPk /\ Own(c, provs'[apps'[s].prov])
      BY <2>1 DEF Pair
    <2>3. Own(c, apps[s]) /\ apps'[s].prov = apps[s].prov
      BY <2>2, ForeignKeeps
    <2>4. apps[s].prov \in Pks
      BY <2>2, <2>3 DEF TypeOK, App
    <2>5. Own(c, provs[apps[s].prov])
      BY <2>2, <2>3, <2>4, ForeignKeeps
    <2>6. QED BY <2>1, <2>2, <2>3, <2>5 DEF Pair
  <1>3. \A s \in Slugs \cup {NoId} : Held(c, s) => Held(c, s)'
    BY <1>1, <1>2, PairsKept
  <1>4. Held(c, NoId) /\ Held(c, loc[c].wapp) /\ (api[c].phase = "live" => Held(c, api[c].id))
    BY DEF Credited, Held, Pair
  <1>5. Held(c, loc[c].wapp)'
    <2>1. SUFFICES ASSUME NEW s, s = loc'[c].wapp PROVE Held(c, s)'
      OBVIOUS
    <2>2. QED BY <1>0, <1>1, <1>3, <1>4, <2>1
  <1>6. api'[c].phase = "live" => Held(c, api[c].id)'
    <2>1. SUFFICES ASSUME api'[c].phase = "live", NEW s, s = api'[c].id PROVE Held(c, s)'
      OBVIOUS
    <2>2. QED BY <1>0, <1>1, <1>3, <1>4, <2>1
  <1>7. pc'[c] \in Applying \ {"fetched"} /\ Pair(c, loc[c].id)'
        => apps'[loc'[c].id].prov = loc'[c].target
    <2>1. SUFFICES ASSUME pc'[c] \in Applying \ {"fetched"}, NEW s, s = loc'[c].id, Pair(c, s)'
                   PROVE  apps'[s].prov = loc'[c].target
      OBVIOUS
    <2>2. pc'[c] = pc[c] /\ loc'[c] = loc[c]
      BY <1>1, <2>1 DEF Applying
    <2>3. s \in Slugs /\ Pair(c, s) /\ apps'[s].prov = apps[s].prov
      BY <1>0, <1>2, <2>1, <2>2 DEF NoNewPair, Pair
    <2>4. QED BY <2>1, <2>2, <2>3 DEF Credited
  <1>8. pc'[c] = "application" /\ loc'[c].kind = "oauth2" => creds'[c] = loc'[c].wprov
    BY <1>1 DEF Credited
  <1>9. QED BY <1>5, <1>6, <1>7, <1>8 DEF Credited

\* For every number of slugs, generations, providers, faults and interventions, while CRs
\* do not meet: the application a live CR records never points at an oauth2 provider of
\* the CR's own whose credentials its consumers do not hold.
THEOREM CredentialsFirst == Spec /\ []Apart => []CredentialsPrecedeUse
  <1> DEFINE Credits == \A c \in CRs : Credited(c)
  <1>1. Init => Credits
    <2>1. SUFFICES ASSUME Init, NEW c \in CRs PROVE Credited(c)
      OBVIOUS
    <2>2. pc[c] = "idle" /\ loc[c].wapp = NoId /\ api[c].phase = "absent"
      BY <2>1, NoWorkIs DEF Init, Blank
    <2>3. QED BY <2>2 DEF Credited, Held, Pair, Applying
  <1>2. TypeOK /\ Ordered /\ Apart /\ Credits /\ [Next]_vars => Credits'
    <2>1. SUFFICES ASSUME TypeOK, Ordered, Apart, Credits, [Next]_vars, NEW c \in CRs
                   PROVE  Credited(c)'
      OBVIOUS
    <2>2. Endures
      BY <2>1, EffectIsStep DEF Ordered
    <2>3. QED BY <2>1, <2>2, NextIs, CreditedOwn, CreditedForeign
  <1>3. TypeOK /\ Credits => CredentialsPrecedeUse
    BY DEF CredentialsPrecedeUse, Credited, Held, Pair, Own, Found
  <1>4. QED BY <1>1, <1>2, <1>3, AlwaysOrdered, PTL DEF Spec
-----------------------------------------------------------------------------
(* What a CR made.                                                         *)

\* The provider of the CR's own, the only one, is the one at hand, else the one recorded.
OneProvider(c) ==
    \A p \in Pks : Own(c, provs[p]) =>
        /\ provs[p].name = c
        /\ p = IF loc[c].wprov # NoPk THEN loc[c].wprov ELSE api[c].prov
\* So is its application, and a reconcile that found none has none to find.
OneApp(c) ==
    /\ \A s \in Slugs : Own(c, apps[s]) =>
          s = IF loc[c].wapp # NoId THEN loc[c].wapp ELSE api[c].id
    /\ pc[c] \in Applying \ {"fetched"} /\ loc[c].wapp = NoId /\ loc[c].app = NoId
       => \A s \in Slugs : ~Own(c, apps[s])
Tracked(c) == OneProvider(c) /\ OneApp(c)

\* The lesser effects make no application, and no provider but the one they create.
LEMMA LesserMakes ==
  ASSUME TypeOK, Ordered, NEW c \in CRs, Lesser(c)
  PROVE  /\ \A s \in Slugs : Own(c, apps'[s]) => Own(c, apps[s])
         /\ \/ CreatesProvider(c)
            \/ \A p \in Pks : Own(c, provs'[p]) =>
                  Own(c, provs[p]) /\ provs'[p].name \in {provs[p].name, c}
  <1> DEFINE Goal == /\ \A s \in Slugs : Own(c, apps'[s]) => Own(c, apps[s])
                     /\ \A p \in Pks : Own(c, provs'[p]) =>
                           Own(c, provs[p]) /\ provs'[p].name \in {provs[p].name, c}
  <1>0. Objects
    BY DEF Ordered
  <1>1. CASE UNCHANGED authentik
    BY <1>1 DEF authentik
  <1>2. ASSUME NEW p \in Pks \cup {NoPk}, DeletesProvider(p)
        PROVE  Goal
    <2>1. QED BY <1>0, <1>2, DeletesKeeps, DeletedIs DEF Own
  <1>3. ASSUME NEW s \in Slugs, apps' = [apps EXCEPT ![s] = NoApp], UNCHANGED <<made, provs>>
        PROVE  Goal
    <2>1. \A t \in Slugs : apps'[t] = apps[t] \/ ~apps'[t].live
      BY <1>3 DEF TypeOK, NoApp
    <2>2. QED BY <1>3, <2>1 DEF Own
  <1>4. CASE loc[c].target # NoPk /\ PatchesProvider(c)
    BY <1>4, PatchesIs DEF Own
  <1>5. CASE CreatesProvider(c)
    BY <1>5 DEF CreatesProvider
  <1>6. CASE Live(loc[c].wprov) /\ provs' = [provs EXCEPT ![loc[c].wprov].attached = TRUE]
             /\ UNCHANGED <<made, apps>>
    <2>1. loc[c].wprov \in Pks \cup {NoPk}
      BY DEF TypeOK, Work
    <2>2. QED BY <1>6, <2>1, AttachIs DEF Own
  <1>7. QED BY <1>1, <1>2, <1>3, <1>4, <1>5, <1>6 DEF Lesser

\* What a CR records changes when a reconcile publishes, and only then.
LEMMA PublishIs ==
  ASSUME TypeOK, NEW c \in CRs, Publish(c), Present(api[c])
  PROVE  /\ pc[c] \in {"synced", "failed"} /\ pc'[c] = "idle" /\ loc'[c] = NoWork
         /\ UNCHANGED <<authentik, creds, faults>>
         /\ api'[c].phase = api[c].phase /\ api'[c].fin = api[c].fin
         /\ api'[c].id = IF loc[c].wapp # NoId THEN loc[c].wapp ELSE api[c].id
         /\ api'[c].prov = IF loc[c].wprov # NoPk THEN loc[c].wprov ELSE api[c].prov
  <1>1. api'[c] = Recorded(c) /\ api[c] \in Version
    BY DEF Publish, Write, TypeOK
  <1>2. /\ Recorded(c).phase = api[c].phase /\ Recorded(c).fin = api[c].fin
        /\ Recorded(c).id = (IF loc[c].wapp # NoId THEN loc[c].wapp ELSE api[c].id)
        /\ Recorded(c).prov = (IF loc[c].wprov # NoPk THEN loc[c].wprov ELSE api[c].prov)
    BY <1>1 DEF Recorded, Version
  <1>3. QED BY <1>1, <1>2 DEF Publish, Goto, TypeOK

LEMMA BetweenIs ==
  ASSUME TypeOK, NEW c \in CRs, Working(c),
         UserStep(c) \/ AddFinalizer(c) \/ RemoveFinalizer(c) \/ Deliver(c)
  PROVE  /\ UNCHANGED <<authentik, creds, faults>>
         /\ api'[c].id = api[c].id /\ api'[c].prov = api[c].prov
         /\ \/ pc'[c] = pc[c] /\ loc'[c] = loc[c]
            \/ pc[c] = "cleaned" /\ pc'[c] = "idle" /\ loc'[c] = NoWork
         /\ loc'[c].wprov = loc[c].wprov /\ loc'[c].wapp = loc[c].wapp
  <1>1. UNCHANGED <<authentik, creds, faults>>
    BY DEF UserStep, UserCreates, UserEdits, UserDeletes, AddFinalizer, RemoveFinalizer, Deliver
  <1>2. \/ pc'[c] = pc[c] /\ loc'[c] = loc[c]
        \/ pc[c] = "cleaned" /\ pc'[c] = "idle" /\ loc'[c] = NoWork
    BY DEF UserStep, UserCreates, UserEdits, UserDeletes, AddFinalizer, RemoveFinalizer, Deliver,
           Goto, TypeOK
  <1>3. CRStep(c)
    BY DEF CRStep, StartStep, CleanupStep
  <1>4. api'[c].id = api[c].id /\ api'[c].prov = api[c].prov
    BY <1>2, <1>3, ApiIs DEF Working
  <1>5. pc[c] = "cleaned" => loc[c].wprov = NoPk /\ loc[c].wapp = NoId
    BY DEF Working, Cleans
  <1>6. QED BY <1>1, <1>2, <1>4, <1>5, NoWorkIs

LEMMA OneProviderKept ==
  ASSUME TypeOK, Ordered, NEW c \in CRs, OneProvider(c), CRStep(c), faults' = MaxFaults
  PROVE  OneProvider(c)'
  <1> DEFINE Hand == IF loc[c].wprov # NoPk THEN loc[c].wprov ELSE api[c].prov
  <1>0. /\ Objects /\ Working(c) /\ NoWork.wprov = NoPk
        /\ loc[c].target \in Pks \cup {NoPk}
    BY NoWorkIs DEF Ordered, Local, TypeOK, Work
  <1>1. ASSUME Lesser(c), ~CreatesProvider(c), Hand' = Hand
        PROVE  OneProvider(c)'
    BY <1>1, LesserMakes DEF OneProvider
  <1>2. ASSUME Points(c), Hand' = Hand
        PROVE  OneProvider(c)'
    BY <1>2 DEF OneProvider, Points, WritesApp
  <1>3. ASSUME UNCHANGED authentik, Hand' = Hand
        PROVE  OneProvider(c)'
    BY <1>3 DEF OneProvider, authentik
  \* The provider at hand from now on is the only one that may bear the CR's name.
  <1>4. CASE PatchProvider(c)
    <2>1. CASE loc'[c] = loc[c] /\ UNCHANGED authentik
      BY <1>3, <1>4, <2>1, PatchIs
    <2>2. CASE ~NameTaken(c, loc[c].target) /\ PatchesProvider(c) /\ Provided(c, loc[c].target)
      <3>1. loc[c].target # NoPk
        BY <1>4, PatchIs
      <3>2. ASSUME NEW p \in Pks, Own(c, provs'[p])
            PROVE  provs'[p].name = c /\ p = loc[c].target
        BY <2>2, <3>1, <3>2, PatchesIs DEF OneProvider, Own, NameTaken
      <3>3. QED BY <2>2, <3>1, <3>2 DEF OneProvider, Provided
    <2>3. QED BY <1>4, <2>1, <2>2, PatchIs
  <1>5. CASE CreateProvider(c)
    <2>1. CASE loc'[c] = loc[c] /\ UNCHANGED authentik
      BY <1>3, <1>5, <2>1, CreateIs
    <2>2. CASE ~NameTaken(c, NoPk) /\ CreatesProvider(c) /\ Provided(c, made + 1)
      <3>1. /\ made + 1 \in Pks /\ \A q \in Pks : q # made + 1 => provs'[q] = provs[q]
            /\ provs'[made + 1] = [owner |-> c, name |-> c, kind |-> loc[c].kind,
                                   attached |-> FALSE, live |-> TRUE]
        BY <1>0, <2>2, CreatesIs
      <3>2. \A q \in Pks : ~Own(c, provs[q])
        BY <2>2, PkIs DEF OneProvider, Own, NameTaken
      <3>3. made + 1 # NoPk
        BY <3>1, PkIs
      <3>4. ASSUME NEW p \in Pks, Own(c, provs'[p])
            PROVE  provs'[p].name = c /\ p = made + 1
        BY <3>1, <3>2, <3>4
      <3>5. QED BY <2>2, <3>3, <3>4 DEF OneProvider, Provided
    <2>3. QED BY <1>5, <2>1, <2>2, CreateIs
  \* The other steps of an apply leave it at hand.
  <1>6. CASE Fetch(c)
    BY <1>0, <1>3, <1>6, FetchIs DEF Working
  <1>7. CASE GetApplication(c)
    BY <1>3, <1>7, GetIs
  <1>8. CASE ReplaceProvider(c) \/ DiscardProvider(c)
    <2>1. Hand' = Hand /\ Lesser(c) /\ ~CreatesProvider(c)
      <3>1. DeletesProvider(loc[c].target) /\ made \in Nat
        BY <1>8, DropIs, BoundsAssumption DEF TypeOK
      <3>2. ~CreatesProvider(c)
        BY <3>1 DEF DeletesProvider, CreatesProvider
      <3>3. QED BY <1>8, <3>2, DropIs DEF Lesser
    <2>2. QED BY <1>1, <2>1
  <1>9. CASE WriteCredentials(c)
    <2>1. UNCHANGED <<api, authentik>> /\ loc'[c] = loc[c]
      BY <1>9 DEF WriteCredentials, Goto, TypeOK
    <2>2. QED BY <1>3, <2>1
  <1>10. CASE UpsertApplication(c)
    BY <1>2, <1>3, <1>10, UpsertIs DEF Points
  <1>11. CASE AttachOutpost(c)
    <2>1. Hand' = Hand /\ Lesser(c) /\ ~CreatesProvider(c)
      <3>1. UNCHANGED <<api, made>> /\ loc'[c] = loc[c] /\ made \in Nat /\ Lesser(c)
        BY <1>11, BoundsAssumption DEF AttachOutpost, Goto, TypeOK, Lesser, authentik
      <3>2. QED BY <3>1 DEF CreatesProvider
    <2>2. QED BY <1>1, <2>1
  <1>12. CASE Cleanup(c)
    BY <1>0, <1>3, <1>12, CleanupIs DEF Working
  <1>13. CASE CleanupReads(c)
    BY <1>3, <1>13, CleanupReadsIs DEF Fetched
  <1>14. CASE \/ CleanupProvider(c) \/ CleanupRecord(c) \/ CleanupApplication(c)
              \/ CleanupCredentials(c)
    <2>1. loc[c].prov \in Pks \cup {NoPk} /\ loc[c].app \in Slugs \cup {NoId} /\ made \in Nat
      BY BoundsAssumption DEF TypeOK, Work
    <2>2. Hand' = Hand /\ Lesser(c)
      BY <1>0, <1>14, <2>1, CleaningIs DEF Lesser, authentik
    <2>3. ~CreatesProvider(c)
      <3>1. made' = made
        BY <1>14, CleaningIs DEF DeletesProvider, authentik
      <3>2. QED BY <2>1, <3>1 DEF CreatesProvider
    <2>4. QED BY <1>1, <2>2, <2>3
  <1>15. CASE FaultStep(c)
    <2>1. faults' < MaxFaults
      BY <1>15, FaultIs
    <2>2. QED BY <2>1, BoundsAssumption
  <1>16. CASE UserStep(c) \/ AddFinalizer(c) \/ RemoveFinalizer(c) \/ Deliver(c)
    <2>1. UNCHANGED authentik /\ loc'[c].wprov = loc[c].wprov
      BY <1>0, <1>16, BetweenIs
    <2>2. api'[c].prov = api[c].prov
      BY <1>0, <1>16, BetweenIs
    <2>3. QED BY <1>3, <2>1, <2>2
  <1>17. CASE Publish(c)
    <2>1. Present(api[c])
      BY <1>0, <1>17 DEF Publish, Working, Applies
    <2>2. QED BY <1>0, <1>3, <1>17, <2>1, PublishIs
  <1>18. QED
    BY <1>4, <1>5, <1>6, <1>7, <1>8, <1>9, <1>10, <1>11, <1>12, <1>13, <1>14, <1>15, <1>16,
       <1>17
    DEF CRStep, StartStep, ApplyStep, CleanupStep

LEMMA OneAppKept ==
  ASSUME TypeOK, Ordered, NEW c \in CRs, OneApp(c), CRStep(c), faults' = MaxFaults
  PROVE  OneApp(c)'
  <1> USE DEF Applying
  <1> DEFINE Hand == IF loc[c].wapp # NoId THEN loc[c].wapp ELSE api[c].id
  <1>0. /\ Working(c) /\ NoWork.wapp = NoId /\ NoId \notin Slugs
        /\ loc[c].slug \in Slugs /\ loc[c].app \in Slugs \cup {NoId}
        /\ loc[c].prov \in Pks \cup {NoPk} /\ loc[c].target \in Pks \cup {NoPk}
    BY NoWorkIs, NameAssumption DEF Ordered, Local, TypeOK, Work
  \* Nothing is made, and nothing is thought missing that was not.
  <1>1. ASSUME Lesser(c), Hand' = Hand,
               \/ pc'[c] \notin Applying \ {"fetched"}
               \/ /\ pc[c] \in Applying \ {"fetched"}
                  /\ loc'[c].app = loc[c].app /\ loc'[c].wapp = loc[c].wapp
        PROVE  OneApp(c)'
    BY <1>1, LesserMakes DEF OneApp
  <1>2. CASE GetApplication(c)
    <2>1. /\ pc[c] = "fetched" /\ UNCHANGED <<api, authentik>> /\ loc'[c].wapp = loc[c].wapp
          /\ loc'[c].app = IF Found(loc[c].id) THEN loc[c].id ELSE NoId
      BY <1>2, GetIs
    <2>2. loc[c].wapp = NoId /\ loc[c].id = api[c].id
      BY <1>0, <2>1 DEF Working, Applies
    <2>3. ASSUME loc'[c].app = NoId, NEW s \in Slugs
          PROVE  ~Own(c, apps[s])
      <3>1. ~Found(loc[c].id)
        BY <2>1, <2>3 DEF Found
      <3>2. Own(c, apps[s]) => s = loc[c].id
        BY <2>2 DEF OneApp
      <3>3. QED BY <1>0, <3>1, <3>2 DEF Own, Found
    <2>4. QED BY <2>1, <2>3 DEF OneApp, authentik
  <1>3. CASE UpsertApplication(c)
    <2>1. CASE loc'[c] = loc[c] /\ pc'[c] = "failed" /\ UNCHANGED authentik
      BY <1>1, <1>3, <2>1, UpsertIs DEF Lesser
    <2>2. CASE Points(c) /\ loc'[c].wapp = loc[c].slug
      <3>1. /\ loc[c].app # NoId /\ loc[c].app # loc[c].slug => apps'[loc[c].app] = NoApp
            /\ \A s \in Slugs \ {loc[c].slug, loc[c].app} : apps'[s] = apps[s]
        BY <2>2, WritesIs DEF Points, Ordered
      <3>2. pc[c] = "application" /\ loc[c].wapp = NoId
        BY <1>0, <1>3, UpsertIs DEF Working
      <3>3. \A s \in Slugs : Own(c, apps[s]) => s = loc[c].app
        <4>1. loc[c].app # NoId => loc[c].app = api[c].id
          BY <1>0, <3>2 DEF Working, Applies
        <4>2. QED BY <3>2, <4>1 DEF OneApp
      <3>4. ~Own(c, NoApp)
        BY DEF Own, NoApp
      <3>5. \A s \in Slugs : Own(c, apps'[s]) => s = loc[c].slug
        BY <1>0, <3>1, <3>3, <3>4
      <3>6. QED BY <1>0, <2>2, <3>5 DEF OneApp
    <2>3. QED BY <1>3, <2>1, <2>2, UpsertIs DEF Points
  \* The other steps.
  <1>4. CASE Fetch(c)
    BY <1>0, <1>1, <1>4, FetchIs DEF Working, Lesser
  <1>5. CASE ReplaceProvider(c) \/ DiscardProvider(c)
    BY <1>0, <1>1, <1>5, DropIs DEF Lesser, ReplaceProvider, DiscardProvider
  <1>6. CASE PatchProvider(c)
    BY <1>1, <1>6, PatchIs DEF Lesser, Provided
  <1>7. CASE CreateProvider(c)
    BY <1>1, <1>7, CreateIs DEF Lesser, Provided
  <1>8. CASE WriteCredentials(c) \/ AttachOutpost(c)
    <2>1. /\ UNCHANGED api /\ loc'[c] = loc[c] /\ Lesser(c)
          /\ pc[c] \in {"credentials", "attach"}
      BY <1>8 DEF WriteCredentials, AttachOutpost, Goto, TypeOK, Lesser, authentik
    <2>2. QED BY <1>1, <2>1
  <1>9. CASE Cleanup(c) \/ CleanupReads(c)
    BY <1>0, <1>1, <1>9, CleanupIs, CleanupReadsIs DEF Working, Lesser
  <1>10. CASE \/ CleanupProvider(c) \/ CleanupRecord(c) \/ CleanupApplication(c)
              \/ CleanupCredentials(c)
    <2>1. Lesser(c) /\ UNCHANGED api /\ loc'[c] = loc[c] /\ pc'[c] \notin Applying
      BY <1>0, <1>10, CleaningIs DEF Lesser, authentik
    <2>2. QED BY <1>1, <2>1
  <1>11. CASE FaultStep(c)
    <2>1. faults' < MaxFaults
      BY <1>11, FaultIs
    <2>2. QED BY <2>1, BoundsAssumption
  <1>12. CASE UserStep(c) \/ AddFinalizer(c) \/ RemoveFinalizer(c) \/ Deliver(c)
    BY <1>0, <1>1, <1>12, BetweenIs DEF Lesser
  <1>13. CASE Publish(c)
    <2>1. Present(api[c])
      BY <1>0, <1>13 DEF Publish, Working, Applies
    <2>2. QED BY <1>0, <1>1, <1>13, <2>1, PublishIs DEF Lesser
  <1>14. QED
    BY <1>2, <1>3, <1>4, <1>5, <1>6, <1>7, <1>8, <1>9, <1>10, <1>11, <1>12, <1>13
    DEF CRStep, StartStep, ApplyStep, CleanupStep

LEMMA TrackedForeign ==
  ASSUME TypeOK, Ordered, Apart, NEW c \in CRs, Tracked(c), Foreign(c), faults' = MaxFaults
  PROVE  Tracked(c)'
  <1>1. /\ api'[c] = api[c] /\ pc'[c] = pc[c] /\ loc'[c] = loc[c]
    BY ForeignLeaves, BoundsAssumption
  <1>2. /\ \A p \in Pks : Own(c, provs'[p]) => Own(c, provs[p]) /\ provs'[p].name = provs[p].name
        /\ \A s \in Slugs : Own(c, apps'[s]) => Own(c, apps[s])
    BY ForeignKeeps
  <1>3. QED BY <1>1, <1>2 DEF Tracked, OneProvider, OneApp

\* As long as no call was lost, each CR keeps track of the one provider and the one
\* application it made.
LEMMA AlwaysTracked ==
  Spec /\ []Apart => [](faults = MaxFaults => \A c \in CRs : Tracked(c))
  <1> DEFINE Track == faults = MaxFaults => \A c \in CRs : Tracked(c)
  <1>1. Init => Track
    <2>1. SUFFICES ASSUME Init, NEW c \in CRs PROVE Tracked(c)
      OBVIOUS
    <2>2. pc[c] = "idle" /\ \A p \in Pks : ~provs[p].live
      BY <2>1 DEF Init, NoProvider, NoApp
    <2>3. \A s \in Slugs : ~apps[s].live
      BY <2>1 DEF Init, NoApp
    <2>4. QED BY <2>2, <2>3 DEF Tracked, OneProvider, OneApp, Own, Applying
  <1>2. TypeOK /\ Ordered /\ Apart /\ Track /\ [Next]_vars => Track'
    <2>1. SUFFICES ASSUME TypeOK, Ordered, Apart, Track, [Next]_vars, faults' = MaxFaults,
                          NEW c \in CRs
                   PROVE  Tracked(c)'
      OBVIOUS
    <2>2. faults = MaxFaults
      <3>1. faults' <= faults /\ faults <= MaxFaults /\ faults \in Nat /\ MaxFaults \in Nat
        BY <2>1, NextIs, ForeignLeaves, OneMoves, BoundsAssumption DEF TypeOK
      <3>2. QED BY <2>1, <3>1
    <2>3. QED
      BY <2>1, <2>2, NextIs, OneProviderKept, OneAppKept, TrackedForeign DEF Tracked
  <1>3. QED BY <1>1, <1>2, AlwaysOrdered, PTL DEF Spec

\* For every number of slugs, generations, providers and interventions, while CRs do not
\* meet and no call is lost: when no reconcile of a CR is under way, its status finds
\* everything the CR made.
THEOREM NothingIsLost == Spec /\ []Apart => []NothingLost
  <1>1. TypeOK /\ Ordered /\ (faults = MaxFaults => \A c \in CRs : Tracked(c)) => NothingLost
    <2>1. SUFFICES ASSUME TypeOK, Ordered, faults = MaxFaults, NEW c \in CRs, Tracked(c),
                          pc[c] = "idle"
                   PROVE  /\ \A p \in Pks : Own(c, provs[p]) => p = api[c].prov
                          /\ \A s \in Slugs : Own(c, apps[s]) => s = api[c].id
      BY DEF NothingLost
    <2>2. loc[c].wprov = NoPk /\ loc[c].wapp = NoId
      BY <2>1 DEF Ordered, Local, Working
    <2>3. QED BY <2>1, <2>2 DEF Tracked, OneProvider, OneApp
  <1>2. QED BY <1>1, AlwaysOrdered, AlwaysTracked, PTL
-----------------------------------------------------------------------------
(* What a cleanup leaves.                                                  *)

\* What each delete of a cleanup was given is gone once it is past.
Cleaned(c) ==
    /\ pc[c] \in {"its_application", "its_credentials", "cleaned"} => ~Live(loc[c].prov)
    /\ pc[c] \in {"its_provider", "its_record", "its_application"} =>
          \A s \in Slugs : s = loc[c].id /\ Own(c, apps[s]) => loc[c].app = s
    /\ pc[c] \in {"its_credentials", "cleaned"} =>
          \A s \in Slugs : s = loc[c].id => ~Own(c, apps[s])

\* A deleted provider stays so.
LEMMA StaysDeleted ==
  ASSUME TypeOK, Endures, NEW p \in Pks \cup {NoPk}, p <= made, ~Live(p)
  PROVE  ~Live(p)'
  BY DEF Live, Endures

LEMMA CleanedOwn ==
  ASSUME TypeOK, Ordered, Endures, NEW c \in CRs, Cleaned(c), CRStep(c)
  PROVE  Cleaned(c)'
  <1>0. /\ Objects /\ Working(c) /\ loc[c].prov \in Pks \cup {NoPk} /\ loc[c].prov <= made
        /\ loc[c].target \in Pks \cup {NoPk} /\ loc[c].app \in Slugs \cup {NoId}
        /\ NoId \notin Slugs
    BY NameAssumption DEF Ordered, Local, Counted, TypeOK, Work
  <1>1. ASSUME pc'[c] \notin Cleans PROVE Cleaned(c)'
    BY <1>1 DEF Cleaned, Cleans, Cleaning
  <1>2. CASE Cleanup(c)
    <2>1. pc'[c] \in {"cleanup", "cleaned"}
          /\ (pc'[c] = "cleaned" => loc'[c].id = NoId /\ loc'[c].prov = NoPk)
      BY <1>2, CleanupIs
    <2>2. QED BY <1>0, <2>1 DEF Cleaned, Live
  <1>3. CASE CleanupReads(c)
    <2>1. /\ pc'[c] = "its_provider" /\ UNCHANGED authentik /\ loc'[c].id = loc[c].id
          /\ loc'[c].app = IF Found(loc[c].id) THEN loc[c].id ELSE NoId
      BY <1>3, CleanupReadsIs DEF Fetched
    <2>2. \A s \in Slugs : s = loc[c].id /\ Own(c, apps[s]) => loc'[c].app = s
      BY <1>0, <2>1 DEF Found, Own
    <2>3. QED BY <2>1, <2>2 DEF Cleaned, authentik
  <1>4. CASE CleanupProvider(c)
    <2>1. /\ pc[c] = "its_provider" /\ pc'[c] = "its_record" /\ loc'[c] = loc[c]
          /\ DeletesProvider(loc[c].target)
      BY <1>4, CleaningIs DEF CleanupProvider
    <2>2. \A s \in Slugs : Own(c, apps'[s]) => Own(c, apps[s])
      BY <1>0, <2>1, DeletedIs DEF Own
    <2>3. QED BY <2>1, <2>2 DEF Cleaned
  <1>5. CASE CleanupRecord(c)
    <2>1. /\ pc[c] = "its_record" /\ pc'[c] = "its_application" /\ loc'[c] = loc[c]
          /\ DeletesProvider(loc[c].prov)
      BY <1>5, CleaningIs DEF CleanupRecord
    <2>2. \A s \in Slugs : Own(c, apps'[s]) => Own(c, apps[s])
      BY <1>0, <2>1, DeletedIs DEF Own
    <2>3. ~Live(loc[c].prov)'
      BY <1>0, <2>1, DeletesKeeps DEF Live
    <2>4. QED BY <2>1, <2>2, <2>3 DEF Cleaned
  <1>6. CASE CleanupApplication(c)
    <2>1. /\ pc[c] = "its_application" /\ pc'[c] = "its_credentials" /\ loc'[c] = loc[c]
          /\ UNCHANGED <<made, provs>>
          /\ apps' = IF loc[c].app # NoId THEN [apps EXCEPT ![loc[c].app] = NoApp] ELSE apps
      BY <1>6, CleaningIs DEF CleanupApplication
    <2>2. ASSUME NEW s \in Slugs, s = loc[c].id
          PROVE  ~Own(c, apps'[s])
      <3>1. ~Own(c, NoApp)
        BY DEF Own, NoApp
      <3>2. CASE loc[c].app = s
        BY <1>0, <2>1, <3>1, <3>2 DEF TypeOK
      <3>3. CASE ~Own(c, apps[s])
        <4>1. apps'[s] = apps[s] \/ apps'[s] = NoApp
          BY <1>0, <2>1 DEF TypeOK
        <4>2. QED BY <3>1, <3>3, <4>1
      <3>4. QED BY <2>1, <2>2, <3>2, <3>3 DEF Cleaned
    <2>3. ~Live(loc[c].prov)'
      BY <1>0, <2>1, StaysDeleted DEF Cleaned
    <2>4. QED BY <2>1, <2>2, <2>3 DEF Cleaned
  <1>7. CASE CleanupCredentials(c)
    <2>1. /\ pc[c] = "its_credentials" /\ pc'[c] = "cleaned" /\ loc'[c] = loc[c]
          /\ UNCHANGED authentik
      BY <1>7, CleaningIs DEF CleanupCredentials
    <2>2. QED BY <2>1 DEF Cleaned, Live, authentik
  <1>8. CASE UserStep(c) \/ AddFinalizer(c) \/ RemoveFinalizer(c) \/ Deliver(c)
    <2>1. UNCHANGED authentik /\ \/ pc'[c] = pc[c] /\ loc'[c] = loc[c]
                                 \/ pc'[c] = "idle"
      BY <1>0, <1>8, BetweenIs
    <2>2. CASE pc'[c] = pc[c] /\ loc'[c] = loc[c]
      <3>1. Live(loc[c].prov)' <=> Live(loc[c].prov)
        BY <2>1, <2>2 DEF Live, authentik
      <3>2. UNCHANGED apps
        BY <2>1 DEF authentik
      <3>3. QED BY <2>2, <3>1, <3>2 DEF Cleaned
    <2>3. QED BY <1>1, <2>1, <2>2 DEF Cleans, Cleaning
  <1>9. CASE FaultStep(c) \/ Fetch(c)
    BY <1>1, <1>9, FaultIs, FetchIs DEF Cleans, Cleaning
  <1>10. CASE ApplyStep(c)
    <2>1. CASE GetApplication(c)
      BY <1>1, <2>1, GetIs DEF AfterGet, Cleans, Cleaning
    <2>2. CASE ReplaceProvider(c) \/ DiscardProvider(c)
      BY <1>1, <2>2, DropIs DEF Cleans, Cleaning
    <2>3. CASE PatchProvider(c)
      BY <1>1, <2>3, PatchIs DEF Provided, Cleans, Cleaning
    <2>4. CASE CreateProvider(c)
      BY <1>1, <2>4, CreateIs DEF Provided, Cleans, Cleaning
    <2>5. CASE UpsertApplication(c)
      BY <1>1, <2>5, UpsertIs DEF Cleans, Cleaning
    <2>6. CASE WriteCredentials(c) \/ AttachOutpost(c) \/ Publish(c)
      BY <1>1, <2>6
      DEF WriteCredentials, AttachOutpost, Publish, Goto, TypeOK, Cleans, Cleaning
    <2>7. QED BY <1>10, <2>1, <2>2, <2>3, <2>4, <2>5, <2>6 DEF ApplyStep
  <1>11. QED
    BY <1>2, <1>3, <1>4, <1>5, <1>6, <1>7, <1>8, <1>9, <1>10 DEF CRStep, StartStep, CleanupStep

LEMMA CleanedForeign ==
  ASSUME TypeOK, Ordered, Endures, Apart, NEW c \in CRs, Cleaned(c), Foreign(c)
  PROVE  Cleaned(c)'
  <1>1. \/ pc'[c] = pc[c] /\ loc'[c] = loc[c]
        \/ pc'[c] = "idle"
    BY ForeignLeaves
  <1>2. \A s \in Slugs : Own(c, apps'[s]) => Own(c, apps[s])
    BY ForeignKeeps
  <1>3. ~Live(loc[c].prov) => ~Live(loc[c].prov)' \/ loc'[c] # loc[c]
    <2>1. SUFFICES ASSUME NEW p, p = loc[c].prov, ~Live(p) PROVE ~Live(p)'
      BY DEF Live
    <2>2. p \in Pks \cup {NoPk} /\ p <= made
      BY <2>1 DEF TypeOK, Work, Ordered, Local, Counted
    <2>3. QED BY <2>1, <2>2, StaysDeleted
  <1>4. QED BY <1>1, <1>2, <1>3 DEF Cleaned

\* For every number of slugs, generations, providers, faults and interventions, while CRs
\* do not meet: a finished cleanup that was given what the CR records has deleted it, and
\* if no call was lost nothing the CR made is left.
THEOREM CleanupIsThorough == Spec /\ []Apart => []CleanupLeavesNothing
  <1> DEFINE Clean == \A c \in CRs : Cleaned(c)
             Track == faults = MaxFaults => \A c \in CRs : Tracked(c)
  <1>1. Init => Clean
    BY DEF Init, Cleaned
  <1>2. TypeOK /\ Ordered /\ Apart /\ Clean /\ [Next]_vars => Clean'
    <2>1. SUFFICES ASSUME TypeOK, Ordered, Apart, Clean, [Next]_vars, NEW c \in CRs
                   PROVE  Cleaned(c)'
      OBVIOUS
    <2>2. Endures
      BY <2>1, EffectIsStep DEF Ordered
    <2>3. QED BY <2>1, <2>2, NextIs, CleanedOwn, CleanedForeign
  <1>3. TypeOK /\ Ordered /\ Clean /\ Track => CleanupLeavesNothing
    <2>1. SUFFICES ASSUME TypeOK, Ordered, Clean, Track, NEW c \in CRs, pc[c] = "cleaned",
                          loc[c].id = api[c].id, loc[c].prov = api[c].prov
                   PROVE  /\ ~Live(api[c].prov)
                          /\ Found(api[c].id) => apps[api[c].id].owner # c
                          /\ faults = MaxFaults => /\ \A p \in Pks : ~Own(c, provs[p])
                                                   /\ \A s \in Slugs : ~Own(c, apps[s])
      BY DEF CleanupLeavesNothing
    <2>2. /\ Cleaned(c) /\ loc[c].wprov = NoPk /\ loc[c].wapp = NoId
          /\ api[c].id \in Slugs \cup {NoId}
      BY <2>1 DEF Ordered, Local, Working, Cleans, TypeOK, Version
    <2>3. ~Live(api[c].prov)
      BY <2>1, <2>2 DEF Cleaned
    <2>4. \A s \in Slugs : s = api[c].id => ~Own(c, apps[s])
      BY <2>1, <2>2 DEF Cleaned
    <2>5. ASSUME faults = MaxFaults
          PROVE  /\ \A p \in Pks : ~Own(c, provs[p])
                 /\ \A s \in Slugs : ~Own(c, apps[s])
      <3>1. /\ \A p \in Pks : Own(c, provs[p]) => p = api[c].prov
            /\ \A s \in Slugs : Own(c, apps[s]) => s = api[c].id
        BY <2>1, <2>2, <2>5 DEF Tracked, OneProvider, OneApp
      <3>2. QED BY <2>3, <2>4, <3>1, PkIs DEF Own, Live
    <2>6. QED BY <2>2, <2>3, <2>4, <2>5 DEF Found, Own
  <1>4. QED BY <1>1, <1>2, <1>3, AlwaysOrdered, AlwaysTracked, PTL DEF Spec
-----------------------------------------------------------------------------
(* Disruption.                                                             *)

\* The provider the application points at is dealt with as one of the kind it must have,
\* or replaced with permission; one is discarded only if it is gone or of the other kind.
Gated(c) ==
    /\ pc[c] \in {"provider", "discard"} /\ loc[c].target # NoPk =>
          \A s \in Slugs : s = loc[c].id /\ apps[s].live /\ apps[s].prov = loc[c].target
             => provs[loc[c].target].kind = loc[c].kind
    /\ pc[c] = "discard" => \/ ~Live(loc[c].target)
                            \/ provs[loc[c].target].kind # loc[c].kind
    /\ pc[c] = "replace" => loc[c].allow

LEMMA GatedOwn ==
  ASSUME TypeOK, Ordered, NEW c \in CRs, Gated(c), CRStep(c)
  PROVE  Gated(c)'
  <1>0. Working(c)
    BY DEF Ordered, Local
  <1>1. ASSUME pc'[c] \notin {"replace", "provider", "discard"} PROVE Gated(c)'
    BY <1>1 DEF Gated
  <1>2. CASE GetApplication(c)
    <2>1. /\ pc'[c] = AfterGet(c, Found(loc[c].id)) /\ UNCHANGED authentik /\ Fetched(c)
          /\ loc'[c].target = ExistingProvider(c)
      BY <1>2, GetIs
    <2>2. pc'[c] \in {"provider", "replace", "failed"} /\ (pc'[c] = "replace" => loc[c].allow)
      BY <2>1 DEF AfterGet
    <2>3. ASSUME pc'[c] = "provider", loc'[c].target # NoPk, NEW s \in Slugs, s = loc[c].id,
                 apps[s].live, apps[s].prov = loc'[c].target
          PROVE  provs[loc'[c].target].kind = loc[c].kind
      <3>1. Found(loc[c].id)
        BY <2>3, NameAssumption DEF Found
      <3>2. ~OtherKind(c)
        BY <2>1, <2>3, <3>1 DEF AfterGet
      <3>3. QED BY <2>3, <3>2 DEF OtherKind
    <2>4. QED BY <2>1, <2>2, <2>3 DEF Gated, Fetched, authentik
  <1>3. CASE ReplaceProvider(c) \/ DiscardProvider(c)
    BY <1>3, DropIs DEF Gated
  <1>4. CASE PatchProvider(c)
    <2>1. CASE /\ loc'[c] = loc[c] /\ pc[c] = "provider" /\ pc'[c] = "discard"
               /\ UNCHANGED authentik
               /\ ~Live(loc[c].target) \/ provs[loc[c].target].kind # loc[c].kind
      BY <2>1 DEF Gated, authentik, Live
    <2>2. QED BY <1>1, <1>4, <2>1, PatchIs DEF Provided
  <1>5. CASE CreateProvider(c)
    BY <1>1, <1>5, CreateIs DEF Provided
  <1>6. CASE WriteCredentials(c) \/ UpsertApplication(c) \/ AttachOutpost(c) \/ Publish(c)
    <2>1. pc'[c] \notin {"replace", "provider", "discard"}
      BY <1>6, UpsertIs DEF WriteCredentials, AttachOutpost, Publish, Goto, TypeOK
    <2>2. QED BY <1>1, <2>1
  <1>7. CASE Fetch(c) \/ Cleanup(c) \/ CleanupReads(c) \/ FaultStep(c)
    BY <1>1, <1>7, FetchIs, CleanupIs, CleanupReadsIs, FaultIs
  <1>8. CASE \/ CleanupProvider(c) \/ CleanupRecord(c) \/ CleanupApplication(c)
             \/ CleanupCredentials(c)
    BY <1>1, <1>8, CleaningIs
  <1>9. CASE UserStep(c) \/ AddFinalizer(c) \/ RemoveFinalizer(c) \/ Deliver(c)
    <2>1. UNCHANGED authentik /\ \/ pc'[c] = pc[c] /\ loc'[c] = loc[c]
                                 \/ pc'[c] = "idle"
      BY <1>0, <1>9, BetweenIs
    <2>2. CASE pc'[c] = pc[c] /\ loc'[c] = loc[c]
      BY <2>1, <2>2 DEF Gated, Live, authentik
    <2>3. QED BY <1>1, <2>1, <2>2
  <1>10. QED
    BY <1>2, <1>3, <1>4, <1>5, <1>6, <1>7, <1>8, <1>9
    DEF CRStep, StartStep, ApplyStep, CleanupStep

LEMMA GatedForeign ==
  ASSUME TypeOK, Ordered, Endures, Apart, NEW c \in CRs, Gated(c), Foreign(c)
  PROVE  Gated(c)'
  <1>1. CASE pc'[c] = "idle"
    BY <1>1 DEF Gated
  <1>2. CASE pc'[c] = pc[c] /\ loc'[c] = loc[c]
    <2>1. loc[c].target \in Pks \cup {NoPk} /\ loc[c].target <= made
      BY DEF TypeOK, Work, Ordered, Local, Counted
    <2>2. loc[c].target # NoPk => provs'[loc[c].target].kind = provs[loc[c].target].kind
      BY <2>1 DEF Endures
    <2>3. \A s \in Slugs : loc[c].target # NoPk /\ apps'[s].live /\ apps'[s].prov = loc[c].target
                           => apps[s].live /\ apps[s].prov = loc[c].target
      BY ForeignKeeps
    <2>4. ~Live(loc[c].target) => ~Live(loc[c].target)'
      <3>1. SUFFICES ASSUME NEW p, p = loc[c].target, ~Live(p) PROVE ~Live(p)'
        BY <1>2 DEF Live
      <3>2. QED BY <2>1, <3>1, StaysDeleted
    <2>5. ~Live(loc[c].target) => loc[c].target = NoPk \/ ~provs'[loc[c].target].live
      BY <1>2, <2>4 DEF Live
    <2>6. QED BY <1>2, <2>2, <2>3, <2>5 DEF Gated, Live
  <1>3. QED BY <1>1, <1>2, ForeignLeaves

\* The one apply step that deletes a provider the application points at has permission.
LEMMA ApplyKills ==
  ASSUME TypeOK, Ordered, Endures, NEW c \in CRs, Gated(c), CRStep(c),
         pc[c] \in Applying, pc'[c] # pc[c], NEW s \in Slugs, s = loc[c].id, apps[s].live,
         Live(apps[s].prov), ~provs'[apps[s].prov].live
  PROVE  loc[c].allow
  <1>0. /\ Objects /\ Working(c) /\ apps[s].prov \in Pks /\ apps[s].prov # made + 1
    <2>1. apps[s].prov \in Pks \cup {NoPk} /\ apps[s].prov <= made /\ made \in Nat
      BY BoundsAssumption DEF TypeOK, App, Ordered, Objects
    <2>2. QED BY <2>1, PkIs DEF Live, Ordered, Local
  <1>1. provs[apps[s].prov].live
    BY DEF Live
  <1>2. CASE ReplaceProvider(c)
    BY <1>2 DEF ReplaceProvider, Gated
  <1>3. CASE DiscardProvider(c)
    <2>1. pc[c] = "discard" /\ DeletesProvider(loc[c].target) /\ loc[c].target \in Pks \cup {NoPk}
      BY <1>3, DropIs DEF DiscardProvider
    <2>2. apps[s].prov = loc[c].target
      BY <1>0, <1>1, <2>1, DeletesKeeps
    <2>3. provs[loc[c].target].kind = loc[c].kind /\ Live(loc[c].target)
      BY <1>0, <2>1, <2>2, PkIs DEF Gated
    <2>4. QED BY <2>1, <2>3 DEF Gated
  <1>4. CASE PatchProvider(c)
    <2>1. UNCHANGED provs \/ (PatchesProvider(c) /\ loc[c].target # NoPk)
      BY <1>4, PatchIs DEF authentik
    <2>2. QED BY <1>0, <1>1, <2>1, PatchesIs
  <1>5. CASE CreateProvider(c)
    <2>1. UNCHANGED provs \/ CreatesProvider(c)
      BY <1>5, CreateIs DEF authentik
    <2>2. QED BY <1>0, <1>1, <2>1, CreatesIs
  <1>6. CASE AttachOutpost(c)
    <2>1. loc[c].wprov \in Pks \cup {NoPk}
      BY DEF TypeOK, Work
    <2>2. QED BY <1>0, <1>1, <1>6, <2>1, AttachIs DEF AttachOutpost
  <1>7. CASE GetApplication(c) \/ WriteCredentials(c) \/ UpsertApplication(c) \/ Publish(c)
    BY <1>1, <1>7, GetIs, UpsertIs DEF WriteCredentials, WritesApp, Publish, authentik
  <1>8. CASE FaultStep(c)
    <2>1. UNCHANGED provs \/ CreatesProvider(c)
      BY <1>8, FaultIs DEF authentik, WritesApp
    <2>2. QED BY <1>0, <1>1, <2>1, CreatesIs
  <1>9. CASE Fetch(c) \/ CleanupStep(c) \/ Cleanup(c)
    BY <1>9, FetchIs, CleanupIs, CleanupReadsIs, CleaningIs DEF CleanupStep, RemoveFinalizer, Applying
  <1>10. CASE UserStep(c) \/ AddFinalizer(c) \/ Deliver(c)
    <2>1. pc' = pc
      BY <1>10 DEF UserStep, UserCreates, UserEdits, UserDeletes, AddFinalizer, Deliver
    <2>2. QED BY <2>1
  <1>11. QED
    BY <1>2, <1>3, <1>4, <1>5, <1>6, <1>7, <1>8, <1>9, <1>10
    DEF CRStep, StartStep, ApplyStep

\* For every number of slugs, generations, providers, faults and interventions, while CRs
\* do not meet: an apply never deletes the provider of the application its CR records
\* unless the CR it read carries allow-disruptive-update.
THEOREM NoneDisruptedUnasked == Spec /\ []Apart => NoDisruptionUnasked
  <1> DEFINE Gates == \A c \in CRs : Gated(c)
             Asked(c) ==
                LET s == loc[c].id IN
                /\ pc[c] \in Applying /\ pc'[c] # pc[c] /\ Found(s)
                /\ Live(apps[s].prov) /\ ~provs'[apps[s].prov].live
                => loc[c].allow
  <1>1. Init => Gates
    BY DEF Init, Gated
  <1>2. TypeOK /\ Ordered /\ Apart /\ Gates /\ [Next]_vars => Gates'
    <2>1. SUFFICES ASSUME TypeOK, Ordered, Apart, Gates, [Next]_vars, NEW c \in CRs
                   PROVE  Gated(c)'
      OBVIOUS
    <2>2. Endures
      BY <2>1, EffectIsStep DEF Ordered
    <2>3. QED BY <2>1, <2>2, NextIs, GatedOwn, GatedForeign
  <1>3. TypeOK /\ Ordered /\ Gates /\ [Next]_vars => [\A c \in CRs : Asked(c)]_vars
    <2>1. SUFFICES ASSUME TypeOK, Ordered, Gates, Next, NEW c \in CRs,
                          pc[c] \in Applying, pc'[c] # pc[c], NEW s, s = loc[c].id, Found(s),
                          Live(apps[s].prov), ~provs'[apps[s].prov].live
                   PROVE  loc[c].allow
      OBVIOUS
    <2>2. Endures /\ s \in Slugs /\ apps[s].live
      BY <2>1, EffectIsStep DEF Ordered, Found, TypeOK, Work
    <2>3. CASE CRStep(c)
      BY <2>1, <2>2, <2>3, ApplyKills
    <2>4. CASE Foreign(c)
      BY <2>1, <2>4, ForeignLeaves DEF Live, authentik
    <2>5. QED BY <2>1, <2>3, <2>4, NextIs
  <1>4. QED BY <1>1, <1>2, <1>3, AlwaysOrdered, PTL DEF Spec, NoDisruptionUnasked

\* One CR alone meets nobody: what was said of CRs apart holds of it as it is.
COROLLARY OneAlone ==
  ASSUME \A c, d \in CRs : c = d
  PROVE  Spec => /\ [](CredentialsPrecedeUse /\ NothingLost /\ CleanupLeavesNothing)
                 /\ NoDisruptionUnasked
  <1>1. Apart
    BY OneIsApart
  <1>2. QED
    BY <1>1, CredentialsFirst, NothingIsLost, CleanupIsThorough, NoneDisruptedUnasked, PTL
-----------------------------------------------------------------------------
(* CRs that are never given the same slug do not meet, whatever fails and  *)
(* whatever the people of Authentik do.                                    *)

\* Each CR's specs keep to the slugs reserved to it.
Reserved(Home) == \A c \in CRs : api[c].phase # "absent" => Home[api[c].slug] = c

\* The applications a CR knows of are at slugs of its own, and so is where it would make one.
Mine(Home, c, id) == id # NoId => Home[id] = c
Named(Home, c) ==
    /\ Mine(Home, c, api[c].id) /\ Mine(Home, c, cache[c].id)
    /\ \A i \in 1..Len(pending[c]) : Mine(Home, c, pending[c][i].id)
    /\ Mine(Home, c, loc[c].id) /\ Mine(Home, c, loc[c].wapp)
    /\ pc[c] \in Applying => Home[loc[c].slug] = c
\* No CR made an application at another's slug.
Placed(Home) == \A s \in Slugs : apps[s].owner \in {Home[s], Human}

\* The providers a CR knows of, and those applications at its slugs point at.
Holds(Home, c, p) ==
    \/ p \in {api[c].prov, cache[c].prov, loc[c].prov, loc[c].target, loc[c].wprov}
    \/ \E i \in 1..Len(pending[c]) : pending[c][i].prov = p
    \/ \E s \in Slugs : Home[s] = c /\ apps[s].prov = p
\* They are its own or of people, and no other CR's.
Parted(Home) ==
    \A c \in CRs, p \in Pks : Holds(Home, c, p) =>
        /\ p <= made /\ provs[p].owner \in {c, Human}
        /\ \A d \in CRs : Holds(Home, d, p) => d = c
Realms(Home) == Placed(Home) /\ Parted(Home) /\ \A c \in CRs : Named(Home, c)

LEMMA RealmsAreApart ==
  ASSUME TypeOK, Ordered, NEW Home \in [Slugs -> CRs], Realms(Home)
  PROVE  Apart
  <1>1. SUFFICES ASSUME NEW c \in CRs, NEW d \in CRs, c # d
                 PROVE  /\ loc[d].app # NoId => ~Own(c, apps[loc[d].app])
                        /\ loc[d].target # NoPk =>
                              ~Own(c, provs[loc[d].target]) /\ loc[c].target # loc[d].target
    BY DEF Apart
  <1>2. /\ loc[d].app \in Slugs \cup {NoId} /\ loc[d].target \in Pks \cup {NoPk}
        /\ loc[d].app \in {NoId, loc[d].id} /\ Mine(Home, d, loc[d].id)
    BY DEF TypeOK, Work, Ordered, Local, Working, Realms, Named
  <1>3. loc[d].app # NoId => ~Own(c, apps[loc[d].app])
    <2>1. SUFFICES ASSUME loc[d].app # NoId PROVE ~Own(c, apps[loc[d].app])
      OBVIOUS
    <2>2. loc[d].app \in Slugs /\ Home[loc[d].app] = d
      BY <1>2, <2>1 DEF Mine
    <2>3. apps[loc[d].app].owner \in {d, Human}
      BY <2>2 DEF Realms, Placed
    <2>4. QED BY <1>1, <2>3, OwnerAssumption DEF Own
  <1>4. ASSUME loc[d].target # NoPk
        PROVE  ~Own(c, provs[loc[d].target]) /\ loc[c].target # loc[d].target
    <2>1. loc[d].target \in Pks /\ Holds(Home, d, loc[d].target)
      BY <1>2, <1>4 DEF Holds
    <2>2. /\ provs[loc[d].target].owner \in {d, Human}
          /\ Holds(Home, c, loc[d].target) => c = d
      BY <2>1 DEF Realms, Parted
    <2>3. loc[c].target # loc[d].target
      BY <1>1, <2>2 DEF Holds
    <2>4. QED BY <1>1, <2>2, <2>3, OwnerAssumption DEF Own
  <1>5. QED BY <1>3, <1>4

\* A CR's copies are the earlier ones, and the one just written.
LEMMA CopiesIs ==
  ASSUME TypeOK, NEW c \in CRs, CRStep(c), NEW V, cache[c] \in V, api'[c] \in V,
         \A i \in 1..Len(pending[c]) : pending[c][i] \in V
  PROVE  cache'[c] \in V /\ \A i \in 1..Len(pending'[c]) : pending'[c][i] \in V
  <1>0. pending[c] \in Seq(Version)
    BY DEF TypeOK
  <1>1. CASE pending'[c] = pending[c] /\ cache'[c] = cache[c]
    BY <1>1
  <1>2. CASE pending[c] # <<>> /\ cache'[c] = Head(pending[c]) /\ pending'[c] = Tail(pending[c])
    <2>1. Head(pending[c]) = pending[c][1] /\ 1 \in 1..Len(pending[c])
      BY <1>0, <1>2
    <2>2. ASSUME NEW i \in 1..Len(Tail(pending[c]))
          PROVE  i + 1 \in 1..Len(pending[c]) /\ Tail(pending[c])[i] = pending[c][i + 1]
      BY <1>0, <1>2
    <2>3. QED BY <1>2, <2>1, <2>2
  <1>3. CASE pending'[c] = Append(pending[c], api'[c]) /\ cache'[c] = cache[c]
    <2>1. ASSUME NEW i \in 1..Len(pending'[c])
          PROVE  \/ pending'[c][i] = api'[c]
                 \/ i \in 1..Len(pending[c]) /\ pending'[c][i] = pending[c][i]
      BY <1>0, <1>3
    <2>2. QED BY <1>3, <2>1
  <1>4. QED BY <1>1, <1>2, <1>3, ApiIs

\* A reconcile applies the slug it fetched.
LEMMA SlugStays ==
  ASSUME TypeOK, NEW c \in CRs, CRStep(c), pc'[c] \in Applying, ~Fetch(c)
  PROVE  pc[c] \in Applying /\ loc'[c].slug = loc[c].slug
  <1> USE DEF Applying
  <1>1. CASE UserStep(c) \/ Deliver(c) \/ AddFinalizer(c)
    BY <1>1 DEF UserStep, UserCreates, UserEdits, UserDeletes, Deliver, AddFinalizer
  <1>2. CASE GetApplication(c)
    BY <1>2, GetIs DEF Fetched
  <1>3. CASE ReplaceProvider(c) \/ DiscardProvider(c)
    BY <1>3, DropIs DEF Fetched, ReplaceProvider, DiscardProvider
  <1>4. CASE PatchProvider(c) \/ CreateProvider(c)
    BY <1>4, PatchIs, CreateIs DEF Fetched, Provided
  <1>5. CASE UpsertApplication(c)
    BY <1>5, UpsertIs DEF Fetched
  <1>6. CASE WriteCredentials(c) \/ AttachOutpost(c)
    BY <1>6 DEF WriteCredentials, AttachOutpost, Goto, TypeOK
  <1>7. CASE Publish(c) \/ RemoveFinalizer(c)
    BY <1>7 DEF Publish, RemoveFinalizer, Goto, TypeOK
  <1>8. CASE Cleanup(c) \/ CleanupReads(c)
    BY <1>8, CleanupIs, CleanupReadsIs
  <1>9. CASE FaultStep(c)
    BY <1>9, FaultIs
  <1>10. CASE CleanupStep(c)
    BY <1>7, <1>8, <1>10, CleaningIs DEF CleanupStep
  <1>11. QED
    BY <1>1, <1>2, <1>3, <1>4, <1>5, <1>6, <1>7, <1>8, <1>9, <1>10
    DEF CRStep, StartStep, ApplyStep

LEMMA NamedKept ==
  ASSUME TypeOK, NEW Home \in [Slugs -> CRs], Reserved(Home),
         NEW c \in CRs, Named(Home, c), CRStep(c)
  PROVE  Named(Home, c)'
  <1> DEFINE Ids == {id \in Slugs \cup {NoId} : Mine(Home, c, id)}
  <1>0. /\ NoId \in Ids /\ api[c].id \in Ids /\ cache[c].id \in Ids /\ loc[c].id \in Ids
        /\ loc[c].wapp \in Ids
    BY DEF Named, Mine, TypeOK, Version, Work
  <1>1. \A id \in Ids : Mine(Home, c, id)
    OBVIOUS
  <1>2. pc[c] \in Applying => loc[c].slug \in Ids
    BY DEF Named, Mine, TypeOK, Work
  <1>3. TypeOK'
    BY NextTypes DEF Next, CRStep
  <1> DEFINE V == {v \in Version : v.id \in Ids}
  <1>4. cache[c] \in V /\ \A i \in 1..Len(pending[c]) : pending[c][i] \in V
    <2>1. cache[c] \in Version /\ pending[c] \in Seq(Version)
      BY DEF TypeOK
    <2>2. \A i \in 1..Len(pending[c]) : pending[c][i] \in Version
      BY <2>1
    <2>3. \A i \in 1..Len(pending[c]) : pending[c][i].id \in Ids
      BY <2>2 DEF Named, Version
    <2>4. QED BY <1>0, <2>1, <2>2, <2>3
  <1> HIDE DEF Ids
  <1>5. api'[c] \in V
    <2>1. api'[c].id \in {NoId, api[c].id, loc[c].wapp}
      BY ApiIs
    <2>2. QED BY <1>0, <1>3, <2>1 DEF TypeOK
  <1> HIDE DEF V
  <1>6. cache'[c] \in V /\ \A i \in 1..Len(pending'[c]) : pending'[c][i] \in V
    BY <1>4, <1>5, CopiesIs
  <1>7. loc'[c].id \in Ids /\ loc'[c].wapp \in Ids
    <2>1. CASE loc'[c] = loc[c] \/ loc'[c] = NoWork
      BY <1>0, <2>1, NoWorkIs
    <2>2. CASE Fetch(c)
      BY <1>0, <2>2, FetchIs
    <2>3. CASE GetApplication(c)
      BY <1>0, <2>3, GetIs DEF Fetched
    <2>4. CASE ReplaceProvider(c) \/ DiscardProvider(c)
      BY <1>0, <2>4, DropIs DEF Fetched
    <2>5. CASE PatchProvider(c) \/ CreateProvider(c)
      BY <1>0, <2>1, <2>5, PatchIs, CreateIs DEF Fetched, Provided
    <2>6. CASE UpsertApplication(c)
      BY <1>0, <1>2, <2>1, <2>6, UpsertIs DEF Fetched, Applying
    <2>7. CASE Cleanup(c)
      BY <1>0, <2>7, CleanupIs
    <2>8. CASE CleanupReads(c)
      BY <1>0, <2>8, CleanupReadsIs DEF Fetched
    <2>9. QED BY <2>1, <2>2, <2>3, <2>4, <2>5, <2>6, <2>7, <2>8, SameWork
  <1>8. pc'[c] \in Applying => Home[loc'[c].slug] = c
    <2>1. CASE Fetch(c)
      <3>1. loc'[c].slug = api[c].slug
        BY <2>1 DEF Fetch, Goto, TypeOK, NoWork
      <3>2. QED BY <2>1, <3>1, FetchIs DEF Reserved, Present
    <2>2. CASE ~Fetch(c)
      BY <2>2, SlugStays DEF Named
    <2>3. QED BY <2>1, <2>2
  <1>9. QED
    BY <1>1, <1>5, <1>6, <1>7, <1>8 DEF V, Named

\* What the step of a CR does to applications: those at its own slugs may be pointed at its
\* provider, any may be forgotten or lose theirs.
LEMMA AppsOwn ==
  ASSUME TypeOK, Objects, NEW Home \in [Slugs -> CRs], Placed(Home),
         NEW c \in CRs, Named(Home, c), loc[c].app \in {NoId, loc[c].id}, Effect(c),
         NEW s \in Slugs
  PROVE  \/ apps'[s].prov \in {NoPk, apps[s].prov} /\ apps'[s].owner \in {Human, apps[s].owner}
         \/ Home[s] = c /\ apps'[s].prov = loc[c].wprov /\ apps'[s].owner \in {c, Human}
  <1> DEFINE Less == apps'[s].prov \in {NoPk, apps[s].prov} /\ apps'[s].owner \in {Human, apps[s].owner}
  <1>0. NoApp.prov = NoPk /\ NoApp.owner = Human
    BY DEF NoApp
  <1>1. ASSUME apps' = apps PROVE Less
    BY <1>1
  <1>2. ASSUME NEW p \in Pks \cup {NoPk}, DeletesProvider(p) PROVE Less
    <2>1. apps' = apps \/ apps' = WithoutProvider(p)
      BY <1>2 DEF DeletesProvider
    <2>2. ASSUME apps' = WithoutProvider(p) PROVE Less
      <3>1. apps[s] \in App
        BY DEF TypeOK
      <3>2. apps'[s] = [apps[s] EXCEPT !.prov = NoPk] \/ apps'[s] = apps[s]
        BY <2>2 DEF WithoutProvider
      <3>3. QED BY <3>1, <3>2 DEF App
    <2>3. QED BY <1>1, <2>1, <2>2
  <1>3. ASSUME NEW t \in Slugs, apps' = [apps EXCEPT ![t] = NoApp] PROVE Less
    BY <1>0, <1>3 DEF TypeOK
  <1>4. CASE Lesser(c)
    BY <1>1, <1>2, <1>3, <1>4 DEF Lesser, authentik, PatchesProvider, CreatesProvider
  <1>5. CASE Points(c)
    <2>1. /\ apps'[loc[c].slug].prov = loc[c].wprov
          /\ apps'[loc[c].slug].owner = IF loc[c].app = NoId THEN c ELSE apps[loc[c].app].owner
          /\ loc[c].app # NoId /\ loc[c].app # loc[c].slug => apps'[loc[c].app] = NoApp
          /\ \A t \in Slugs \ {loc[c].slug, loc[c].app} : apps'[t] = apps[t]
          /\ loc[c].slug \in Slugs /\ loc[c].app \in Slugs \cup {NoId}
      BY <1>5, WritesIs DEF Points
    <2>2. Home[loc[c].slug] = c
      BY <1>5 DEF Points, Named, Applying
    <2>3. loc[c].app # NoId => apps[loc[c].app].owner \in {c, Human}
      BY <2>1 DEF Named, Mine, Placed
    <2>4. CASE s = loc[c].slug
      BY <2>1, <2>2, <2>3, <2>4
    <2>5. CASE s = loc[c].app /\ s # loc[c].slug
      BY <1>0, <2>1, <2>5, NameAssumption
    <2>6. CASE s \notin {loc[c].slug, loc[c].app}
      BY <2>1, <2>6
    <2>7. QED BY <2>4, <2>5, <2>6
  <1>6. QED BY <1>4, <1>5 DEF Effect

\* A CR comes to hold no provider but the one it creates.
LEMMA HoldsOwn ==
  ASSUME TypeOK, Ordered, NEW Home \in [Slugs -> CRs], Placed(Home),
         NEW c \in CRs, Named(Home, c), CRStep(c),
         NEW p \in Pks, Holds(Home, c, p)'
  PROVE  Holds(Home, c, p) \/ (p = made + 1 /\ CreatesProvider(c))
  <1> DEFINE Fresh == {q \in Pks : q = made + 1 /\ CreatesProvider(c)}
             Held0 == {q \in Pks \cup {NoPk} : q = NoPk \/ Holds(Home, c, q)}
             P == Held0 \cup Fresh
  <1>1. /\ NoPk \in Held0 /\ api[c].prov \in Held0 /\ cache[c].prov \in Held0
        /\ loc[c].prov \in Held0 /\ loc[c].target \in Held0 /\ loc[c].wprov \in Held0
    <2>1. api[c] \in Version /\ cache[c] \in Version /\ loc[c] \in Work
      BY DEF TypeOK
    <2>2. QED BY <2>1 DEF Version, Work, Holds
  <1>2. \A s \in Slugs : Home[s] = c => apps[s].prov \in Held0
    BY DEF TypeOK, App, Holds
  <1>3. p # NoPk
    BY PkIs
  <1>4. TypeOK'
    BY NextTypes DEF Next, CRStep
  <1> DEFINE V == {v \in Version : v.prov \in Held0}
  <1>5. cache[c] \in V /\ \A i \in 1..Len(pending[c]) : pending[c][i] \in V
    <2>1. cache[c] \in Version /\ pending[c] \in Seq(Version)
      BY DEF TypeOK
    <2>2. \A i \in 1..Len(pending[c]) : pending[c][i] \in Version
      BY <2>1
    <2>3. \A i \in 1..Len(pending[c]) : pending[c][i].prov \in Held0
      BY <2>2 DEF Version, Holds
    <2>4. QED BY <1>1, <2>1, <2>2, <2>3
  <1>6. p \in Held0 => Holds(Home, c, p)
    BY <1>3
  <1>7. p \in Fresh => p = made + 1 /\ CreatesProvider(c)
    OBVIOUS
  <1>g. loc[c].id # NoId => Home[loc[c].id] = c /\ loc[c].id \in Slugs
    BY DEF Named, Mine, TypeOK, Work
  <1>c. CreatesProvider(c) => made + 1 \in Fresh
    BY CreatesIs DEF Ordered
  <1> HIDE DEF Held0, Fresh
  <1>8. api'[c] \in V
    <2>1. api'[c].prov \in {NoPk, api[c].prov, loc[c].wprov}
      BY ApiIs
    <2>2. QED BY <1>1, <1>4, <2>1 DEF TypeOK
  <1>9. \A v \in V : v.prov \in Held0
    OBVIOUS
  <1> HIDE DEF V
  <1>10. cache'[c] \in V /\ \A i \in 1..Len(pending'[c]) : pending'[c][i] \in V
    BY <1>5, <1>8, CopiesIs
  <1>11. loc'[c].prov \in P /\ loc'[c].target \in P /\ loc'[c].wprov \in P
    <2>1. CASE loc'[c] = loc[c] \/ loc'[c] = NoWork
      BY <1>1, <2>1, NoWorkIs
    <2>2. CASE Fetch(c)
      BY <1>1, <2>2, FetchIs
    <2>3. CASE GetApplication(c)
      <3>1. ExistingProvider(c) \in Held0
        BY <1>1, <1>2, <1>g DEF ExistingProvider, Found
      <3>2. QED BY <1>1, <2>3, <3>1, GetIs DEF Fetched
    <2>4. CASE ReplaceProvider(c) \/ DiscardProvider(c)
      BY <1>1, <2>4, DropIs DEF Fetched
    <2>5. CASE PatchProvider(c)
      BY <1>1, <2>1, <2>5, PatchIs DEF Fetched, Provided
    <2>6. CASE CreateProvider(c)
      BY <1>1, <1>c, <2>1, <2>6, CreateIs DEF Fetched, Provided
    <2>7. CASE UpsertApplication(c)
      BY <1>1, <2>1, <2>7, UpsertIs DEF Fetched
    <2>8. CASE Cleanup(c)
      BY <1>1, <2>8, CleanupIs
    <2>9. CASE CleanupReads(c)
      BY <1>1, <1>2, <1>g, <2>9, CleanupReadsIs DEF Fetched, Found
    <2>10. QED BY <2>1, <2>2, <2>3, <2>4, <2>5, <2>6, <2>7, <2>8, <2>9, SameWork
  <1>12. \A s \in Slugs : Home[s] = c => apps'[s].prov \in Held0
    <2>1. Effect(c) /\ Objects /\ loc[c].app \in {NoId, loc[c].id}
      BY EffectIs DEF Ordered, Local, Working
    <2>2. QED BY <1>1, <1>2, <2>1, AppsOwn
  <1>13. p \in P
    <2>1. CASE p \in {api'[c].prov, cache'[c].prov, loc'[c].prov, loc'[c].target, loc'[c].wprov}
      BY <1>8, <1>9, <1>10, <1>11, <2>1
    <2>2. CASE \E i \in 1..Len(pending'[c]) : pending'[c][i].prov = p
      BY <1>9, <1>10, <2>2
    <2>3. CASE \E s \in Slugs : Home[s] = c /\ apps'[s].prov = p
      BY <1>12, <2>3
    <2>4. QED BY <2>1, <2>2, <2>3 DEF Holds
  <1>14. p \in Held0 \/ p \in Fresh
    BY <1>13
  <1>15. QED BY <1>6, <1>7, <1>14

\* Others make it hold none.
LEMMA HoldsOthers ==
  ASSUME TypeOK, Ordered, NEW Home \in [Slugs -> CRs], Placed(Home),
         NEW c \in CRs, Named(Home, c), CRStep(c),
         NEW d \in CRs \ {c}, NEW p \in Pks, Holds(Home, d, p)'
  PROVE  Holds(Home, d, p)
  <1>1. /\ api'[d] = api[d] /\ cache'[d] = cache[d] /\ pending'[d] = pending[d]
        /\ loc'[d] = loc[d]
    BY OneMoves
  <1>2. Effect(c) /\ Objects /\ loc[c].app \in {NoId, loc[c].id} /\ p # NoPk
    BY EffectIs, PkIs DEF Ordered, Local, Working
  <1>3. \A s \in Slugs : Home[s] = d /\ apps'[s].prov = p => apps[s].prov = p
    BY <1>2, AppsOwn
  <1>4. QED BY <1>1, <1>3 DEF Holds

\* People make the CR of a slug hold a provider of theirs, a new one.
LEMMA HoldsPeople ==
  ASSUME TypeOK, Ordered, NEW Home \in [Slugs -> CRs], HumanStep
  PROVE  \E c \in CRs :
            /\ \A d \in CRs \ {c}, p \in Pks : Holds(Home, d, p)' => Holds(Home, d, p)
            /\ \A p \in Pks : Holds(Home, c, p)' =>
                  Holds(Home, c, p) \/ (p = made + 1 /\ made' = made + 1 /\ provs'[p].owner = Human)
  <1> DEFINE G(c) ==
            /\ \A d \in CRs \ {c}, p \in Pks : Holds(Home, d, p)' => Holds(Home, d, p)
            /\ \A p \in Pks : Holds(Home, c, p)' =>
                  Holds(Home, c, p) \/ (p = made + 1 /\ made' = made + 1 /\ provs'[p].owner = Human)
  <1>1. /\ UNCHANGED <<api, cache, pending, loc>> /\ HumanEffect /\ Objects
        /\ NoPk \notin Pks
    BY HumanEffectIs, PkIs DEF Ordered
  <1>2. PICK s0 \in Slugs : Home[s0] \in CRs
    BY NameAssumption
  <1>3. ASSUME \A s \in Slugs : apps'[s].prov \in {NoPk, apps[s].prov}
        PROVE  G(Home[s0])
    <2>1. ASSUME NEW d \in CRs, NEW p \in Pks, Holds(Home, d, p)' PROVE Holds(Home, d, p)
      <3>1. p # NoPk
        BY <1>1
      <3>2. \A s \in Slugs : apps'[s].prov = p => apps[s].prov = p
        BY <1>3, <3>1
      <3>3. QED BY <1>1, <2>1, <3>2 DEF Holds
    <2>2. QED BY <1>2, <2>1
  <1>4. ASSUME NEW p \in Pks, DeletesProvider(p) PROVE G(Home[s0])
    <2>1. ASSUME NEW s \in Slugs PROVE apps'[s].prov \in {NoPk, apps[s].prov}
      <3>1. apps[s] \in App
        BY DEF TypeOK
      <3>2. apps'[s] = [apps[s] EXCEPT !.prov = NoPk] \/ apps'[s] = apps[s]
        BY <1>4 DEF DeletesProvider, WithoutProvider
      <3>3. QED BY <3>1, <3>2 DEF App
    <2>2. QED BY <1>3, <2>1
  <1>5. ASSUME NEW s \in Slugs, apps' = [apps EXCEPT ![s] = NoApp] PROVE G(Home[s0])
    <2>1. \A t \in Slugs : apps'[t].prov \in {NoPk, apps[t].prov}
      BY <1>5 DEF TypeOK, NoApp
    <2>2. QED BY <1>3, <2>1
  <1>6. ASSUME NEW s \in Slugs, NEW k \in Kinds, HumanPoints(s, k) PROVE G(Home[s])
    <2>1. /\ made' = made + 1 /\ provs'[made + 1].owner = Human
          /\ \A t \in Slugs \ {s} : apps'[t] = apps[t]
          /\ apps'[s].prov = made + 1
      BY <1>1, <1>6, PointsIs
    <2>2. ASSUME NEW d \in CRs, NEW p \in Pks, Holds(Home, d, p)'
          PROVE  Holds(Home, d, p) \/ (d = Home[s] /\ p = made + 1)
      <3>1. \A t \in Slugs : apps'[t].prov = p => apps[t].prov = p \/ (t = s /\ p = made + 1)
        BY <2>1
      <3>2. QED BY <1>1, <2>2, <3>1 DEF Holds
    <2>3. QED BY <2>1, <2>2
  <1>7. QED
    <2>1. \A s \in Slugs : Home[s] \in CRs
      OBVIOUS
    <2>2. QED BY <1>1, <1>2, <1>4, <1>5, <1>6, <2>1 DEF HumanEffect

\* Whoever acts, at most one CR comes to hold a provider, a new one.
LEMMA HoldsStep ==
  ASSUME TypeOK, Ordered, NEW Home \in [Slugs -> CRs], Realms(Home), [Next]_vars
  PROVE  \E c \in CRs :
            /\ \A d \in CRs \ {c}, p \in Pks : Holds(Home, d, p)' => Holds(Home, d, p)
            /\ \A p \in Pks : Holds(Home, c, p)' =>
                  \/ Holds(Home, c, p)
                  \/ p = made + 1 /\ made' = made + 1 /\ provs'[p].owner \in {c, Human}
  <1>1. ASSUME NEW c \in CRs, CRStep(c)
        PROVE  /\ \A d \in CRs \ {c}, p \in Pks : Holds(Home, d, p)' => Holds(Home, d, p)
               /\ \A p \in Pks : Holds(Home, c, p)' =>
                  \/ Holds(Home, c, p)
                  \/ p = made + 1 /\ made' = made + 1 /\ provs'[p].owner \in {c, Human}
    <2>1. Placed(Home) /\ Named(Home, c)
      BY DEF Realms
    <2>2. ASSUME CreatesProvider(c) PROVE made' = made + 1 /\ provs'[made + 1].owner = c
      <3>1. /\ made' = made + 1
            /\ provs'[made + 1] = [owner |-> c, name |-> c, kind |-> loc[c].kind,
                                   attached |-> FALSE, live |-> TRUE]
        BY <2>2, CreatesIs DEF Ordered
      <3>2. QED BY <3>1
    <2>3. QED BY <1>1, <2>1, <2>2, HoldsOwn, HoldsOthers
  <1>2. CASE HumanStep
    BY <1>2, HoldsPeople
  <1>3. ASSUME Crash \/ UNCHANGED vars
        PROVE  \A d \in CRs, p \in Pks : Holds(Home, d, p)' => Holds(Home, d, p)
    <2>1. SUFFICES ASSUME NEW d \in CRs, NEW p \in Pks, Holds(Home, d, p)'
                   PROVE  Holds(Home, d, p)
      OBVIOUS
    <2>2. CASE UNCHANGED vars
      BY <2>1, <2>2 DEF vars, authentik, Holds
    <2>3. CASE Crash
      <3>1. /\ api' = api /\ cache' = api /\ apps' = apps
            /\ pending'[d] = <<>> /\ loc'[d] = NoWork
        BY <2>3 DEF Crash, authentik
      <3>2. NoPk \notin Pks /\ 1..Len(<<>>) = {}
        BY PkIs
      <3>3. QED BY <2>1, <3>1, <3>2, NoWorkIs DEF Holds
    <2>4. QED BY <1>3, <2>2, <2>3
  <1>4. \E c \in CRs : TRUE
    BY NameAssumption
  <1>5. QED BY <1>1, <1>2, <1>3, <1>4 DEF Next, CRStep

LEMMA InitRealms ==
  ASSUME NEW Home \in [Slugs -> CRs]
  PROVE  Init => Realms(Home)
  <1>1. SUFFICES ASSUME Init PROVE Realms(Home)
    OBVIOUS
  <1>2. Placed(Home)
    BY <1>1 DEF Init, Placed, NoApp
  <1>3. ASSUME NEW c \in CRs PROVE Named(Home, c)
    BY <1>1, <1>3, NoWorkIs, EmptySeq DEF Init, Named, Mine, Blank, Applying
  <1>4. ASSUME NEW c \in CRs, NEW p \in Pks PROVE ~Holds(Home, c, p)
    <2>1. p # NoPk /\ 1..Len(<<>>) = {}
      BY PkIs
    <2>2. QED BY <1>1, <1>4, <2>1, NoWorkIs DEF Init, Holds, Blank, NoApp
  <1>5. QED BY <1>2, <1>3, <1>4 DEF Realms, Parted

LEMMA NextRealms ==
  ASSUME NEW Home \in [Slugs -> CRs]
  PROVE  TypeOK /\ Ordered /\ Reserved(Home) /\ Realms(Home) /\ [Next]_vars => Realms(Home)'
  <1>1. SUFFICES ASSUME TypeOK, Ordered, Reserved(Home), Realms(Home), [Next]_vars
                 PROVE  Realms(Home)'
    OBVIOUS
  <1>2. Endures /\ Objects /\ TypeOK'
    BY <1>1, EffectIsStep, NextTypes DEF Ordered
  <1>3. ASSUME NEW s \in Slugs PROVE apps'[s].owner \in {Home[s], Human}
    <2>1. ASSUME NEW c \in CRs, CRStep(c) PROVE apps'[s].owner \in {Home[s], Human}
      <3>1. Effect(c) /\ loc[c].app \in {NoId, loc[c].id}
        BY <1>1, <2>1, EffectIs DEF Ordered, Local, Working
      <3>2. QED BY <1>1, <1>2, <3>1, AppsOwn DEF Realms, Placed
    <2>2. ASSUME HumanStep PROVE apps'[s].owner \in {Home[s], Human}
      <3>1. HumanEffect
        BY <1>1, <2>2, HumanEffectIs
      <3>2. ASSUME NEW p \in Pks, DeletesProvider(p) PROVE apps'[s].owner = apps[s].owner
        <4>1. apps[s] \in App
          BY <1>1 DEF TypeOK
        <4>2. apps'[s] = [apps[s] EXCEPT !.prov = NoPk] \/ apps'[s] = apps[s]
          BY <3>2 DEF DeletesProvider, WithoutProvider
        <4>3. QED BY <4>1, <4>2 DEF App
      <3>3. ASSUME NEW t \in Slugs, apps' = [apps EXCEPT ![t] = NoApp]
            PROVE  apps'[s].owner \in {apps[s].owner, Human}
        BY <1>1, <3>3 DEF TypeOK, NoApp
      <3>4. ASSUME NEW t \in Slugs, NEW k \in Kinds, HumanPoints(t, k)
            PROVE  apps'[s].owner = apps[s].owner
        BY <1>1, <1>2, <3>4, PointsIs
      <3>5. QED BY <1>1, <3>1, <3>2, <3>3, <3>4 DEF HumanEffect, Realms, Placed
    <2>3. ASSUME Crash \/ UNCHANGED vars PROVE apps'[s].owner \in {Home[s], Human}
      BY <1>1, <2>3 DEF Crash, vars, authentik, Realms, Placed
    <2>4. QED BY <1>1, <2>1, <2>2, <2>3 DEF Next, CRStep
  <1>4. ASSUME NEW c \in CRs PROVE Named(Home, c)'
    <2>0. Named(Home, c)
      BY <1>1 DEF Realms
    <2>1. CASE CRStep(c)
      BY <1>1, <2>0, <2>1, NamedKept
    <2>2. ASSUME UNCHANGED <<api, cache, pending, pc, loc>> PROVE Named(Home, c)'
      BY <2>0, <2>2 DEF Named
    <2>3. ASSUME NEW d \in CRs \ {c}, CRStep(d) PROVE Named(Home, c)'
      <3>1. /\ api'[c] = api[c] /\ cache'[c] = cache[c] /\ pending'[c] = pending[c]
            /\ pc'[c] = pc[c] /\ loc'[c] = loc[c]
        BY <1>1, <2>3, OneMoves
      <3>2. QED BY <2>0, <3>1 DEF Named
    <2>4. CASE Crash
      <3>1. /\ api' = api /\ cache' = api /\ pending'[c] = <<>> /\ loc'[c] = NoWork
            /\ pc'[c] = "idle"
        BY <2>4 DEF Crash
      <3>2. 1..Len(<<>>) = {}
        OBVIOUS
      <3>3. QED BY <2>0, <3>1, <3>2, NoWorkIs DEF Named, Mine, Applying
    <2>5. QED BY <1>1, <2>1, <2>2, <2>3, <2>4, HumanEffectIs DEF Next, CRStep, vars
  <1>5. ASSUME NEW c \in CRs, NEW p \in Pks, Holds(Home, c, p)'
        PROVE  /\ p <= made' /\ provs'[p].owner \in {c, Human}
               /\ \A d \in CRs : Holds(Home, d, p)' => d = c
    <2>1. PICK e \in CRs :
            /\ \A d \in CRs \ {e}, q \in Pks : Holds(Home, d, q)' => Holds(Home, d, q)
            /\ \A q \in Pks : Holds(Home, e, q)' =>
                  \/ Holds(Home, e, q)
                  \/ q = made + 1 /\ made' = made + 1 /\ provs'[q].owner \in {e, Human}
      BY <1>1, HoldsStep
    <2>2. made \in Nat /\ made' \in Nat /\ made <= made' /\ p \in Nat
      BY <1>1, <1>2, BoundsAssumption, PkIs DEF TypeOK, Endures
    <2>3. \A d \in CRs : Holds(Home, d, p) =>
            /\ p <= made /\ provs[p].owner \in {d, Human}
            /\ \A f \in CRs : Holds(Home, f, p) => f = d
      BY <1>1 DEF Realms, Parted
    <2>4. CASE Holds(Home, c, p)
      <3>1. p <= made /\ p <= made' /\ p # made + 1
        BY <2>2, <2>3, <2>4
      <3>2. provs'[p].owner = provs[p].owner
        BY <1>2, <3>1 DEF Endures
      <3>3. QED BY <2>1, <2>3, <2>4, <3>1, <3>2
    <2>5. CASE ~Holds(Home, c, p)
      <3>1. c = e /\ p = made + 1 /\ made' = made + 1 /\ provs'[p].owner \in {c, Human}
        BY <1>5, <2>1, <2>5
      <3>2. \A d \in CRs : ~Holds(Home, d, p)
        BY <2>2, <2>3, <3>1
      <3>3. QED BY <2>1, <2>2, <3>1, <3>2
    <2>6. QED BY <2>4, <2>5
  <1>6. QED BY <1>3, <1>4, <1>5 DEF Realms, Placed, Parted

\* CRs whose specs never ask for one slug do not meet: what each of them records and carries is of
\* its own application, or of people's, through every failure, stale copy and deletion.
THEOREM ApartWhenReserved ==
  ASSUME NEW Home \in [Slugs -> CRs]
  PROVE  Spec /\ []Reserved(Home) => []Apart
  <1>1. TypeOK /\ Ordered /\ Realms(Home) => Apart
    BY RealmsAreApart
  <1>2. QED BY <1>1, InitRealms, NextRealms, AlwaysOrdered, PTL DEF Spec

\* What the operator promises of each application, for any number of CRs that are never given the
\* same slug: the credentials precede what uses them, nothing made is lost track of, a cleanup that
\* ends leaves nothing, and nothing is disrupted unasked.
COROLLARY EachItsSlugs ==
  ASSUME NEW Home \in [Slugs -> CRs]
  PROVE  Spec /\ []Reserved(Home) =>
            /\ [](CredentialsPrecedeUse /\ NothingLost /\ CleanupLeavesNothing)
            /\ NoDisruptionUnasked
  BY ApartWhenReserved, CredentialsFirst, NothingIsLost, CleanupIsThorough, NoneDisruptedUnasked,
     PTL
=============================================================================
