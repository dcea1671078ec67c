------------------------ MODULE BrandElection_proofs ------------------------
(***************************************************************************)
(* What the election of a default brand promises for every number of       *)
(* brands, generations, undelivered versions, faults and changes by        *)
(* people: its types, that a brand which does not claim the default takes  *)
(* it from nobody, and that one which says it gave it up has.              *)
(***************************************************************************)
EXTENDS BrandElection, FiniteSetTheorems, SequenceTheorems, TLAPS

\* The flag is moved for a brand that exists.
BrandMade == \A c \in CRs : pc[c] \in {"toggle", "disable", "enable", "release"} => c \in brands

Typed == TypeOK /\ BrandMade

-----------------------------------------------------------------------------
(* What the operators return.                                              *)

LEMMA BlankTypes == Blank \in Version /\ NoStatus \in Status /\ NoWork \in Work /\ 0 \in Stamps
  <1>1. 0 \in Stamps
    BY CRsAssumption, FS_CardinalityType DEF Stamps
  <1>2. QED
    BY <1>1, BoundsAssumption
    DEF Blank, NoStatus, NoWork, Version, Status, Work

LEMMA WriteType ==
  ASSUME TypeOK, NEW c \in CRs, NEW v \in Version, Write(c, v)
  PROVE  api' \in [CRs -> Version] /\ pending' \in [CRs -> Seq(Version)]
  <1>1. Append(pending[c], v) \in Seq(Version)
    BY DEF TypeOK
  <1>2. QED BY <1>1 DEF TypeOK, Write

LEMMA GotoType ==
  ASSUME TypeOK, NEW c \in CRs, NEW step \in Steps, NEW w \in Work, Goto(c, step, w)
  PROVE  pc' \in [CRs -> Steps] /\ loc' \in [CRs -> Work]
  BY DEF TypeOK, Goto

\* A reconcile that goes on moves the flag for a brand that exists, and none is deleted.
LEMMA GotoMade ==
  ASSUME TypeOK, BrandMade, NEW c \in CRs, NEW step, NEW w, Goto(c, step, w),
         step \in {"toggle", "disable", "enable", "release"} => c \in brands',
         brands \ {c} \subseteq brands'
  PROVE  BrandMade'
  BY DEF TypeOK, BrandMade, Goto

LEMMA FaultType == TypeOK /\ Fault => faults' \in 0..MaxFaults
  BY BoundsAssumption DEF TypeOK, Fault

-----------------------------------------------------------------------------
(* Type correctness.                                                       *)

LEMMA InitTyped == Init => Typed
  <1> SUFFICES ASSUME Init PROVE Typed
    OBVIOUS
  <1>1. /\ api \in [CRs -> Version] /\ cache \in [CRs -> Version] /\ loc \in [CRs -> Work]
        /\ status \in [CRs -> Status] /\ gen \in [CRs -> 0..MaxGen]
    BY BlankTypes, BoundsAssumption DEF Init
  <1>2. pending \in [CRs -> Seq(Version)] /\ pc \in [CRs -> Steps]
    BY DEF Init, Steps
  <1>3. faults \in 0..MaxFaults /\ disturb \in 0..MaxDisturb /\ late \subseteq Request
    BY BoundsAssumption DEF Init
  <1>4. QED BY <1>1, <1>2, <1>3 DEF Init, Typed, TypeOK, BrandMade

LEMMA UsersTyped ==
  ASSUME Typed, (\E c \in CRs : UserStep(c)) \/ \E b \in CRs \cup {Native, Nobody} : HumanSetsDefault(b)
  PROVE  Typed'
  <1> USE DEF Typed
  <1>1. ASSUME NEW c \in CRs, NEW claims \in BOOLEAN, NEW born \in Stamps,
               UserCreates(c, claims, born)
        PROVE  Typed'
    <2>1. [Blank EXCEPT !.phase = "live", !.born = born, !.claims = claims] \in Version
      BY BlankTypes DEF Version
    <2>2. gen' \in [CRs -> 0..MaxGen]
      BY <1>1, BoundsAssumption DEF UserCreates, TypeOK
    <2>3. QED BY <1>1, <2>1, <2>2, WriteType DEF UserCreates, TypeOK, BrandMade
  <1>2. ASSUME NEW c \in CRs, UserTogglesDefault(c) PROVE Typed'
    <2>1. [api[c] EXCEPT !.claims = ~@] \in Version
      BY DEF TypeOK, Version
    <2>2. gen' \in [CRs -> 0..MaxGen]
      BY <1>2, BoundsAssumption DEF UserTogglesDefault, TypeOK
    <2>3. QED BY <1>2, <2>1, <2>2, WriteType DEF UserTogglesDefault, TypeOK, BrandMade
  <1>3. ASSUME NEW c \in CRs, UserDeletes(c) PROVE Typed'
    <2>v. \A v \in Version : [v EXCEPT !.phase = "deleting"] \in Version
      BY DEF Version
    <2>1. [api[c] EXCEPT !.phase = "deleting"] \in Version
      BY <2>v DEF TypeOK
    <2>2. QED BY <1>3, <2>1, WriteType DEF UserDeletes, TypeOK, BrandMade
  <1>4. ASSUME NEW b \in CRs \cup {Native, Nobody}, HumanSetsDefault(b) PROVE Typed'
    <2>1. disturb' \in 0..MaxDisturb
      BY <1>4, BoundsAssumption DEF HumanSetsDefault, Disturbance, TypeOK
    <2>2. QED BY <1>4, <2>1 DEF HumanSetsDefault, TypeOK, BrandMade
  <1>5. QED BY <1>1, <1>2, <1>3, <1>4 DEF UserStep

\* A reconcile's step to a step, with what it carries, that leaves the CRs alone.
LEMMA MoveTyped ==
  ASSUME Typed, NEW c \in CRs, NEW step \in Steps, NEW w \in Work, Goto(c, step, w),
         step \in {"toggle", "disable", "enable", "release"} => c \in brands',
         brands \ {c} \subseteq brands', brands' \subseteq CRs,
         default' \in brands' \cup {Native, Nobody},
         due' \subseteq CRs, faults' \in 0..MaxFaults,
         late' \subseteq Request, disturb' \in 0..MaxDisturb,
         UNCHANGED <<api, cache, pending, gen, status>>
  PROVE  Typed'
  <1>1. pc' \in [CRs -> Steps] /\ loc' \in [CRs -> Work] /\ BrandMade'
    BY GotoType, GotoMade DEF Typed
  <1>2. QED BY <1>1 DEF Typed, TypeOK

\* A toggle leaves a default brand that exists, or none.
LEMMA ExecutesType ==
  ASSUME NEW r, Accepted(r), Executes(r), default \in brands \cup {Native, Nobody}
  PROVE  default' \in brands \cup {Native, Nobody}
  BY DEF Accepted, Executes, Exists

LEMMA ReconcileTyped ==
  ASSUME Typed, NEW c \in CRs, Deliver(c) \/ StartStep(c) \/ WorkStep(c) \/ FaultStep(c)
  PROVE  Typed'
  <1> USE DEF Typed
  <1>1. /\ api[c] \in Version /\ cache[c] \in Version /\ loc[c] \in Work /\ NoWork \in Work
        /\ gen[c] \in 0..MaxGen /\ faults \in 0..MaxFaults /\ due \subseteq CRs
        /\ brands \subseteq CRs /\ default \in brands \cup {Native, Nobody}
        /\ late \subseteq Request /\ disturb \in 0..MaxDisturb
    BY BlankTypes DEF TypeOK
  <1>2. CASE Deliver(c)
    <2>1. Head(pending[c]) \in Version /\ Tail(pending[c]) \in Seq(Version)
      BY <1>2 DEF Deliver, TypeOK
    <2>2. QED BY <1>2, <2>1 DEF Deliver, TypeOK, BrandMade
  <1>3. CASE Fetch(c)
    <2>1. [NoWork EXCEPT !.gen = gen[c], !.claims = api[c].claims,
                         !.recorded = api[c].recorded] \in Work
      BY <1>1 DEF Work, Version
    <2>2. QED BY <1>1, <1>3, <2>1, MoveTyped DEF Fetch, Steps, Applying
  <1>4. CASE Cleanup(c)
    BY <1>1, <1>4, MoveTyped DEF Cleanup, Steps
  <1>5. CASE SyncBrand(c)
    <2>1. [loc[c] EXCEPT !.made = TRUE, !.recorded = FALSE] \in Work
      BY <1>1 DEF Work
    <2>2. brands' \subseteq CRs /\ brands \subseteq brands'
      BY <1>1, <1>5 DEF SyncBrand
    <2>3. CASE Goto(c, "toggle", [loc[c] EXCEPT !.made = TRUE, !.recorded = FALSE])
               /\ c \in brands'
      BY <1>1, <1>5, <2>1, <2>2, <2>3, MoveTyped DEF SyncBrand, Steps, Applying
    <2>4. CASE Goto(c, "conflict", loc[c]) \/ Goto(c, "failed", loc[c])
      BY <1>1, <1>5, <2>2, <2>4, MoveTyped DEF SyncBrand, Steps
    <2>5. QED BY <1>5, <2>3, <2>4 DEF SyncBrand
  <1>6. CASE GetDefault(c)
    <2>1. Toggle(c) \in {"synced", "enable", "disable", "release"}
      BY DEF Toggle
    <2>2. [loc[c] EXCEPT !.current = IF Toggle(c) = "disable" THEN default ELSE Nobody] \in Work
      BY <1>1 DEF Work
    <2>3. c \in brands
      BY <1>6 DEF GetDefault, BrandMade
    <2>4. QED BY <1>1, <1>6, <2>1, <2>2, <2>3, MoveTyped DEF GetDefault, Steps, Applying
  <1>7. CASE DisableCurrent(c)
    <2>1. c \in brands
      BY <1>7 DEF DisableCurrent, BrandMade
    <2>2. QED BY <1>1, <1>7, <2>1, MoveTyped DEF DisableCurrent, Steps, Applying
  <1>8. CASE EnableOwn(c)
    <2>1. c \in brands
      BY <1>8 DEF EnableOwn, BrandMade
    <2>2. QED BY <1>1, <1>8, <2>1, MoveTyped DEF EnableOwn, Steps
  <1>9. CASE ReleaseOwn(c)
    BY <1>1, <1>9, MoveTyped DEF ReleaseOwn, Steps
  <1>10. CASE DeleteBrand(c)
    <2>1. default' \in brands' \cup {Native, Nobody}
      BY <1>1, <1>10 DEF DeleteBrand
    <2>2. QED BY <1>1, <1>10, <2>1, MoveTyped DEF DeleteBrand, Steps
  <1>11. CASE Publish(c)
    <2>1. [api[c] EXCEPT !.recorded = @ \/ loc[c].made] \in Version
      BY <1>1 DEF Version, Work
    <2>2. api' \in [CRs -> Version] /\ pending' \in [CRs -> Seq(Version)]
      BY <1>11, <2>1, WriteType DEF Publish, TypeOK
    <2>3. [observed |-> Observed(c), ready |-> pc[c]] \in Status
      BY <1>1, <1>11 DEF Publish, Observed, TypeOK, Status, Work
    <2>4. status' \in [CRs -> Status]
      BY <1>11, <2>3 DEF Publish, TypeOK
    <2>5. pc' \in [CRs -> Steps] /\ loc' \in [CRs -> Work] /\ BrandMade'
      BY <1>1, <1>11, GotoType, GotoMade DEF Publish, Steps
    <2>6. QED BY <1>11, <2>2, <2>4, <2>5 DEF Publish, Requeued, TypeOK
  <1>12. CASE RemoveFinalizer(c)
    <2>1. [Blank EXCEPT !.phase = "gone", !.born = api[c].born] \in Version
      BY <1>1, BlankTypes DEF Version
    <2>2. api' \in [CRs -> Version] /\ pending' \in [CRs -> Seq(Version)]
      BY <1>12, <2>1, WriteType DEF RemoveFinalizer, TypeOK
    <2>3. gen' \in [CRs -> 0..MaxGen] /\ status' \in [CRs -> Status]
      <3>1. 0 \in 0..MaxGen /\ NoStatus \in Status
        BY BlankTypes, BoundsAssumption
      <3>2. CASE UNCHANGED <<gen, status>>
        BY <3>2 DEF TypeOK
      <3>3. CASE gen' = [gen EXCEPT ![c] = 0] /\ status' = [status EXCEPT ![c] = NoStatus]
        BY <3>1, <3>3 DEF TypeOK
      <3>4. QED BY <1>12, <3>2, <3>3 DEF RemoveFinalizer
    <2>4. pc' \in [CRs -> Steps] /\ loc' \in [CRs -> Work] /\ BrandMade'
      BY <1>1, <1>12, GotoType, GotoMade DEF RemoveFinalizer, Steps
    <2>5. QED BY <1>12, <2>2, <2>3, <2>4 DEF RemoveFinalizer, TypeOK
  <1>13. CASE CallFails(c)
    BY <1>1, <1>13, FaultType, MoveTyped DEF CallFails, Steps
  <1>14. CASE ReplyLost(c)
    <2>1. default' \in brands' \cup {Native, Nobody}
      BY <1>1, <1>14, ExecutesType DEF ReplyLost
    <2>2. brands' \subseteq CRs /\ brands \subseteq brands'
      BY <1>1, <1>14 DEF ReplyLost
    <2>3. QED BY <1>1, <1>14, <2>1, <2>2, FaultType, MoveTyped DEF ReplyLost, Steps
  <1>15. CASE ToggleTimesOut(c)
    <2>1. Asked(c) \in Request
      BY <1>1 DEF Asked, Request, Work
    <2>2. disturb' \in 0..MaxDisturb
      BY <1>1, <1>15, BoundsAssumption DEF ToggleTimesOut, Disturbance
    <2>3. QED BY <1>1, <1>15, <2>1, <2>2, FaultType, MoveTyped DEF ToggleTimesOut, Steps
  <1>16. CASE WriteBackFails(c)
    BY <1>1, <1>16, FaultType, MoveTyped DEF WriteBackFails, Steps
  <1>17. QED
    BY <1>2, <1>3, <1>4, <1>5, <1>6, <1>7, <1>8, <1>9, <1>10, <1>11, <1>12, <1>13, <1>14, <1>15, <1>16
    DEF StartStep, WorkStep, FaultStep

LEMMA LateTyped ==
  ASSUME Typed, NEW r \in late, LateToggle(r)
  PROVE  Typed'
  <1>1. default' \in brands \cup {Native, Nobody}
    BY ExecutesType DEF LateToggle, Typed, TypeOK
  <1>2. QED BY <1>1 DEF LateToggle, Typed, TypeOK, BrandMade

LEMMA NextTyped == Typed /\ [Next]_vars => Typed'
  <1> SUFFICES ASSUME Typed, [Next]_vars PROVE Typed'
    OBVIOUS
  <1>1. CASE UNCHANGED vars
    BY <1>1 DEF vars, Typed, TypeOK, BrandMade
  <1>2. CASE Crash
    <2>1. /\ pc' \in [CRs -> Steps] /\ loc' \in [CRs -> Work]
          /\ \A c \in CRs : pc'[c] = "idle"
      BY <1>2, BlankTypes DEF Crash, Steps
    <2>2. pending' \in [CRs -> Seq(Version)] /\ due' = CRs
      BY <1>2 DEF Crash
    <2>3. QED BY <1>2, <2>1, <2>2, FaultType DEF Crash, Typed, TypeOK, BrandMade
  <1>3. CASE Next
    BY <1>2, <1>3, UsersTyped, ReconcileTyped, LateTyped DEF Next
  <1>4. QED BY <1>1, <1>3

\* Every variable keeps to its values, and the default brand is one that exists.
THEOREM TypeCorrect == Spec => []TypeOK
  BY InitTyped, NextTyped, PTL DEF Spec, Typed

-----------------------------------------------------------------------------
(* Who takes the default from another.                                     *)

\* Only for a brand that claims the default is it taken away or set.
TakersClaim == \A c \in CRs : pc[c] \in {"disable", "enable"} => loc[c].claims

\* What each step does to the flag and to its reconcile.
LEMMA GotoClaims ==
  ASSUME TypeOK, TakersClaim, NEW c \in CRs, NEW step, NEW w, Goto(c, step, w),
         step \in {"disable", "enable"} => w.claims
  PROVE  TakersClaim'
  BY DEF TypeOK, TakersClaim, Goto

LEMMA NextTakers == TypeOK /\ TakersClaim /\ [Next]_vars => TakersClaim'
  <1> SUFFICES ASSUME TypeOK, TakersClaim, [Next]_vars PROVE TakersClaim'
    OBVIOUS
  <1>1. CASE UNCHANGED <<pc, loc>>
    BY <1>1 DEF TakersClaim
  <1>2. CASE Crash
    BY <1>2 DEF Crash, TakersClaim
  <1>3. ASSUME NEW c \in CRs, GetDefault(c) PROVE TakersClaim'
    <2> DEFINE w == [loc[c] EXCEPT !.current =
                        IF Toggle(c) = "disable" THEN default ELSE Nobody]
    <2>1. w.claims = loc[c].claims
      BY DEF TypeOK, Work
    <2>2. Toggle(c) \in {"disable", "enable"} => loc[c].claims
      BY DEF Toggle
    <2>3. Goto(c, Toggle(c), w)
      BY <1>3 DEF GetDefault
    <2> HIDE DEF w
    <2>4. QED BY <2>1, <2>2, <2>3, GotoClaims
  <1>4. ASSUME NEW c \in CRs, DisableCurrent(c) PROVE TakersClaim'
    <2>1. loc[c].claims
      BY <1>4 DEF DisableCurrent, TakersClaim
    <2>2. QED BY <1>4, <2>1, GotoClaims DEF DisableCurrent
  <1>5. ASSUME NEW c \in CRs,
               Fetch(c) \/ Cleanup(c) \/ SyncBrand(c) \/ EnableOwn(c) \/ ReleaseOwn(c)
               \/ Publish(c) \/ DeleteBrand(c) \/ RemoveFinalizer(c) \/ FaultStep(c)
        PROVE  TakersClaim'
    <2>1. PICK step, w : step \in Steps \ {"disable", "enable"} /\ Goto(c, step, w)
      BY <1>5 DEF Fetch, Cleanup, SyncBrand, EnableOwn, ReleaseOwn, Publish, DeleteBrand,
                  RemoveFinalizer, FaultStep, CallFails, ReplyLost, ToggleTimesOut,
                  WriteBackFails, Steps, Applying
    <2>2. QED BY <2>1, GotoClaims
  <1>6. ASSUME NEW c \in CRs, UserStep(c) \/ Deliver(c) PROVE UNCHANGED <<pc, loc>>
    BY <1>6 DEF UserStep, UserCreates, UserTogglesDefault, UserDeletes, Deliver
  <1>7. CASE Next
    BY <1>1, <1>2, <1>3, <1>4, <1>5, <1>6, <1>7
    DEF Next, StartStep, WorkStep, HumanSetsDefault, LateToggle
  <1>8. QED BY <1>1, <1>7 DEF vars

\* The brand of another CR, or Authentik's own, is deprived of the default only by a
\* reconcile that read a claim of its CR.
THEOREM TakenOnlyByClaimants == Spec => OnlyClaimantsTakeOver
  <1>1. Init => TakersClaim
    BY DEF Init, TakersClaim
  <1>2. TypeOK /\ TakersClaim /\ [Next]_vars
        => [\A c \in CRs : pc'[c] # pc[c] /\ pc[c] \in Applying
               /\ default # c /\ default' # default
               => loc[c].claims]_vars
    <2> SUFFICES ASSUME TypeOK, TakersClaim, Next, NEW c \in CRs, pc'[c] # pc[c],
                        pc[c] \in Applying, default # c, default' # default
                 PROVE  loc[c].claims
      OBVIOUS
    <2>1. ASSUME NEW d \in CRs, DisableCurrent(d) \/ EnableOwn(d) PROVE loc[c].claims
      <3>1. d = c
        BY <2>1 DEF DisableCurrent, EnableOwn, Goto, TypeOK
      <3>2. QED BY <2>1, <3>1 DEF DisableCurrent, EnableOwn, TakersClaim
    <2>2. ASSUME NEW d \in CRs, ReleaseOwn(d) \/ DeleteBrand(d) PROVE FALSE
      <3>1. d = c
        BY <2>2 DEF ReleaseOwn, DeleteBrand, Goto, TypeOK
      <3>2. QED BY <2>2, <3>1 DEF ReleaseOwn, DeleteBrand, Applying
    <2>3. ASSUME NEW b, HumanSetsDefault(b) \/ \E r \in late : LateToggle(r) PROVE FALSE
      BY <2>3 DEF HumanSetsDefault, LateToggle
    <2>4. ASSUME NEW d \in CRs,
                 UserStep(d) \/ Deliver(d) \/ StartStep(d) \/ SyncBrand(d) \/ GetDefault(d)
                 \/ Publish(d) \/ RemoveFinalizer(d) \/ CallFails(d) \/ ToggleTimesOut(d)
                 \/ WriteBackFails(d) \/ Crash
          PROVE  FALSE
      BY <2>4 DEF UserStep, UserCreates, UserTogglesDefault, UserDeletes, Deliver, StartStep,
                  Fetch, Cleanup, SyncBrand, GetDefault, Publish, RemoveFinalizer,
                  CallFails, ToggleTimesOut, WriteBackFails, Crash
    <2>5. ASSUME NEW d \in CRs, ReplyLost(d) PROVE loc[c].claims
      <3>1. d = c
        BY <2>5 DEF ReplyLost, Goto, TypeOK
      <3>2. pc[c] \in Toggling /\ Executes(Asked(c))
        BY <2>5, <3>1 DEF ReplyLost
      <3>3. pc[c] # "release"
        BY <3>2 DEF Executes, Asked
      <3>4. QED BY <3>2, <3>3 DEF Toggling, TakersClaim
    <2>6. QED BY <2>1, <2>2, <2>3, <2>4, <2>5 DEF Next, WorkStep, FaultStep
  <1>3. QED BY <1>1, <1>2, TypeCorrect, NextTakers, PTL DEF Spec, OnlyClaimantsTakeOver

-----------------------------------------------------------------------------
(* A claim that is given up.                                               *)

Underway(c) == pc[c] \in Applying \cup {"synced", "conflict", "failed"}

\* Generations tell specs apart: what a reconcile fetched is what the CR asks for while
\* it is of its generation, and no later one was published.
SpecKnown(c) ==
    /\ status[c].observed <= gen[c]
    /\ api[c].phase = "absent" => gen[c] = 0 /\ ~Underway(c)
    /\ Underway(c) => /\ status[c].observed <= loc[c].gen /\ loc[c].gen <= gen[c]
                      /\ loc[c].gen = gen[c] => loc[c].claims = api[c].claims

\* A reconcile that gave the default up ends without it.
FlagReleased(c) == disturb = MaxDisturb /\ pc[c] = "synced" /\ ~loc[c].claims => default # c

\* A brand published as synced at its generation, and claiming nothing.
SaysReleased(c) ==
    status[c].ready = "synced" /\ status[c].observed = gen[c] /\ ~api[c].claims
StaysReleased(c) == disturb = MaxDisturb /\ SaysReleased(c) => default # c

CRStep(c) == UserStep(c) \/ Deliver(c) \/ StartStep(c) \/ WorkStep(c) \/ FaultStep(c)

\* No request was given up on while nothing disturbed Authentik.
NoneLate == disturb = MaxDisturb => late = {}

\* A CR's step leaves the other CRs as they were, and sets the default only to its own.
LEMMA OneMoves ==
  ASSUME TypeOK, NEW c \in CRs, CRStep(c)
  PROVE  /\ disturb' = MaxDisturb => disturb = MaxDisturb /\ late' = late
         /\ \/ default' \in {default, Nobody}
            \/ default' = c /\ pc[c] = "enable" /\ pc'[c] \in {"synced", "failed"}
         /\ \A d \in CRs \ {c} :
               /\ api'[d] = api[d] /\ gen'[d] = gen[d] /\ status'[d] = status[d]
               /\ pc'[d] = pc[d] /\ loc'[d] = loc[d]
  <1> USE DEF TypeOK
  <1>1. CASE UserStep(c)
    BY <1>1 DEF UserStep, UserCreates, UserTogglesDefault, UserDeletes, Write
  <1>2. CASE Deliver(c)
    BY <1>2 DEF Deliver
  <1>3. CASE StartStep(c) \/ SyncBrand(c) \/ GetDefault(c)
    BY <1>3 DEF StartStep, Fetch, Cleanup, SyncBrand, GetDefault, Goto
  <1>4. CASE DisableCurrent(c) \/ ReleaseOwn(c) \/ DeleteBrand(c)
    BY <1>4 DEF DisableCurrent, ReleaseOwn, DeleteBrand, Goto
  <1>5. CASE EnableOwn(c)
    BY <1>5 DEF EnableOwn, Goto
  <1>6. CASE Publish(c) \/ RemoveFinalizer(c)
    BY <1>6 DEF Publish, RemoveFinalizer, Goto, Write
  <1>7. CASE CallFails(c) \/ WriteBackFails(c)
    BY <1>7 DEF CallFails, WriteBackFails, Goto
  <1>8. CASE ReplyLost(c)
    <2>1. \/ default' \in {default, Nobody}
          \/ default' = c /\ pc[c] = "enable"
      BY <1>8 DEF ReplyLost, Executes, Asked
    <2>2. QED BY <1>8, <2>1 DEF ReplyLost, Goto
  <1>9. CASE ToggleTimesOut(c)
    <2>1. disturb' # MaxDisturb
      BY <1>9, BoundsAssumption DEF ToggleTimesOut, Disturbance
    <2>2. QED BY <1>9, <2>1 DEF ToggleTimesOut, Goto
  <1>10. QED
    BY <1>1, <1>2, <1>3, <1>4, <1>5, <1>6, <1>7, <1>8, <1>9 DEF CRStep, WorkStep, FaultStep

LEMMA NextNoneLate == TypeOK /\ NoneLate /\ [Next]_vars => NoneLate'
  <1> SUFFICES ASSUME TypeOK, NoneLate, [Next]_vars PROVE NoneLate'
    OBVIOUS
  <1>1. ASSUME NEW c \in CRs, CRStep(c) PROVE NoneLate'
    BY <1>1, OneMoves DEF NoneLate
  <1>2. ASSUME NEW b, HumanSetsDefault(b) PROVE NoneLate'
    BY <1>2, BoundsAssumption DEF HumanSetsDefault, Disturbance, NoneLate, TypeOK
  <1>3. ASSUME NEW r \in late, LateToggle(r) PROVE NoneLate'
    BY <1>3 DEF LateToggle, NoneLate
  <1>4. CASE Crash \/ UNCHANGED vars
    BY <1>4 DEF Crash, vars, NoneLate
  <1>5. QED BY <1>1, <1>2, <1>3, <1>4 DEF Next, CRStep

\* What a CR's step does to its spec, its status and its reconcile.
LEMMA CRStepIs ==
  ASSUME TypeOK, TakersClaim, NEW c \in CRs, CRStep(c)
  PROVE  \* its user's steps
         \/ /\ api[c].phase = "absent" /\ api'[c].phase = "live" /\ gen'[c] = 1
            /\ status'[c] = status[c] /\ pc'[c] = pc[c] /\ loc'[c] = loc[c]
         \/ /\ api[c].phase = "live" /\ api'[c].phase = "live" /\ gen'[c] = gen[c] + 1
            /\ status'[c] = status[c] /\ pc'[c] = pc[c] /\ loc'[c] = loc[c]
         \* those that leave the spec, the status and what it carries
         \/ /\ api'[c].claims = api[c].claims /\ (api'[c].phase = "absent" <=> api[c].phase = "absent")
            /\ gen'[c] = gen[c] /\ status'[c] = status[c]
            /\ \/ pc'[c] = pc[c] /\ loc'[c] = loc[c]
               \/ ~Underway(c)'
               \/ /\ pc[c] = "idle" /\ pc'[c] = "fetched" /\ api[c].phase # "absent"
                  /\ loc'[c].gen = gen[c] /\ loc'[c].claims = api[c].claims
               \/ /\ Underway(c) /\ pc'[c] # "synced"
                  /\ loc'[c].gen = loc[c].gen /\ loc'[c].claims = loc[c].claims
               \/ /\ Underway(c) /\ pc'[c] = "synced"
                  /\ loc'[c].gen = loc[c].gen /\ loc'[c].claims = loc[c].claims
                  /\ ~loc[c].claims => default' # c
         \* the publication of its outcome
         \/ /\ api'[c].claims = api[c].claims /\ (api'[c].phase = "absent" <=> api[c].phase = "absent")
            /\ Underway(c) /\ pc'[c] = "idle" /\ gen'[c] = gen[c]
            /\ status'[c] = [observed |-> Observed(c), ready |-> pc[c]]
         \* its end
         \/ /\ api'[c].phase = "gone" /\ pc'[c] = "idle" /\ gen'[c] = 0 /\ status'[c] = NoStatus
  <1> USE DEF TypeOK
  <1>1. api[c] \in Version /\ loc[c] \in Work
    OBVIOUS
  <1>2. ASSUME NEW claims \in BOOLEAN, NEW born \in Stamps, UserCreates(c, claims, born)
        PROVE  /\ api[c].phase = "absent" /\ api'[c].phase = "live" /\ gen'[c] = 1
               /\ status'[c] = status[c] /\ pc'[c] = pc[c] /\ loc'[c] = loc[c]
    BY <1>2 DEF UserCreates, Write, Blank
  <1>3. CASE UserTogglesDefault(c)
    <2>1. api'[c] = [api[c] EXCEPT !.claims = ~@]
      BY <1>3 DEF UserTogglesDefault, Write
    <2>2. api'[c].phase = api[c].phase
      BY <1>1, <2>1 DEF Version
    <2>3. QED BY <1>3, <2>2 DEF UserTogglesDefault
  <1>4. CASE UserDeletes(c)
    <2>1. api'[c] = [api[c] EXCEPT !.phase = "deleting"]
      BY <1>4 DEF UserDeletes, Write
    <2>2. api'[c].claims = api[c].claims /\ api'[c].phase = "deleting"
      BY <1>1, <2>1 DEF Version
    <2>3. QED BY <1>4, <2>2 DEF UserDeletes
  <1>5. CASE Deliver(c)
    BY <1>5 DEF Deliver
  <1>6. CASE Fetch(c)
    BY <1>6 DEF Fetch, Goto, Reconcilable, Present, NoWork
  <1>7. CASE Cleanup(c) \/ DeleteBrand(c)
    BY <1>7 DEF Cleanup, DeleteBrand, Goto, Underway, Applying
  \* From step to step of an application.
  <1>8. ASSUME UNCHANGED <<api, gen, status>>, Underway(c), NEW step, NEW w \in Work,
               Goto(c, step, w), w.gen = loc[c].gen, w.claims = loc[c].claims,
               step = "synced" /\ ~loc[c].claims => default' # c
        PROVE  /\ UNCHANGED <<api, gen, status>> /\ Underway(c)
               /\ loc'[c].gen = loc[c].gen /\ loc'[c].claims = loc[c].claims
               /\ pc'[c] = "synced" /\ ~loc[c].claims => default' # c
    BY <1>8 DEF Goto
  <1>9. CASE SyncBrand(c)
    <2>1. /\ [loc[c] EXCEPT !.made = TRUE, !.recorded = FALSE] \in Work
          /\ [loc[c] EXCEPT !.made = TRUE, !.recorded = FALSE].gen = loc[c].gen
          /\ [loc[c] EXCEPT !.made = TRUE, !.recorded = FALSE].claims = loc[c].claims
      BY <1>1 DEF Work
    <2>2. UNCHANGED <<api, gen, status>> /\ Underway(c)
      BY <1>9 DEF SyncBrand, Underway, Applying
    <2>3. PICK step \in {"conflict", "failed", "toggle"},
               w \in {loc[c], [loc[c] EXCEPT !.made = TRUE, !.recorded = FALSE]} : Goto(c, step, w)
      BY <1>9 DEF SyncBrand
    <2>4. QED BY <1>1, <1>8, <2>1, <2>2, <2>3
  <1>10. CASE GetDefault(c)
    <2> DEFINE w == [loc[c] EXCEPT !.current =
                        IF Toggle(c) = "disable" THEN default ELSE Nobody]
    <2>1. w \in Work /\ w.gen = loc[c].gen /\ w.claims = loc[c].claims
      BY <1>1, BrandAssumption DEF Work
    <2>2. UNCHANGED <<api, gen, status, default>> /\ Underway(c) /\ Goto(c, Toggle(c), w)
      BY <1>10 DEF GetDefault, Underway, Applying
    <2>3. Toggle(c) = "synced" /\ ~loc[c].claims => default # c
      BY DEF Toggle
    <2> HIDE DEF w
    <2>4. QED BY <1>8, <2>1, <2>2, <2>3
  <1>11. CASE DisableCurrent(c)
    BY <1>1, <1>8, <1>11 DEF DisableCurrent, Underway, Applying
  <1>12. CASE EnableOwn(c)
    <2>1. loc[c].claims /\ UNCHANGED <<api, gen, status>> /\ Underway(c)
      BY <1>12 DEF EnableOwn, TakersClaim, Underway, Applying
    <2>2. PICK step \in {"synced", "failed"} : Goto(c, step, loc[c])
      BY <1>12 DEF EnableOwn
    <2>3. QED BY <1>1, <1>8, <2>1, <2>2
  <1>13. CASE ReleaseOwn(c)
    <2>1. UNCHANGED <<api, gen, status>> /\ Underway(c) /\ Goto(c, "synced", loc[c])
      BY <1>13 DEF ReleaseOwn, Underway, Applying
    <2>2. default' # c
      BY <1>13, BrandAssumption DEF ReleaseOwn
    <2>3. QED BY <1>1, <1>8, <2>1, <2>2
  <1>14. CASE Publish(c)
    <2>1. pc'[c] = "idle" /\ gen'[c] = gen[c] /\ Underway(c)
      BY <1>14 DEF Publish, Goto, Underway
    <2>2. CASE Present(api[c])
      <3>1. api'[c] = [api[c] EXCEPT !.recorded = @ \/ loc[c].made]
        BY <1>14, <2>2 DEF Publish, Write
      <3>2. api'[c].claims = api[c].claims /\ api'[c].phase = api[c].phase
        BY <1>1, <3>1 DEF Version
      <3>3. status'[c] = [observed |-> Observed(c), ready |-> pc[c]]
        BY <1>14, <2>2 DEF Publish
      <3>4. QED BY <2>1, <3>2, <3>3
    <2>3. CASE ~Present(api[c])
      <3>1. UNCHANGED <<api, gen, status>>
        BY <1>14, <2>3 DEF Publish
      <3>2. ~Underway(c)'
        BY <2>1 DEF Underway, Applying
      <3>3. QED BY <3>1, <3>2
    <2>4. QED BY <2>2, <2>3
  <1>15. CASE RemoveFinalizer(c)
    <2>1. pc'[c] = "idle"
      BY <1>15 DEF RemoveFinalizer, Goto
    <2>2. CASE Present(api[c])
      <3>1. api'[c] = [Blank EXCEPT !.phase = "gone", !.born = api[c].born]
        BY <1>15, <2>2 DEF RemoveFinalizer, Write
      <3>2. api'[c].phase = "gone"
        BY <3>1 DEF Blank
      <3>3. gen'[c] = 0
        BY <1>15, <2>2 DEF RemoveFinalizer
      <3>4. status'[c] = NoStatus
        BY <1>15, <2>2 DEF RemoveFinalizer
      <3>5. QED BY <2>1, <3>2, <3>3, <3>4
    <2>3. CASE UNCHANGED <<api, gen, status>>
      <3>1. ~Underway(c)'
        BY <2>1 DEF Underway, Applying
      <3>2. QED BY <2>3, <3>1
    <2>4. QED BY <1>15, <2>2, <2>3 DEF RemoveFinalizer
  <1>16. CASE FaultStep(c)
    <2>1. UNCHANGED <<api, gen, status>>
      BY <1>16 DEF FaultStep, CallFails, ReplyLost, ToggleTimesOut, WriteBackFails
    <2>2. CASE Goto(c, "idle", NoWork)
      BY <2>1, <2>2 DEF Goto, Underway, Applying
    <2>3. CASE pc[c] \in Applying /\ Goto(c, "failed", loc[c])
      <3>1. Underway(c)
        BY <2>3 DEF Underway
      <3>2. QED BY <1>1, <1>8, <2>1, <2>3, <3>1
    <2>4. QED
      BY <1>16, <2>2, <2>3
      DEF FaultStep, CallFails, ReplyLost, ToggleTimesOut, WriteBackFails, Applying, Toggling
  <1>17. QED
    BY <1>2, <1>3, <1>4, <1>5, <1>6, <1>7, <1>8, <1>9, <1>10, <1>11, <1>12, <1>13, <1>14, <1>15, <1>16
    DEF CRStep, UserStep, StartStep, WorkStep

\* Of one CR: its own step, and another's.
Kept(c) == SpecKnown(c) /\ FlagReleased(c) /\ StaysReleased(c)

LEMMA OwnStepKeeps ==
  ASSUME TypeOK, TakersClaim, NEW c \in CRs, Kept(c), CRStep(c)
  PROVE  Kept(c)'
  <1>1. gen[c] \in Nat /\ status[c].observed \in Nat /\ loc[c].gen \in Nat /\ c # Nobody
    BY BoundsAssumption, BrandAssumption DEF TypeOK, Status, Work
  <1>2. /\ disturb' = MaxDisturb => disturb = MaxDisturb
        /\ \/ default' \in {default, Nobody}
           \/ default' = c /\ pc[c] = "enable" /\ pc'[c] \in {"synced", "failed"}
    BY OneMoves
  <1>3. CASE /\ api[c].phase = "absent" /\ api'[c].phase = "live" /\ gen'[c] = 1
             /\ status'[c] = status[c] /\ pc'[c] = pc[c] /\ loc'[c] = loc[c]
    BY <1>1, <1>2, <1>3
    DEF Kept, SpecKnown, FlagReleased, StaysReleased, SaysReleased, Underway
  <1>4. CASE /\ api[c].phase = "live" /\ api'[c].phase = "live" /\ gen'[c] = gen[c] + 1
             /\ status'[c] = status[c] /\ pc'[c] = pc[c] /\ loc'[c] = loc[c]
    BY <1>1, <1>2, <1>4
    DEF Kept, SpecKnown, FlagReleased, StaysReleased, SaysReleased, Underway
  <1>5. CASE /\ api'[c].claims = api[c].claims /\ (api'[c].phase = "absent" <=> api[c].phase = "absent")
             /\ gen'[c] = gen[c] /\ status'[c] = status[c]
             /\ \/ pc'[c] = pc[c] /\ loc'[c] = loc[c]
                \/ ~Underway(c)'
                \/ /\ pc[c] = "idle" /\ pc'[c] = "fetched" /\ api[c].phase # "absent"
                   /\ loc'[c].gen = gen[c] /\ loc'[c].claims = api[c].claims
                \/ /\ Underway(c) /\ pc'[c] # "synced"
                   /\ loc'[c].gen = loc[c].gen /\ loc'[c].claims = loc[c].claims
                \/ /\ Underway(c) /\ pc'[c] = "synced"
                   /\ loc'[c].gen = loc[c].gen /\ loc'[c].claims = loc[c].claims
                   /\ ~loc[c].claims => default' # c
    <2>1. SpecKnown(c)'
      BY <1>1, <1>5 DEF Kept, SpecKnown, Underway, Applying
    <2>2. FlagReleased(c)'
      BY <1>1, <1>2, <1>5 DEF Kept, FlagReleased, Underway, Applying
    <2>3. StaysReleased(c)'
      <3>1. SUFFICES ASSUME SaysReleased(c), pc[c] = "enable" PROVE FALSE
        BY <1>1, <1>2, <1>5 DEF Kept, StaysReleased, SaysReleased
      <3>2. Underway(c)
        BY <3>1 DEF Underway, Applying
      <3>3. ~loc[c].claims
        BY <1>1, <3>1, <3>2 DEF Kept, SpecKnown, SaysReleased
      <3>4. QED BY <3>1, <3>3 DEF TakersClaim
    <2>4. QED BY <2>1, <2>2, <2>3 DEF Kept
  <1>6. CASE /\ api'[c].claims = api[c].claims /\ (api'[c].phase = "absent" <=> api[c].phase = "absent")
             /\ Underway(c) /\ pc'[c] = "idle" /\ gen'[c] = gen[c]
             /\ status'[c] = [observed |-> Observed(c), ready |-> pc[c]]
    <2>1. ~Underway(c)' /\ Observed(c) <= gen[c] /\ api[c].phase # "absent"
      BY <1>1, <1>6 DEF Kept, SpecKnown, Underway, Applying, Observed
    <2>2. SpecKnown(c)'
      <3>1. status'[c].observed = Observed(c) /\ api'[c].phase # "absent"
        BY <1>6, <2>1
      <3>2. QED BY <1>6, <2>1, <3>1 DEF SpecKnown
    <2>3. FlagReleased(c)'
      BY <1>6 DEF FlagReleased
    <2>4. StaysReleased(c)'
      <3>1. SUFFICES ASSUME disturb = MaxDisturb, pc[c] = "synced", Observed(c) = gen[c], ~api[c].claims
                     PROVE  default' # c
        BY <1>2, <1>6 DEF StaysReleased, SaysReleased
      <3>2. ~loc[c].claims
        BY <1>6, <3>1 DEF Kept, SpecKnown, Observed
      <3>3. QED BY <1>1, <1>2, <1>6, <3>1, <3>2 DEF Kept, FlagReleased
    <2>5. QED BY <2>2, <2>3, <2>4 DEF Kept
  <1>7. CASE api'[c].phase = "gone" /\ pc'[c] = "idle" /\ gen'[c] = 0 /\ status'[c] = NoStatus
    BY <1>7 DEF Kept, SpecKnown, FlagReleased, StaysReleased, SaysReleased, Underway, Applying, NoStatus
  <1>8. QED BY <1>3, <1>4, <1>5, <1>6, <1>7, CRStepIs

LEMMA NextKeeps ==
  ASSUME TypeOK, TakersClaim, NoneLate, \A c \in CRs : Kept(c), [Next]_vars, NEW c \in CRs
  PROVE  Kept(c)'
  <1> USE DEF Kept, SpecKnown, FlagReleased, StaysReleased, SaysReleased
  <1>1. CASE UNCHANGED vars
    BY <1>1 DEF vars, Underway
  <1>2. CASE Crash
    BY <1>2 DEF Crash, Underway, Applying
  <1>3. ASSUME NEW b, HumanSetsDefault(b) PROVE Kept(c)'
    <2>1. disturb' # MaxDisturb
      BY <1>3, BoundsAssumption DEF HumanSetsDefault, Disturbance, TypeOK
    <2>2. QED BY <1>3, <2>1 DEF HumanSetsDefault, Underway
  <1>4. ASSUME NEW d \in CRs, CRStep(d) PROVE Kept(c)'
    <2>1. CASE d = c
      BY <1>4, <2>1, OwnStepKeeps
    <2>2. CASE d # c
      <3>1. /\ api'[c] = api[c] /\ gen'[c] = gen[c] /\ status'[c] = status[c]
            /\ pc'[c] = pc[c] /\ loc'[c] = loc[c]
            /\ disturb' = MaxDisturb => disturb = MaxDisturb
            /\ default' \in {default, Nobody, d}
        BY <1>4, <2>2, OneMoves
      <3>2. default # c => default' # c
        BY <2>2, <3>1, BrandAssumption
      <3>3. QED BY <3>1, <3>2 DEF Underway
    <2>3. QED BY <2>1, <2>2
  <1>5. ASSUME NEW r \in late, LateToggle(r) PROVE Kept(c)'
    <2>1. disturb' # MaxDisturb
      BY <1>5 DEF LateToggle, NoneLate
    <2>2. QED BY <1>5, <2>1 DEF LateToggle, Underway
  <1>6. QED BY <1>1, <1>2, <1>3, <1>4, <1>5 DEF Next, CRStep

Inv == TakersClaim /\ NoneLate /\ \A c \in CRs : Kept(c)

LEMMA InitInv == Init => Inv
  BY BoundsAssumption
  DEF Init, Inv, TakersClaim, NoneLate, Kept, SpecKnown, FlagReleased, StaysReleased, SaysReleased,
      Underway, Applying, NoStatus

LEMMA NextInv == TypeOK /\ Inv /\ [Next]_vars => Inv'
  BY NextTakers, NextNoneLate, NextKeeps DEF Inv

\* A brand whose CR is Synced at its current generation without claiming the default is
\* not the default, unless people made it so, or Authentik did after a timeout.
THEOREM ReleasedStays == Spec => []ReleasedIsNotDefault
  <1>1. Inv => ReleasedIsNotDefault
    BY DEF Inv, Kept, StaysReleased, SaysReleased, ReleasedIsNotDefault
  <1>2. QED BY <1>1, TypeCorrect, InitInv, NextInv, PTL DEF Spec
=============================================================================
