---------------------- MODULE OutpostProviders_proofs ----------------------
(***************************************************************************)
(* OutpostProviders implements OutpostLists for every number of            *)
(* applications, outposts, moves, faults and disturbances: an edit of a    *)
(* list made of a read and a write is one addition or removal.  And a      *)
(* provider said to be attached is served there, and nowhere else.         *)
(***************************************************************************)
EXTENDS OutpostProviders, TLAPS

-----------------------------------------------------------------------------
(* Types.                                                                  *)

\* The work a reconcile starts from is work.
LEMMA NoWorkType == NoWork \in Work
  BY DEF NoWork, Work

\* A reconcile moved to a step with some work stays of its type.
LEMMA GotoType ==
  ASSUME TypeOK, NEW c \in CRs, NEW step \in Steps, NEW w \in Work, Goto(c, step, w)
  PROVE  pc' \in [CRs -> Steps] /\ loc' \in [CRs -> Work]
  BY DEF TypeOK, Goto

\* So does one that ends, and what it leaves behind.
LEMMA EndsType ==
  ASSUME TypeOK, NEW c \in CRs, NEW r \in {"synced", "failed"}, NEW o \in Pks \cup {NoPk},
         Ends(c, r, o)
  PROVE  /\ pc' \in [CRs -> Steps] /\ loc' \in [CRs -> Work]
         /\ outcome' \in [CRs -> {"none", "synced", "failed"}]
         /\ home' \in [CRs -> Pks \cup {NoPk}]
  BY NoWorkType, GotoType DEF TypeOK, Ends, Steps

LEMMA FailsType ==
  ASSUME TypeOK, NEW c \in CRs, Fails(c)
  PROVE  /\ pc' \in [CRs -> Steps] /\ loc' \in [CRs -> Work]
         /\ outcome' \in [CRs -> {"none", "synced", "failed"}]
         /\ home' \in [CRs -> Pks \cup {NoPk}]
  BY EndsType DEF Fails, NoPk

LEMMA GoesType ==
  ASSUME TypeOK, NEW c \in CRs, NEW step \in Steps, NEW w \in Work, Goes(c, step, w)
  PROVE  /\ pc' \in [CRs -> Steps] /\ loc' \in [CRs -> Work]
         /\ outcome' \in [CRs -> {"none", "synced", "failed"}]
         /\ home' \in [CRs -> Pks \cup {NoPk}]
  BY GotoType DEF TypeOK, Goes

\* A lock let go, or asked for, stays of its type.
LEMMA ReleaseType ==
  ASSUME TypeOK, NEW c \in CRs, Holds(c), loc[c].at \in Pks, Release(c)
  PROVE  queue' \in [Pks -> Seq(CRs)]
  <1>1. Tail(queue[loc[c].at]) \in Seq(CRs)
    BY DEF TypeOK, Holds
  <1>2. QED BY <1>1 DEF TypeOK, Release

\* A list Authentik accepts names providers that exist, of an outpost that does.
ListsKnown == \A o \in Pks : outposts[o].list # {} =>
    outposts[o].live /\ outposts[o].list \subseteq providers

LEMMA ExecutesType ==
  ASSUME TypeOK, NEW r, r.at \in Pks, Accepted(r), Executes(r), UNCHANGED providers
  PROVE  outposts' \in [Pks -> Outpost] /\ ListsKnown'
  <1>1. outposts' = [outposts EXCEPT ![r.at] = [outposts[r.at] EXCEPT !.list = r.list]]
    BY DEF TypeOK, Executes
  <1>2. r.list \in SUBSET CRs /\ r.list \subseteq providers /\ outposts[r.at].live
    BY DEF TypeOK, Accepted
  <1>3. [outposts[r.at] EXCEPT !.list = r.list] \in Outpost
    <2>1. outposts[r.at] \in Outpost
      BY DEF TypeOK
    <2>2. ASSUME NEW x \in Outpost, NEW l \in SUBSET CRs
          PROVE  [x EXCEPT !.list = l] \in Outpost
      BY DEF Outpost
    <2>3. QED BY <1>2, <2>1, <2>2
  <1>4. outposts' \in [Pks -> Outpost]
    BY <1>1, <1>3 DEF TypeOK
  <1>5. ListsKnown'
    BY <1>1, <1>2 DEF TypeOK, ListsKnown, Outpost
  <1>6. QED BY <1>4, <1>5

\* The work of a reconcile is about outposts that were made.
WorkMade == \A c \in CRs :
    /\ pc[c] # "idle" => loc[c].target \in 1..made /\ loc[c].todo \subseteq 1..made
    /\ pc[c] \in {"wait", "write"} => loc[c].at \in 1..made

\* Who writes a list holds its lock.
WritersHold == \A c \in CRs : pc[c] = "write" => Holds(c)

LEMMA MadeInPks == ASSUME TypeOK PROVE 1..made \subseteq Pks
  BY BoundsAssumption DEF TypeOK, Pks

\* What a PATCH would carry is a request.
LEMMA PatchType ==
  ASSUME TypeOK, WorkMade, NEW c \in CRs, pc[c] = "write"
  PROVE  Patch(c) \in Request /\ Patch(c).at = loc[c].at /\ loc[c].at \in Pks
  <1>1. loc[c].at \in Pks /\ loc[c].list \in SUBSET CRs
    BY MadeInPks DEF TypeOK, WorkMade, Work
  <1>2. Edited(c, loc[c].list) \in SUBSET CRs
    BY <1>1 DEF Edited
  <1>3. QED BY <1>1, <1>2 DEF Patch, Request

\* An edit that is done leaves everything of its type.
LEMMA GoesOnType ==
  ASSUME TypeOK, WorkMade, NEW c \in CRs, pc[c] \in {"wait", "write"}, Holds(c), GoesOn(c)
  PROVE  /\ pc' \in [CRs -> Steps] /\ loc' \in [CRs -> Work]
         /\ outcome' \in [CRs -> {"none", "synced", "failed"}]
         /\ home' \in [CRs -> Pks \cup {NoPk}]
         /\ queue' \in [Pks -> Seq(CRs)]
  <1>1. loc[c] \in Work /\ loc[c].at \in Pks
    BY MadeInPks DEF TypeOK, WorkMade
  <1>2. queue' \in [Pks -> Seq(CRs)]
    BY <1>1, ReleaseType DEF GoesOn
  <1>3. CASE loc[c].at = loc[c].target
    BY <1>1, <1>2, <1>3, EndsType DEF GoesOn
  <1>4. CASE loc[c].at # loc[c].target
    <2>1. [loc[c] EXCEPT !.at = NoPk, !.list = {}] \in Work
      BY <1>1 DEF Work
    <2>2. Goes(c, "next", [loc[c] EXCEPT !.at = NoPk, !.list = {}])
      BY <1>4 DEF GoesOn
    <2>3. QED BY <1>2, <2>1, <2>2, GoesType DEF Steps
  <1>5. QED BY <1>3, <1>4

LEMMA UserType ==
  ASSUME TypeOK, NEW c \in CRs, UserStep(c)
  PROVE  TypeOK'
  <1>1. CASE \E n \in Names : UserMoves(c, n)
    BY <1>1, BoundsAssumption DEF UserMoves, TypeOK, authentik, budgets
  <1>2. CASE UserDeletes(c)
    BY <1>2 DEF UserDeletes, TypeOK, authentik, budgets
  <1>3. QED BY <1>1, <1>2 DEF UserStep

LEMMA OutpostType ==
  ASSUME TypeOK, OutpostStep
  PROVE  TypeOK'
  <1>1. ASSUME NEW n \in Names, CreateOutpost(n) PROVE TypeOK'
    <2>1. made' \in 0..MaxPk /\ made + 1 \in Pks
      BY <1>1, BoundsAssumption DEF CreateOutpost, TypeOK, Pks
    <2>2. [name |-> n, live |-> TRUE, list |-> {}] \in Outpost
      BY DEF Outpost
    <2>3. outposts' \in [Pks -> Outpost] /\ ListsKnown'
      BY <1>1, <2>1, <2>2 DEF CreateOutpost, TypeOK, ListsKnown
    <2>4. QED BY <1>1, <2>1, <2>3 DEF CreateOutpost, TypeOK, ListsKnown, crs, budgets
  <1>2. ASSUME NEW o \in Pks, DeleteOutpost(o) PROVE TypeOK'
    <2>1. ASSUME NEW x \in Outpost
          PROVE  /\ [x EXCEPT !.live = FALSE, !.list = {}] \in Outpost
                 /\ [x EXCEPT !.live = FALSE, !.list = {}].list = {}
      BY DEF Outpost
    <2>2. outposts' = [outposts EXCEPT ![o] = [outposts[o] EXCEPT !.live = FALSE, !.list = {}]]
      BY <1>2 DEF DeleteOutpost, TypeOK
    <2>3. outposts[o] \in Outpost
      BY DEF TypeOK
    <2>4. DEFINE x == [outposts[o] EXCEPT !.live = FALSE, !.list = {}]
    <2>5. x \in Outpost /\ x.list = {}
      BY <2>1, <2>3
    <2>6. HIDE DEF x
    <2>7. outposts' = [outposts EXCEPT ![o] = x]
      BY <2>2 DEF x
    <2>8. outposts' \in [Pks -> Outpost] /\ ListsKnown'
      BY <1>2, <2>5, <2>7 DEF DeleteOutpost, TypeOK, ListsKnown
    <2>9. QED BY <1>2, <2>8 DEF DeleteOutpost, TypeOK, ListsKnown, crs, budgets
  <1>3. ASSUME NEW o \in Pks, NEW S \in SUBSET CRs, HumanEditsList(o, S) PROVE TypeOK'
    <2>1. ASSUME NEW x \in Outpost
          PROVE  /\ [x EXCEPT !.list = S] \in Outpost
                 /\ [x EXCEPT !.list = S].list = S /\ [x EXCEPT !.list = S].live = x.live
      BY DEF Outpost
    <2>2. outposts' = [outposts EXCEPT ![o] = [outposts[o] EXCEPT !.list = S]]
      BY <1>3 DEF HumanEditsList, TypeOK
    <2>3. outposts' \in [Pks -> Outpost] /\ ListsKnown'
      BY <1>3, <2>1, <2>2 DEF HumanEditsList, TypeOK, ListsKnown
    <2>4. faults' \in 0..MaxFaults /\ disturb' \in 0..MaxDisturb
      BY <1>3, BoundsAssumption DEF HumanEditsList, Disturbance, Fault, TypeOK
    <2>5. QED BY <1>3, <2>3, <2>4 DEF HumanEditsList, TypeOK, ListsKnown, crs
  <1>4. QED BY <1>1, <1>2, <1>3 DEF OutpostStep

LEMMA ReconcileType ==
  ASSUME TypeOK, WorkMade, WritersHold, NEW c \in CRs, Start(c) \/ AttachStep(c) \/ Cleanup(c)
  PROVE  TypeOK'
  <1>a. loc[c] \in Work
    BY DEF TypeOK
  <1>1. CASE Start(c)
    <2>1. ASSUME NEW o \in Pks PROVE [NoWork EXCEPT !.target = o] \in Work
      BY DEF NoWork, Work
    <2>2. /\ pc' \in [CRs -> Steps] /\ loc' \in [CRs -> Work]
          /\ outcome' \in [CRs -> {"none", "synced", "failed"}]
          /\ home' \in [CRs -> Pks \cup {NoPk}]
      BY <1>1, <2>1, FailsType, GoesType DEF Start, Resolved, Named, Steps
    <2>3. QED BY <1>1, <2>2 DEF Start, TypeOK, crs, budgets
  <1>2. CASE ListHolding(c)
    <2>1. [loc[c] EXCEPT !.todo = Holding(c)] \in Work
      BY <1>a DEF Work, Holding
    <2>2. QED BY <1>2, <2>1, GoesType DEF ListHolding, TypeOK, crs, authentik, budgets, Steps
  <1>3. CASE AskLock(c)
    <2>1. PICK o \in Pks : /\ queue' = [queue EXCEPT ![o] = Append(@, c)]
                           /\ Goes(c, "wait", [loc[c] EXCEPT !.at = o, !.todo = @ \ {o}])
      BY <1>3 DEF AskLock
    <2>2. [loc[c] EXCEPT !.at = o, !.todo = @ \ {o}] \in Work
      BY <1>a DEF Work
    <2>3. Append(queue[o], c) \in Seq(CRs)
      BY DEF TypeOK
    <2>4. queue' \in [Pks -> Seq(CRs)]
      BY <2>1, <2>3 DEF TypeOK
    <2>5. QED BY <1>3, <2>1, <2>2, <2>4, GoesType DEF AskLock, TypeOK, crs, authentik, budgets, Steps
  <1>4. CASE ReadList(c)
    <2>1. loc[c].at \in Pks /\ pc[c] \in {"wait", "write"} /\ Holds(c)
      BY <1>4, MadeInPks DEF ReadList, WorkMade
    <2>2. UNCHANGED <<crs, authentik, budgets>>
      BY <1>4 DEF ReadList
    <2>3. CASE Fails(c) /\ Release(c)
      BY <2>1, <2>2, <2>3, FailsType, ReleaseType DEF TypeOK, crs, authentik, budgets
    <2>4. CASE GoesOn(c)
      BY <2>1, <2>2, <2>4, GoesOnType DEF TypeOK, crs, authentik, budgets
    <2>5. CASE Goes(c, "write", [loc[c] EXCEPT !.list = outposts[loc[c].at].list]) /\ UNCHANGED queue
      <3>1. [loc[c] EXCEPT !.list = outposts[loc[c].at].list] \in Work
        BY <1>a, <2>1 DEF TypeOK, Work, Outpost
      <3>2. QED BY <2>2, <2>5, <3>1, GoesType DEF TypeOK, crs, authentik, budgets, Steps
    <2>6. QED BY <1>4, <2>3, <2>4, <2>5 DEF ReadList
  <1>5. CASE WriteList(c)
    <2>1. /\ loc[c].at \in Pks /\ pc[c] \in {"wait", "write"} /\ Holds(c)
          /\ Patch(c).at = loc[c].at
      BY <1>5, PatchType DEF WriteList, WritersHold
    <2>2. UNCHANGED <<crs, providers, made, late, budgets>>
      BY <1>5 DEF WriteList
    <2>3. CASE Fails(c) /\ Release(c) /\ UNCHANGED outposts
      BY <1>5, <2>1, <2>2, <2>3, FailsType, ReleaseType DEF TypeOK, crs, budgets
    <2>4. CASE Accepted(Patch(c)) /\ Executes(Patch(c)) /\ GoesOn(c)
      <3>1. outposts' \in [Pks -> Outpost] /\ ListsKnown'
        BY <2>1, <2>2, <2>4, ExecutesType
      <3>2. QED BY <1>5, <2>1, <2>2, <2>4, <3>1, GoesOnType DEF TypeOK, ListsKnown, crs, budgets
    <2>5. QED BY <1>5, <2>3, <2>4 DEF WriteList
  <1>6. CASE Cleanup(c)
    <2>1. ASSUME NEW x \in Outpost
          PROVE  /\ [x EXCEPT !.list = @ \ {c}] \in Outpost
                 /\ [x EXCEPT !.list = @ \ {c}].list = x.list \ {c}
                 /\ [x EXCEPT !.list = @ \ {c}].live = x.live
      BY DEF Outpost
    <2>2. outposts' \in [Pks -> Outpost] /\ ListsKnown'
      BY <1>6, <2>1 DEF Cleanup, TypeOK, ListsKnown
    <2>3. QED BY <1>6, <2>2 DEF Cleanup, TypeOK, ListsKnown, budgets
  <1>7. QED BY <1>1, <1>2, <1>3, <1>4, <1>5, <1>6 DEF AttachStep

LEMMA FaultType ==
  ASSUME TypeOK, WorkMade, WritersHold, NEW c \in CRs, FaultStep(c)
  PROVE  TypeOK'
  <1>1. CASE CallFails(c)
    <2>1. queue' \in [Pks -> Seq(CRs)]
      <3>1. CASE pc[c] = "holding"
        BY <1>1, <3>1 DEF CallFails, Unlocks, TypeOK
      <3>2. CASE pc[c] \in {"wait", "write"}
        <4>1. loc[c].at \in Pks /\ Holds(c)
          BY <1>1, <3>2, MadeInPks DEF CallFails, WorkMade, WritersHold
        <4>2. QED BY <1>1, <3>2, <4>1, ReleaseType DEF CallFails, Unlocks
      <3>3. QED BY <1>1, <3>1, <3>2 DEF CallFails
    <2>2. faults' \in 0..MaxFaults
      BY <1>1, BoundsAssumption DEF CallFails, Fault, TypeOK
    <2>3. QED BY <1>1, <2>1, <2>2, FailsType DEF CallFails, TypeOK, crs, authentik
  <1>2. ASSUME pc[c] = "write", Release(c) PROVE queue' \in [Pks -> Seq(CRs)]
    BY <1>2, ReleaseType, MadeInPks DEF WorkMade, WritersHold
  <1>3. CASE ReplyLost(c)
    <2>1. outposts' \in [Pks -> Outpost] /\ ListsKnown'
      BY <1>3, PatchType, ExecutesType DEF ReplyLost
    <2>2. faults' \in 0..MaxFaults
      BY <1>3, BoundsAssumption DEF ReplyLost, Fault, TypeOK
    <2>3. QED BY <1>2, <1>3, <2>1, <2>2, FailsType DEF ReplyLost, TypeOK, ListsKnown, crs
  <1>4. CASE WriteTimesOut(c)
    <2>1. late' \subseteq Request
      BY <1>4, PatchType DEF WriteTimesOut, TypeOK
    <2>2. faults' \in 0..MaxFaults /\ disturb' \in 0..MaxDisturb
      BY <1>4, BoundsAssumption DEF WriteTimesOut, Disturbance, Fault, TypeOK
    <2>3. QED BY <1>2, <1>4, <2>1, <2>2, FailsType DEF WriteTimesOut, TypeOK, crs
  <1>5. QED BY <1>1, <1>3, <1>4 DEF FaultStep

LEMMA LateType ==
  ASSUME TypeOK, NEW r \in late, LateWrite(r)
  PROVE  TypeOK'
  <1>1. r.at \in Pks
    BY DEF TypeOK, Request
  <1>2. outposts' \in [Pks -> Outpost] /\ ListsKnown'
    BY <1>1, ExecutesType DEF LateWrite, TypeOK, ListsKnown
  <1>3. QED BY <1>2 DEF LateWrite, TypeOK, ListsKnown, crs, budgets

LEMMA CrashType ==
  ASSUME TypeOK, Crash
  PROVE  TypeOK'
  BY NoWorkType, BoundsAssumption DEF Crash, Fault, TypeOK, crs, authentik, Steps

LEMMA NextType ==
  ASSUME TypeOK, WorkMade, WritersHold, [Next]_vars
  PROVE  TypeOK'
  <1>1. CASE UNCHANGED vars
    BY <1>1 DEF TypeOK, vars, crs, authentik, budgets
  <1>2. QED
    BY <1>1, UserType, OutpostType, ReconcileType, FaultType, LateType, CrashType DEF Next

LEMMA InitType == Init => TypeOK
  BY NoWorkType, NamesAssumption, BoundsAssumption
  DEF Init, TypeOK, NoOutpost, Outpost, Steps
-----------------------------------------------------------------------------
(* The inductive invariant.                                                *)

OutpostsMade == \A o \in Pks : outposts[o].live => o \in 1..made

\* A list that was read names providers that exist, or whose CR is gone for good.
ReadsKnown == \A c \in CRs :
    pc[c] = "write" => loc[c].list \subseteq providers \cup {d \in CRs : phase[d] = "gone"}

\* Under the lock a list that was read stays current but for providers that are gone.
ReadsCurrent == ~Disturbed => \A c \in CRs :
    pc[c] = "write" /\ outposts[loc[c].at].live =>
        outposts[loc[c].at].list = loc[c].list \cap providers

LateDisturbs == late # {} => Disturbed

Held == WorkMade /\ WritersHold /\ OutpostsMade /\ ReadsKnown /\ ReadsCurrent /\ LateDisturbs
Inv == TypeOK /\ Held

\* The others' writes rest on the lock and the list their outposts had.
OthersKept(c) == \A d \in CRs \ {c} : pc[d] = "write" =>
    /\ queue'[loc[d].at] # <<>> /\ Head(queue'[loc[d].at]) = d
    /\ Disturbed' \/ outposts'[loc[d].at] = outposts[loc[d].at]

LEMMA ReleaseKeeps ==
  ASSUME TypeOK, WorkMade, WritersHold, NEW c \in CRs, Holds(c), loc[c].at \in Pks, Release(c)
  PROVE  \A d \in CRs \ {c} : pc[d] = "write" =>
             /\ loc[d].at # loc[c].at
             /\ queue'[loc[d].at] # <<>> /\ Head(queue'[loc[d].at]) = d
  <1> SUFFICES ASSUME NEW d \in CRs \ {c}, pc[d] = "write"
               PROVE  /\ loc[d].at # loc[c].at
                      /\ queue'[loc[d].at] # <<>> /\ Head(queue'[loc[d].at]) = d
    OBVIOUS
  <1>1. Holds(d) /\ loc[d].at \in Pks
    BY MadeInPks DEF WritersHold, WorkMade
  <1>2. loc[d].at # loc[c].at
    BY <1>1 DEF Holds
  <1>3. queue'[loc[d].at] = queue[loc[d].at]
    BY <1>1, <1>2 DEF Release, TypeOK
  <1>4. QED BY <1>1, <1>2, <1>3 DEF Holds

\* A disturbance is not forgotten.
LEMMA DisturbanceType ==
  ASSUME TypeOK, Disturbance
  PROVE  Disturbed'
  BY BoundsAssumption DEF TypeOK, Disturbance, Disturbed

\* A reconcile that moves, to any step but a write, keeps the invariant.
LEMMA MoveKeeps ==
  ASSUME TypeOK, Held, NEW c \in CRs, NEW step \in Steps \ {"write"}, NEW w \in Work,
         Goto(c, step, w),
         step # "idle" => w.target \in 1..made /\ w.todo \subseteq 1..made,
         step = "wait" => w.at \in 1..made,
         UNCHANGED <<made, phase>>,
         providers' = providers \/ (providers' = providers \cup {c} /\ phase[c] = "live"),
         \A o \in Pks : outposts'[o].live = outposts[o].live,
         OthersKept(c), Disturbed => Disturbed', late' # {} => Disturbed'
  PROVE  Held'
  <1>1. /\ pc'[c] = step /\ loc'[c] = w
        /\ \A d \in CRs \ {c} : pc'[d] = pc[d] /\ loc'[d] = loc[d]
    BY DEF Goto, TypeOK
  <1>2. WorkMade'
    BY <1>1 DEF Held, WorkMade
  <1>3. WritersHold'
    BY <1>1 DEF WritersHold, OthersKept, Holds
  <1>4. OutpostsMade'
    BY DEF Held, OutpostsMade
  <1>5. ReadsKnown'
    BY <1>1 DEF Held, ReadsKnown
  <1>6. ReadsCurrent'
    <2> SUFFICES ASSUME ~Disturbed', NEW d \in CRs, pc'[d] = "write",
                        outposts'[loc'[d].at].live
                 PROVE  outposts'[loc'[d].at].list = loc'[d].list \cap providers'
      BY DEF ReadsCurrent
    <2>1. d # c /\ pc[d] = "write" /\ loc'[d] = loc[d] /\ outposts'[loc[d].at] = outposts[loc[d].at]
      BY <1>1 DEF OthersKept
    <2>2. outposts[loc[d].at].list = loc[d].list \cap providers
      BY <2>1 DEF Held, ReadsCurrent
    <2>3. loc[d].list \cap providers' = loc[d].list \cap providers
      BY <2>1 DEF Held, ReadsKnown
    <2>4. QED BY <2>1, <2>2, <2>3
  <1>7. QED BY <1>2, <1>3, <1>4, <1>5, <1>6 DEF Held, LateDisturbs

\* So does a step of no reconcile, as long as each writer's outpost is left alone,
\* deleted, or only rid of a provider that is gone for good.
LEMMA StayKeeps ==
  ASSUME TypeOK, Held, UNCHANGED <<pc, loc, queue>>, made' \in Nat, made <= made',
         OutpostsMade',
         \A d \in CRs : phase[d] = "gone" => phase'[d] = "gone",
         \A d \in CRs : d \in providers => d \in providers' \/ phase'[d] = "gone",
         providers' \subseteq providers,
         ~Disturbed' => \A o \in 1..made : outposts'[o].live =>
             outposts[o].live /\ outposts'[o].list = outposts[o].list \cap providers',
         Disturbed => Disturbed', late' # {} => Disturbed'
  PROVE  Held'
  <1>1. WorkMade'
    BY DEF Held, WorkMade, TypeOK
  <1>2. WritersHold'
    BY DEF Held, WritersHold, Holds
  <1>3. ReadsKnown'
    <2> SUFFICES ASSUME NEW c \in CRs, pc[c] = "write", NEW d \in loc[c].list
                 PROVE  d \in providers' \/ (d \in CRs /\ phase'[d] = "gone")
      BY DEF ReadsKnown
    <2>1. d \in providers \/ (d \in CRs /\ phase[d] = "gone")
      BY DEF Held, ReadsKnown
    <2>2. QED BY <2>1 DEF TypeOK
  <1>4. ReadsCurrent'
    <2> SUFFICES ASSUME ~Disturbed', NEW d \in CRs, pc[d] = "write", outposts'[loc[d].at].live
                 PROVE  outposts'[loc[d].at].list = loc[d].list \cap providers'
      BY DEF ReadsCurrent
    <2>1. loc[d].at \in 1..made
      BY DEF Held, WorkMade
    <2>2. outposts[loc[d].at].list = loc[d].list \cap providers
      BY <2>1 DEF Held, ReadsCurrent
    <2>3. QED BY <2>1, <2>2
  <1>5. QED BY <1>1, <1>2, <1>3, <1>4 DEF Held, LateDisturbs

\* A reconcile that ends holds no write any more.
LEMMA FailsKeeps ==
  ASSUME TypeOK, Held, NEW c \in CRs, Fails(c), UNCHANGED <<made, phase, providers>>,
         \A o \in Pks : outposts'[o].live = outposts[o].live,
         OthersKept(c), Disturbed => Disturbed', late' # {} => Disturbed'
  PROVE  Held'
  BY NoWorkType, MoveKeeps DEF Fails, Ends, Steps

\* An edit that is done keeps the invariant.
LEMMA GoesOnKeeps ==
  ASSUME TypeOK, Held, NEW c \in CRs, pc[c] \in {"wait", "write"}, Holds(c), GoesOn(c),
         UNCHANGED <<made, phase, providers, disturb, late>>,
         \A o \in Pks : outposts'[o].live = outposts[o].live,
         \A o \in Pks : o # loc[c].at => outposts'[o] = outposts[o]
  PROVE  Held'
  <1>1. loc[c] \in Work /\ loc[c].at \in Pks
    BY MadeInPks DEF TypeOK, Held, WorkMade
  <1>2. OthersKept(c)
    BY <1>1, ReleaseKeeps, MadeInPks DEF GoesOn, OthersKept, Held, WorkMade
  <1>3. (Disturbed => Disturbed') /\ (late' # {} => Disturbed')
    BY DEF Held, LateDisturbs, Disturbed
  <1>4. CASE loc[c].at = loc[c].target
    BY <1>2, <1>3, <1>4, NoWorkType, MoveKeeps DEF GoesOn, Ends, Steps
  <1>5. CASE loc[c].at # loc[c].target
    <2> DEFINE w == [loc[c] EXCEPT !.at = NoPk, !.list = {}]
    <2>1. w \in Work /\ w.target = loc[c].target /\ w.todo = loc[c].todo
      BY <1>1 DEF Work
    <2>2. Goto(c, "next", w)
      BY <1>5 DEF GoesOn, Goes
    <2>3. w.target \in 1..made /\ w.todo \subseteq 1..made
      BY <2>1 DEF Held, WorkMade
    <2> HIDE DEF w
    <2>4. QED BY <1>2, <1>3, <2>1, <2>2, <2>3, MoveKeeps DEF Steps
  <1>6. QED BY <1>4, <1>5

LEMMA PatchKeeps ==
  ASSUME TypeOK, NEW r, r.at \in Pks, Accepted(r), Executes(r)
  PROVE  /\ \A o \in Pks : outposts'[o].live = outposts[o].live
         /\ \A o \in Pks : o # r.at => outposts'[o] = outposts[o]
         /\ outposts'[r.at].list = r.list
  <1>1. outposts[r.at] \in Outpost
    BY DEF TypeOK
  <1>2. QED BY <1>1 DEF TypeOK, Executes, Outpost

LEMMA AttachKeeps ==
  ASSUME TypeOK, Held, NEW c \in CRs, Start(c) \/ AttachStep(c)
  PROVE  Held'
  <1>a. loc[c] \in Work
    BY DEF TypeOK
  <1>b. ASSUME UNCHANGED <<late, disturb>>
        PROVE  (Disturbed => Disturbed') /\ (late' # {} => Disturbed')
    BY <1>b DEF Held, LateDisturbs, Disturbed
  <1>c. ASSUME UNCHANGED <<outposts, queue>> PROVE OthersKept(c)
    BY <1>c DEF Held, WritersHold, Holds, OthersKept
  <1>1. CASE Start(c)
    <2>1. CASE Fails(c)
      BY <1>1, <1>b, <1>c, <2>1, NoWorkType, MoveKeeps
      DEF Start, crs, budgets, Fails, Ends, Steps
    <2>2. ASSUME NEW o \in Named(ref[c]), Goes(c, "holding", [NoWork EXCEPT !.target = o])
          PROVE  Held'
      <3>1. o \in Pks /\ o \in 1..made
        BY DEF Named, Held, OutpostsMade
      <3> DEFINE w == [NoWork EXCEPT !.target = o]
      <3>2. w \in Work /\ w.target = o /\ w.todo = {}
        BY <3>1 DEF NoWork, Work
      <3>3. Goto(c, "holding", w)
        BY <2>2 DEF Goes
      <3> HIDE DEF w
      <3>4. QED BY <1>1, <1>b, <1>c, <3>1, <3>2, <3>3, MoveKeeps DEF Start, crs, budgets, Steps
    <2>3. QED BY <1>1, <2>1, <2>2 DEF Start, Resolved
  <1>2. CASE ListHolding(c)
    <2> DEFINE w == [loc[c] EXCEPT !.todo = Holding(c)]
    <2>1. Holding(c) \subseteq 1..made
      BY DEF Holding, Held, OutpostsMade
    <2>2. w \in Work /\ w.target = loc[c].target /\ w.todo = Holding(c)
      BY <1>a DEF Work, Holding
    <2>3. w.target \in 1..made
      BY <1>2, <2>2 DEF ListHolding, Held, WorkMade
    <2>4. Goto(c, "next", w)
      BY <1>2 DEF ListHolding, Goes
    <2> HIDE DEF w
    <2>5. QED BY <1>2, <1>b, <1>c, <2>1, <2>2, <2>3, <2>4, MoveKeeps
              DEF ListHolding, crs, authentik, budgets, Steps
  <1>3. CASE AskLock(c)
    <2>1. PICK o \in Pks :
             /\ IF loc[c].todo = {} THEN o = loc[c].target ELSE o \in loc[c].todo
             /\ queue' = [queue EXCEPT ![o] = Append(@, c)]
             /\ Goes(c, "wait", [loc[c] EXCEPT !.at = o, !.todo = @ \ {o}])
      BY <1>3 DEF AskLock
    <2> DEFINE w == [loc[c] EXCEPT !.at = o, !.todo = @ \ {o}]
    <2>2. w \in Work /\ w.target = loc[c].target /\ w.todo = loc[c].todo \ {o} /\ w.at = o
      BY <1>a DEF Work
    <2>3. loc[c].target \in 1..made /\ loc[c].todo \subseteq 1..made
      BY <1>3 DEF AskLock, Held, WorkMade
    <2>4. Goto(c, "wait", w)
      BY <2>1 DEF Goes
    <2>5. OthersKept(c)
      <3> SUFFICES ASSUME NEW d \in CRs \ {c}, pc[d] = "write"
                   PROVE  /\ queue'[loc[d].at] # <<>> /\ Head(queue'[loc[d].at]) = d
                          /\ outposts'[loc[d].at] = outposts[loc[d].at]
        BY DEF OthersKept
      <3>1. Holds(d) /\ loc[d].at \in Pks
        BY MadeInPks DEF Held, WritersHold, WorkMade
      <3>2. ASSUME NEW q \in Seq(CRs), q # <<>>
            PROVE  Append(q, c) # <<>> /\ Head(Append(q, c)) = Head(q)
        BY <3>2
      <3>3. queue[loc[d].at] \in Seq(CRs)
        BY <3>1 DEF TypeOK
      <3>4. QED BY <1>3, <2>1, <3>1, <3>2, <3>3 DEF AskLock, authentik, TypeOK, Holds
    <2> HIDE DEF w
    <2>6. QED BY <1>3, <1>b, <2>1, <2>2, <2>3, <2>4, <2>5, MoveKeeps
              DEF AskLock, crs, authentik, budgets, Steps
  <1>4. CASE ReadList(c)
    <2>1. loc[c].at \in Pks /\ pc[c] \in {"wait", "write"} /\ Holds(c)
      BY <1>4, MadeInPks DEF ReadList, Held, WorkMade
    <2>2. UNCHANGED <<crs, authentik, budgets>>
      BY <1>4 DEF ReadList
    <2>3. CASE Fails(c) /\ Release(c)
      <3>1. OthersKept(c)
        BY <2>1, <2>2, <2>3, ReleaseKeeps DEF Held, OthersKept, authentik
      <3>2. QED BY <1>b, <2>2, <2>3, <3>1, FailsKeeps DEF crs, authentik, budgets
    <2>4. CASE GoesOn(c)
      BY <2>1, <2>2, <2>4, GoesOnKeeps DEF crs, authentik, budgets
    <2>5. CASE /\ Goes(c, "write", [loc[c] EXCEPT !.list = outposts[loc[c].at].list])
               /\ UNCHANGED queue
      <3> DEFINE w == [loc[c] EXCEPT !.list = outposts[loc[c].at].list]
      <3>1. /\ w.target = loc[c].target /\ w.todo = loc[c].todo /\ w.at = loc[c].at
            /\ w.list = outposts[loc[c].at].list
        BY <1>a DEF Work
      <3>2. /\ pc'[c] = "write" /\ loc'[c] = w
            /\ \A d \in CRs \ {c} : pc'[d] = pc[d] /\ loc'[d] = loc[d]
        BY <2>5 DEF Goes, Goto, TypeOK
      <3> HIDE DEF w
      <3>3. outposts[loc[c].at].list \subseteq providers
        BY <2>1 DEF TypeOK
      <3>4. WorkMade'
        BY <2>1, <2>2, <3>1, <3>2 DEF Held, WorkMade, authentik
      <3>5. WritersHold'
        BY <2>1, <2>5, <3>1, <3>2 DEF Held, WritersHold, Holds
      <3>6. ReadsKnown'
        BY <2>2, <3>1, <3>2, <3>3 DEF Held, ReadsKnown, crs, authentik
      <3>7. ReadsCurrent'
        BY <2>2, <3>1, <3>2, <3>3 DEF Held, ReadsCurrent, Disturbed, authentik, budgets
      <3>8. QED BY <1>b, <2>2, <3>4, <3>5, <3>6, <3>7
                DEF Held, OutpostsMade, LateDisturbs, authentik, budgets
    <2>6. QED BY <1>4, <2>3, <2>4, <2>5 DEF ReadList
  <1>5. CASE WriteList(c)
    <2>1. /\ loc[c].at \in Pks /\ pc[c] \in {"wait", "write"} /\ Holds(c)
          /\ Patch(c).at = loc[c].at
      BY <1>5, PatchType DEF WriteList, Held, WritersHold
    <2>2. UNCHANGED <<crs, providers, made, late, budgets>>
      BY <1>5 DEF WriteList
    <2>3. CASE Fails(c) /\ Release(c) /\ UNCHANGED outposts
      <3>1. OthersKept(c)
        BY <2>1, <2>2, <2>3, ReleaseKeeps DEF Held, OthersKept
      <3>2. QED BY <1>b, <2>2, <2>3, <3>1, FailsKeeps DEF crs, budgets
    <2>4. CASE Accepted(Patch(c)) /\ Executes(Patch(c)) /\ GoesOn(c)
      BY <2>1, <2>2, <2>4, PatchKeeps, GoesOnKeeps DEF crs, budgets
    <2>5. QED BY <1>5, <2>3, <2>4 DEF WriteList
  <1>6. QED BY <1>1, <1>2, <1>3, <1>4, <1>5 DEF AttachStep

\* What people, other resources and the rest of the CR's life do keeps the invariant.
LEMMA EnvironmentKeeps ==
  ASSUME TypeOK, Held,
         \/ OutpostStep
         \/ \E c \in CRs : UserStep(c) \/ Cleanup(c)
         \/ \E r \in late : LateWrite(r)
  PROVE  Held'
  <1>a. ASSUME UNCHANGED <<late, disturb>>
        PROVE  (Disturbed => Disturbed') /\ (late' # {} => Disturbed')
    BY <1>a DEF Held, LateDisturbs, Disturbed
  <1>b. made \in Nat /\ OutpostsMade /\ LateDisturbs /\ \A o \in 1..made : o \in Pks
    BY MadeInPks DEF TypeOK, Held
  <1>c. ASSUME UNCHANGED <<providers, outposts>>
        PROVE  \A o \in 1..made : outposts'[o].live =>
                   outposts[o].live /\ outposts'[o].list = outposts[o].list \cap providers'
    BY <1>b, <1>c DEF TypeOK
  <1>1. ASSUME NEW c \in CRs, UserStep(c) PROVE Held'
    <2>1. /\ UNCHANGED <<authentik, queue, pc, loc, budgets>>
          /\ \A d \in CRs : phase[d] = "gone" => phase'[d] = "gone"
      BY <1>1 DEF UserStep, UserMoves, UserDeletes, TypeOK
    <2>2. QED BY <1>a, <1>b, <1>c, <2>1, StayKeeps DEF authentik, budgets, OutpostsMade
  <1>2. ASSUME NEW n \in Names, CreateOutpost(n) PROVE Held'
    <2>1. made + 1 \in Pks /\ made' = made + 1
      BY <1>b, <1>2, BoundsAssumption DEF CreateOutpost, Pks
    <2>2. /\ outposts'[made + 1].live
          /\ \A o \in Pks \ {made + 1} : outposts'[o] = outposts[o]
      BY <1>2, <2>1 DEF CreateOutpost, TypeOK
    <2>3. OutpostsMade'
      <3> SUFFICES ASSUME NEW o \in Pks, outposts'[o].live PROVE o \in 1..made'
        BY DEF OutpostsMade
      <3>1. CASE o = made + 1
        BY <1>b, <2>1, <3>1
      <3>2. CASE o # made + 1
        BY <1>b, <2>1, <2>2, <3>2 DEF OutpostsMade
      <3>3. QED BY <3>1, <3>2
    <2>4. \A o \in 1..made : outposts'[o].live =>
              outposts[o].live /\ outposts'[o].list = outposts[o].list \cap providers'
      <3>1. \A o \in 1..made : outposts'[o] = outposts[o]
        BY <1>b, <2>2
      <3>2. \A o \in 1..made : outposts[o].list \subseteq providers
        BY <1>b DEF TypeOK
      <3>3. QED BY <1>2, <3>1, <3>2 DEF CreateOutpost
    <2>5. QED BY <1>a, <1>b, <1>2, <2>1, <2>3, <2>4, StayKeeps
              DEF CreateOutpost, crs, budgets
  <1>3. ASSUME NEW o \in Pks, DeleteOutpost(o) PROVE Held'
    <2>1. outposts' = [outposts EXCEPT ![o] = [outposts[o] EXCEPT !.live = FALSE, !.list = {}]]
      BY <1>3 DEF DeleteOutpost, TypeOK
    <2>2. ASSUME NEW x \in Outpost
          PROVE  ~[x EXCEPT !.live = FALSE, !.list = {}].live
      BY DEF Outpost
    <2>3. outposts[o] \in Outpost
      BY DEF TypeOK
    <2> DEFINE x == [outposts[o] EXCEPT !.live = FALSE, !.list = {}]
    <2>4. ~x.live /\ outposts' = [outposts EXCEPT ![o] = x]
      BY <2>1, <2>2, <2>3
    <2> HIDE DEF x
    <2>5. ~outposts'[o].live /\ \A p \in Pks \ {o} : outposts'[p] = outposts[p]
      BY <2>4 DEF TypeOK
    <2>6. OutpostsMade'
      BY <1>b, <1>3, <2>5 DEF DeleteOutpost, OutpostsMade
    <2>7. \A p \in 1..made : outposts'[p].live =>
              outposts[p].live /\ outposts'[p].list = outposts[p].list \cap providers'
      BY <1>b, <1>3, <2>5 DEF DeleteOutpost, TypeOK
    <2>8. UNCHANGED <<phase, providers, made, late, disturb, queue, pc, loc>>
      BY <1>3 DEF DeleteOutpost, crs, budgets
    <2>9. made' \in Nat /\ made <= made'
      BY <1>b, <2>8
    <2>10. QED BY <1>a, <2>6, <2>7, <2>8, <2>9, StayKeeps
  <1>4. ASSUME NEW o \in Pks, NEW S \in SUBSET CRs, HumanEditsList(o, S) PROVE Held'
    <2>1. Disturbed'
      BY <1>4, DisturbanceType DEF HumanEditsList
    <2>2. ASSUME NEW x \in Outpost PROVE [x EXCEPT !.list = S].live = x.live
      BY DEF Outpost
    <2>3. \A p \in Pks : outposts'[p].live = outposts[p].live
      BY <1>4, <2>2 DEF HumanEditsList, TypeOK
    <2>4. OutpostsMade'
      BY <1>b, <1>4, <2>3 DEF HumanEditsList, OutpostsMade
    <2>5. QED BY <1>b, <1>4, <2>1, <2>4, StayKeeps DEF HumanEditsList, crs
  <1>5. ASSUME NEW c \in CRs, Cleanup(c) PROVE Held'
    <2>1. ASSUME NEW x \in Outpost
          PROVE  /\ [x EXCEPT !.list = @ \ {c}].list = x.list \ {c}
                 /\ [x EXCEPT !.list = @ \ {c}].live = x.live
      BY DEF Outpost
    <2>2. \A o \in Pks : /\ outposts'[o].live = outposts[o].live
                         /\ outposts'[o].list = outposts[o].list \ {c}
      BY <1>5, <2>1 DEF Cleanup, TypeOK
    <2>3. \A o \in Pks : outposts[o].list \subseteq providers
      BY DEF TypeOK
    <2>4. OutpostsMade'
      BY <1>b, <1>5, <2>2 DEF Cleanup, OutpostsMade
    <2>5. \A o \in 1..made : outposts'[o].live =>
              outposts[o].live /\ outposts'[o].list = outposts[o].list \cap providers'
      BY <1>b, <1>5, <2>2, <2>3 DEF Cleanup
    <2>6. /\ \A d \in CRs : phase[d] = "gone" => phase'[d] = "gone"
          /\ \A d \in CRs : d \in providers => d \in providers' \/ phase'[d] = "gone"
      BY <1>5 DEF Cleanup, TypeOK
    <2>7. /\ UNCHANGED <<made, late, disturb, queue, pc, loc>>
          /\ providers' \subseteq providers
      BY <1>5 DEF Cleanup, budgets
    <2>8. made' \in Nat /\ made <= made'
      BY <1>b, <2>7
    <2>9. QED BY <1>a, <2>4, <2>5, <2>6, <2>7, <2>8, StayKeeps
  <1>6. ASSUME NEW r \in late, LateWrite(r) PROVE Held'
    <2>1. Disturbed'
      BY <1>b, <1>6 DEF LateWrite, LateDisturbs, Disturbed, budgets
    <2>2. r.at \in Pks
      BY DEF TypeOK, Request
    <2>3. \A o \in Pks : outposts'[o].live = outposts[o].live
      BY <1>6, <2>2, PatchKeeps DEF LateWrite
    <2>4. OutpostsMade'
      BY <1>b, <1>6, <2>3 DEF LateWrite, OutpostsMade
    <2>5. QED BY <1>b, <1>6, <2>1, <2>4, StayKeeps DEF LateWrite, crs
  <1>7. QED BY <1>1, <1>2, <1>3, <1>4, <1>5, <1>6 DEF OutpostStep

LEMMA FaultKeeps ==
  ASSUME TypeOK, Held, (\E c \in CRs : FaultStep(c)) \/ Crash
  PROVE  Held'
  <1>a. ASSUME UNCHANGED <<late, disturb>>
        PROVE  (Disturbed => Disturbed') /\ (late' # {} => Disturbed')
    BY <1>a DEF Held, LateDisturbs, Disturbed
  <1>b. ASSUME NEW c \in CRs, pc[c] = "write"
        PROVE  /\ Holds(c) /\ loc[c].at \in Pks
               /\ Patch(c).at = loc[c].at
    BY <1>b, PatchType DEF Held, WritersHold
  <1>1. ASSUME NEW c \in CRs, CallFails(c) PROVE Held'
    <2>1. OthersKept(c)
      <3>1. CASE pc[c] = "holding"
        BY <1>1, <3>1 DEF CallFails, Unlocks, Held, WritersHold, Holds, OthersKept, authentik
      <3>2. CASE pc[c] \in {"wait", "write"}
        <4>1. Holds(c) /\ loc[c].at \in Pks /\ Release(c)
          BY <1>1, <1>b, <3>2, MadeInPks DEF CallFails, Unlocks, Held, WorkMade
        <4>2. QED BY <1>1, <4>1, ReleaseKeeps DEF CallFails, Held, OthersKept, authentik
      <3>3. QED BY <1>1, <3>1, <3>2 DEF CallFails
    <2>2. QED BY <1>1, <1>a, <2>1, FailsKeeps DEF CallFails, crs, authentik
  <1>2. ASSUME NEW c \in CRs, ReplyLost(c) PROVE Held'
    <2>1. /\ \A o \in Pks : outposts'[o].live = outposts[o].live
          /\ \A o \in Pks : o # loc[c].at => outposts'[o] = outposts[o]
      BY <1>2, <1>b, PatchKeeps DEF ReplyLost
    <2>2. OthersKept(c)
      BY <1>2, <1>b, <2>1, ReleaseKeeps, MadeInPks DEF ReplyLost, Held, OthersKept, WorkMade
    <2>3. QED BY <1>2, <1>a, <2>1, <2>2, FailsKeeps DEF ReplyLost, crs
  <1>3. ASSUME NEW c \in CRs, WriteTimesOut(c) PROVE Held'
    <2>1. Disturbed'
      BY <1>3, DisturbanceType DEF WriteTimesOut
    <2>2. OthersKept(c)
      BY <1>3, <1>b, ReleaseKeeps DEF WriteTimesOut, Held, OthersKept
    <2>3. QED BY <1>3, <2>1, <2>2, FailsKeeps DEF WriteTimesOut, crs
  <1>4. CASE Crash
    <2>1. \A c \in CRs : pc'[c] = "idle"
      BY <1>4 DEF Crash
    <2>2. WorkMade' /\ WritersHold' /\ ReadsKnown' /\ ReadsCurrent'
      BY <2>1 DEF WorkMade, WritersHold, ReadsKnown, ReadsCurrent
    <2>3. QED BY <1>4, <1>a, <2>2 DEF Crash, Held, OutpostsMade, LateDisturbs, authentik
  <1>5. QED BY <1>1, <1>2, <1>3, <1>4 DEF FaultStep

LEMMA InvInit == Init => Inv
  <1>1. Init => Held
    <2> SUFFICES ASSUME Init PROVE Held
      OBVIOUS
    <2>1. \A c \in CRs : pc[c] = "idle"
      BY DEF Init
    <2>2. \A o \in Pks : ~outposts[o].live
      BY DEF Init, NoOutpost
    <2>3. late = {}
      BY DEF Init
    <2>4. QED BY <2>1, <2>2, <2>3
              DEF Held, WorkMade, WritersHold, OutpostsMade, ReadsKnown, ReadsCurrent, LateDisturbs
  <1>2. QED BY <1>1, InitType DEF Inv

LEMMA InvNext ==
  ASSUME Inv, [Next]_vars
  PROVE  Inv'
  <1>1. TypeOK'
    BY NextType DEF Inv, Held
  <1>2. CASE UNCHANGED vars
    BY <1>1, <1>2
    DEF Inv, Held, WorkMade, WritersHold, Holds, OutpostsMade, ReadsKnown, ReadsCurrent,
        LateDisturbs, Disturbed, vars, crs, authentik, budgets
  <1>3. CASE Next
    BY <1>1, <1>3, AttachKeeps, EnvironmentKeeps, FaultKeeps DEF Next, Inv
  <1>4. QED BY <1>2, <1>3

\* In every run the values are of their types, and only providers that exist are
\* listed, by outposts that do.
THEOREM TypeCorrect == Spec => []TypeOK
  <1>1. Spec => []Inv
    BY InvInit, InvNext, PTL DEF Spec
  <1>2. Inv => TypeOK
    BY DEF Inv
  <1>3. QED BY <1>1, <1>2, PTL
-----------------------------------------------------------------------------
(* The refinement.  An abstract step is an edit of one list, so most of    *)
(* the steps change nothing there.                                         *)

lists == [o \in Pks |-> outposts[o].list]

\* Nothing that OutpostLists has changes.
Unseen == UNCHANGED <<providers, outposts, disturb>>

LEMMA UnseenStutters ==
  ASSUME Unseen
  PROVE  UNCHANGED Lists!vars
  BY DEF Unseen, Lists!vars, Disturbed

\* While nothing is disturbed, a list that is written is the list Authentik has with
\* the writer's provider in it, or out of it.
LEMMA WriteIs ==
  ASSUME Inv, ~Disturbed, NEW c \in CRs, pc[c] = "write",
         Accepted(Patch(c)), Executes(Patch(c))
  PROVE  /\ loc[c].at \in Pks /\ outposts[loc[c].at].live
         /\ outposts'[loc[c].at].list = Edited(c, outposts[loc[c].at].list)
         /\ outposts'[loc[c].at].list \subseteq providers
         /\ \A o \in Pks : outposts'[o].live = outposts[o].live
         /\ \A o \in Pks : o # loc[c].at => outposts'[o] = outposts[o]
  <1> DEFINE o == loc[c].at
             l == loc[c].list
  <1>1. o \in Pks /\ Patch(c).at = o /\ Patch(c).list = Edited(c, l)
    BY PatchType DEF Inv, Held, Patch
  <1>2. outposts[o].live /\ Edited(c, l) \subseteq providers
    BY <1>1 DEF Accepted
  <1>3. outposts[o].list = l \cap providers
    BY <1>2 DEF Inv, Held, ReadsCurrent
  <1>4. /\ outposts'[o].list = Edited(c, l)
        /\ \A p \in Pks : outposts'[p].live = outposts[p].live
        /\ \A p \in Pks : p # o => outposts'[p] = outposts[p]
    BY <1>1, PatchKeeps DEF Inv
  <1>5. Edited(c, l) = Edited(c, outposts[o].list)
    BY <1>2, <1>3 DEF Edited
  <1>6. QED BY <1>1, <1>2, <1>4, <1>5

\* So the write is a step of OutpostLists.
LEMMA WritesAreEdits ==
  ASSUME Inv, NEW c \in CRs, pc[c] = "write", Accepted(Patch(c)), Executes(Patch(c)),
         UNCHANGED <<providers, disturb>>
  PROVE  [Lists!Next]_Lists!vars
  <1>1. CASE Disturbed
    BY <1>1 DEF Disturbed, Lists!Next, Lists!Disturb
  <1>2. CASE ~Disturbed
    <2> DEFINE o == loc[c].at
    <2>1. /\ o \in Pks
          /\ outposts'[o].list = Edited(c, outposts[o].list)
          /\ outposts'[o].list \subseteq providers
          /\ \A p \in Pks : p # o => outposts'[p] = outposts[p]
      BY <1>2, WriteIs
    <2>2. CASE o = loc[c].target
      <3>1. outposts'[o].list = outposts[o].list \cup {c} /\ c \in providers
        BY <2>1, <2>2 DEF Edited
      <3>2. lists' = [lists EXCEPT ![o] = @ \cup {c}]
        BY <2>1, <3>1 DEF lists
      <3>3. Lists!Attach(o, c)
        BY <3>1, <3>2 DEF Lists!Attach, lists, Disturbed
      <3>4. QED BY <2>1, <3>3 DEF Lists!Next
    <2>3. CASE o # loc[c].target
      <3>1. outposts'[o].list = outposts[o].list \ {c}
        BY <2>1, <2>3 DEF Edited
      <3>2. lists' = [lists EXCEPT ![o] = @ \ {c}]
        BY <2>1, <3>1 DEF lists
      <3>3. Lists!Detach(o, c)
        BY <3>2 DEF Lists!Detach, lists, Disturbed
      <3>4. QED BY <2>1, <3>3 DEF Lists!Next
    <2>4. QED BY <2>2, <2>3
  <1>3. QED BY <1>1, <1>2

LEMMA ReconcileRefines ==
  ASSUME Inv, NEW c \in CRs, Start(c) \/ AttachStep(c) \/ Cleanup(c)
  PROVE  [Lists!Next]_Lists!vars
  <1>1. CASE Start(c)
    <2>1. Lists!Made(c)
      BY <1>1 DEF Start, Lists!Made, Disturbed, budgets
    <2>2. QED BY <2>1 DEF Lists!Next
  <1>2. CASE ListHolding(c) \/ AskLock(c) \/ ReadList(c)
    BY <1>2, UnseenStutters DEF ListHolding, AskLock, ReadList, Unseen, authentik, budgets
  <1>3. CASE WriteList(c)
    <2>1. CASE UNCHANGED outposts
      BY <1>3, <2>1, UnseenStutters DEF WriteList, Unseen, budgets
    <2>2. CASE Accepted(Patch(c)) /\ Executes(Patch(c))
      BY <1>3, <2>2, WritesAreEdits DEF WriteList, budgets
    <2>3. QED BY <1>3, <2>1, <2>2 DEF WriteList
  <1>4. CASE Cleanup(c)
    <2>1. ASSUME NEW x \in Outpost PROVE [x EXCEPT !.list = @ \ {c}].list = x.list \ {c}
      BY DEF Outpost
    <2>2. \A o \in Pks : outposts'[o].list = outposts[o].list \ {c}
      BY <1>4, <2>1 DEF Cleanup, Inv, TypeOK
    <2>3. lists' = [o \in Pks |-> lists[o] \ {c}]
      BY <2>2 DEF lists
    <2>4. Lists!ProviderGone(c)
      BY <1>4, <2>3 DEF Cleanup, Lists!ProviderGone, lists, Disturbed, budgets
    <2>5. QED BY <2>4 DEF Lists!Next
  <1>5. QED BY <1>1, <1>2, <1>3, <1>4 DEF AttachStep

LEMMA OutpostRefines ==
  ASSUME Inv, OutpostStep
  PROVE  [Lists!Next]_Lists!vars
  <1>1. ASSUME NEW o \in Pks, UNCHANGED <<providers, disturb>>,
               outposts'[o].list = {}, \A p \in Pks \ {o} : outposts'[p] = outposts[p]
        PROVE  Lists!Next
    <2>1. lists' = [lists EXCEPT ![o] = {}]
      BY <1>1 DEF lists
    <2>2. Lists!OutpostGone(o)
      BY <1>1, <2>1 DEF Lists!OutpostGone, lists, Disturbed
    <2>3. QED BY <2>2 DEF Lists!Next
  <1>2. ASSUME NEW n \in Names, CreateOutpost(n) PROVE Lists!Next
    <2>1. made + 1 \in Pks
      BY <1>2, BoundsAssumption DEF CreateOutpost, Inv, TypeOK, Pks
    <2>2. /\ outposts'[made + 1].list = {}
          /\ \A p \in Pks \ {made + 1} : outposts'[p] = outposts[p]
      BY <1>2, <2>1 DEF CreateOutpost, Inv, TypeOK
    <2>3. QED BY <1>1, <1>2, <2>1, <2>2 DEF CreateOutpost, budgets
  <1>3. ASSUME NEW o \in Pks, DeleteOutpost(o) PROVE Lists!Next
    <2>1. outposts' = [outposts EXCEPT ![o] = [outposts[o] EXCEPT !.live = FALSE, !.list = {}]]
      BY <1>3 DEF DeleteOutpost, Inv, TypeOK
    <2>2. ASSUME NEW x \in Outpost PROVE [x EXCEPT !.live = FALSE, !.list = {}].list = {}
      BY DEF Outpost
    <2>3. outposts[o] \in Outpost
      BY DEF Inv, TypeOK
    <2> DEFINE x == [outposts[o] EXCEPT !.live = FALSE, !.list = {}]
    <2>4. x.list = {} /\ outposts' = [outposts EXCEPT ![o] = x]
      BY <2>1, <2>2, <2>3
    <2> HIDE DEF x
    <2>5. outposts'[o].list = {} /\ \A p \in Pks \ {o} : outposts'[p] = outposts[p]
      BY <2>4 DEF Inv, TypeOK
    <2>6. QED BY <1>1, <1>3, <2>5 DEF DeleteOutpost, budgets
  <1>4. ASSUME NEW o \in Pks, NEW S \in SUBSET CRs, HumanEditsList(o, S) PROVE Lists!Next
    BY <1>4, DisturbanceType DEF HumanEditsList, Inv, Lists!Next, Lists!Disturb
  <1>5. QED BY <1>2, <1>3, <1>4 DEF OutpostStep

LEMMA FaultRefines ==
  ASSUME Inv, \/ \E c \in CRs : UserStep(c) \/ FaultStep(c)
              \/ \E r \in late : LateWrite(r)
              \/ Crash
  PROVE  [Lists!Next]_Lists!vars
  <1>1. ASSUME NEW c \in CRs, UserStep(c) \/ CallFails(c) PROVE UNCHANGED Lists!vars
    BY <1>1, UnseenStutters
    DEF UserStep, UserMoves, UserDeletes, CallFails, Unseen, authentik, budgets
  <1>2. ASSUME NEW c \in CRs, ReplyLost(c) PROVE [Lists!Next]_Lists!vars
    BY <1>2, WritesAreEdits DEF ReplyLost
  <1>3. ASSUME NEW c \in CRs, WriteTimesOut(c) PROVE Lists!Next
    BY <1>3, DisturbanceType DEF WriteTimesOut, Inv, Lists!Next, Lists!Disturb
  <1>4. ASSUME NEW r \in late, LateWrite(r) PROVE Lists!Next
    BY <1>4 DEF LateWrite, Inv, Held, LateDisturbs, Disturbed, budgets, Lists!Next, Lists!Disturb
  <1>5. CASE Crash
    BY <1>5, UnseenStutters DEF Crash, Unseen, authentik
  <1>6. QED BY <1>1, <1>2, <1>3, <1>4, <1>5 DEF FaultStep

\* The lists change as OutpostLists says, whatever the interleaving of the reconciles,
\* of crashes and of failed calls: no attachment of one application undoes another's.
THEOREM ListsImplemented == Spec => EditsAreAtomic
  <1>1. Init => Lists!Init
    <2> SUFFICES ASSUME Init PROVE Lists!Init
      OBVIOUS
    <2>1. \A o \in Pks : outposts[o].list = {}
      BY DEF Init, NoOutpost
    <2>2. lists = [o \in Pks |-> {}]
      BY <2>1 DEF lists
    <2>3. QED BY <2>2 DEF Init, Lists!Init, Disturbed, lists
  <1>2. Inv /\ [Next]_vars => [Lists!Next]_Lists!vars
    <2> SUFFICES ASSUME Inv, [Next]_vars PROVE [Lists!Next]_Lists!vars
      OBVIOUS
    <2>1. CASE UNCHANGED vars
      BY <2>1, UnseenStutters DEF vars, Unseen, authentik, budgets
    <2>2. CASE Next
      BY <2>2, ReconcileRefines, OutpostRefines, FaultRefines DEF Next
    <2>3. QED BY <2>1, <2>2
  <1>3. Spec => []Inv
    BY InvInit, InvNext, PTL DEF Spec
  <1>4. QED BY <1>1, <1>2, <1>3, PTL DEF Spec, EditsAreAtomic, Lists!Spec
-----------------------------------------------------------------------------
(* Where a provider is served.  Until something fails, the outposts that   *)
(* serve it are, at each step of its CR's reconcile, among the target,     *)
(* those it has yet to leave and the one that is edited; the target comes  *)
(* last, and others' reconciles, which write one list at a time under its  *)
(* lock, neither add it nor take it off.                                   *)

Untroubled == ~Disturbed /\ faults = MaxFaults

Placed(c) ==
    /\ outcome[c] = "synced" => home[c] \in 1..made
    /\ pc[c] = "idle" /\ outcome[c] = "synced" /\ c \in providers =>
          ServedBy(c) = {o \in {home[c]} : outposts[o].live}
    /\ pc[c] # "idle" => loc[c].target \notin loc[c].todo
    /\ pc[c] \in {"holding", "next"} => loc[c].at = NoPk
    /\ pc[c] \in {"next", "wait", "write"} =>
          ServedBy(c) \subseteq {loc[c].target, loc[c].at} \cup loc[c].todo
    /\ pc[c] \in {"wait", "write"} => loc[c].at # loc[c].target \/ loc[c].todo = {}

AllPlaced == Untroubled => \A c \in CRs : Placed(c)

LEMMA FaultTroubles ==
  ASSUME TypeOK, Fault
  PROVE  ~Untroubled'
  BY BoundsAssumption DEF TypeOK, Fault, Untroubled

\* An outpost that serves a provider is there.
LEMMA ServersThere ==
  ASSUME Inv, NEW c \in CRs, NEW o \in Pks, c \in outposts[o].list
  PROVE  outposts[o].live /\ o \in 1..made /\ c \in providers
  BY DEF Inv, TypeOK, Held, OutpostsMade

\* What a step that is not c's leaves of c: its reconcile, and who serves it but for
\* what is deleted.
Spared(c) ==
    /\ pc'[c] = pc[c] /\ loc'[c] = loc[c] /\ outcome'[c] = outcome[c] /\ home'[c] = home[c]
    /\ 1..made \subseteq 1..made'
    /\ c \in providers' => c \in providers
    /\ \A o \in 1..made : outposts'[o].live => outposts[o].live
    /\ c \in providers' => \A o \in Pks :
          c \in outposts'[o].list <=> outposts'[o].live /\ c \in outposts[o].list

LEMMA SparedPlaced ==
  ASSUME Inv, TypeOK', NEW c \in CRs, Placed(c), Spared(c)
  PROVE  Placed(c)'
  <1>1. ServedBy(c)' \subseteq ServedBy(c)
    <2> SUFFICES ASSUME NEW o \in Pks, c \in outposts'[o].list PROVE c \in outposts[o].list
      BY DEF ServedBy
    <2>1. c \in providers'
      BY DEF TypeOK
    <2>2. QED BY <2>1 DEF Spared
  <1>2. ASSUME pc'[c] = "idle", outcome'[c] = "synced", c \in providers'
        PROVE  ServedBy(c)' = {o \in {home'[c]} : outposts'[o].live}
    <2> DEFINE h == home[c]
    <2>1. h \in 1..made /\ h \in Pks /\ home'[c] = h
      BY <1>2, MadeInPks DEF Placed, Spared, Inv
    <2>2. ServedBy(c) = {o \in {h} : outposts[o].live}
      BY <1>2 DEF Placed, Spared
    <2>3. \A o \in Pks : c \in outposts'[o].list <=> outposts'[o].live /\ c \in outposts[o].list
      BY <1>2 DEF Spared
    <2>4. \A o \in Pks : c \in outposts[o].list <=> o = h /\ outposts[h].live
      BY <2>1, <2>2 DEF ServedBy
    <2>5. outposts'[h].live => outposts[h].live
      BY <2>1 DEF Spared
    <2> HIDE DEF h
    <2>6. \A o \in Pks : c \in outposts'[o].list <=> o = h /\ outposts'[h].live
      BY <2>3, <2>4, <2>5
    <2>7. QED BY <2>1, <2>6 DEF ServedBy
  <1>3. QED BY <1>1, <1>2 DEF Placed, Spared

LEMMA OthersSpare ==
  ASSUME Inv, Untroubled, NEW c \in CRs, NEW d \in CRs, d # c, Start(d) \/ AttachStep(d)
  PROVE  Spared(c)
  <1>1. /\ pc'[c] = pc[c] /\ loc'[c] = loc[c] /\ outcome'[c] = outcome[c] /\ home'[c] = home[c]
        /\ made' = made /\ (c \in providers' => c \in providers)
    BY DEF Start, Resolved, AttachStep, ListHolding, AskLock, ReadList, WriteList, GoesOn,
           Fails, Ends, Goes, Goto, Inv, TypeOK, authentik
  <1>2. CASE UNCHANGED outposts
    <2>1. \A o \in Pks : c \in outposts[o].list => outposts[o].live
      BY ServersThere
    <2>2. QED BY <1>1, <1>2, <2>1 DEF Spared
  <1>3. CASE pc[d] = "write" /\ Accepted(Patch(d)) /\ Executes(Patch(d))
    <2>1. /\ outposts'[loc[d].at].list = Edited(d, outposts[loc[d].at].list)
          /\ \A o \in Pks : outposts'[o].live = outposts[o].live
          /\ \A o \in Pks : o # loc[d].at => outposts'[o] = outposts[o]
      BY <1>3, WriteIs DEF Untroubled
    <2>2. \A o \in Pks : c \in outposts'[o].list <=> c \in outposts[o].list
      BY <2>1 DEF Edited
    <2>3. \A o \in Pks : c \in outposts[o].list => outposts[o].live
      BY ServersThere
    <2>4. 1..made \subseteq Pks
      BY MadeInPks DEF Inv
    <2>5. QED BY <1>1, <2>1, <2>2, <2>3, <2>4 DEF Spared
  <1>4. QED
    BY <1>2, <1>3 DEF Start, AttachStep, ListHolding, AskLock, ReadList, WriteList, authentik

LEMMA EnvironmentSpares ==
  ASSUME Inv, Untroubled, Untroubled', NEW c \in CRs,
         \/ OutpostStep
         \/ \E d \in CRs : UserStep(d) \/ Cleanup(d)
  PROVE  Spared(c)
  <1>a. \A o \in Pks : c \in outposts[o].list => outposts[o].live /\ o \in 1..made
    BY ServersThere
  <1>b. made \in Nat /\ 1..made \subseteq Pks /\ 1..made \subseteq 1..(made + 1)
    BY MadeInPks DEF Inv, TypeOK
  <1>1. ASSUME NEW d \in CRs, UserStep(d) PROVE Spared(c)
    BY <1>a, <1>1 DEF UserStep, UserMoves, UserDeletes, authentik, Spared
  <1>2. ASSUME NEW n \in Names, CreateOutpost(n) PROVE Spared(c)
    <2>1. made + 1 \in Pks /\ made' = made + 1 /\ made + 1 \notin 1..made
      BY <1>b, <1>2, BoundsAssumption DEF CreateOutpost, Pks
    <2>2. /\ outposts'[made + 1].list = {}
          /\ \A o \in Pks \ {made + 1} : outposts'[o] = outposts[o]
      BY <1>2, <2>1 DEF CreateOutpost, Inv, TypeOK
    <2>3. \A o \in Pks :
              c \in outposts'[o].list <=> outposts'[o].live /\ c \in outposts[o].list
      BY <1>a, <2>1, <2>2
    <2>4. \A o \in 1..made : outposts'[o] = outposts[o]
      BY <1>b, <2>1, <2>2
    <2>5. QED BY <1>2, <1>b, <2>1, <2>3, <2>4 DEF CreateOutpost, Spared
  <1>3. ASSUME NEW o \in Pks, DeleteOutpost(o) PROVE Spared(c)
    <2> DEFINE x == [outposts[o] EXCEPT !.live = FALSE, !.list = {}]
    <2>1. outposts' = [outposts EXCEPT ![o] = x]
      BY <1>3 DEF DeleteOutpost, Inv, TypeOK
    <2>2. \A y \in Outpost : /\ [y EXCEPT !.live = FALSE, !.list = {}].list = {}
                             /\ ~[y EXCEPT !.live = FALSE, !.list = {}].live
      BY DEF Outpost
    <2>3. outposts[o] \in Outpost
      BY DEF Inv, TypeOK
    <2>4. x.list = {} /\ ~x.live
      BY <2>2, <2>3
    <2> HIDE DEF x
    <2>5. /\ outposts'[o].list = {} /\ ~outposts'[o].live
          /\ \A p \in Pks \ {o} : outposts'[p] = outposts[p]
      BY <2>1, <2>4 DEF Inv, TypeOK
    <2>6. QED BY <1>a, <1>b, <1>3, <2>5 DEF DeleteOutpost, Spared
  <1>4. ASSUME NEW o \in Pks, NEW S \in SUBSET CRs, HumanEditsList(o, S) PROVE Spared(c)
    BY <1>4, FaultTroubles DEF HumanEditsList, Disturbance, Inv
  <1>5. ASSUME NEW d \in CRs, Cleanup(d) PROVE Spared(c)
    <2>1. \A y \in Outpost : /\ [y EXCEPT !.list = @ \ {d}].list = y.list \ {d}
                             /\ [y EXCEPT !.list = @ \ {d}].live = y.live
      BY DEF Outpost
    <2>2. \A o \in Pks : /\ outposts'[o].live = outposts[o].live
                         /\ outposts'[o].list = outposts[o].list \ {d}
      BY <1>5, <2>1 DEF Cleanup, Inv, TypeOK
    <2>3. providers' = providers \ {d} /\ UNCHANGED <<made, pc, loc, outcome, home>>
      BY <1>5 DEF Cleanup
    <2>4. c \in providers' => \A o \in Pks :
              c \in outposts'[o].list <=> outposts'[o].live /\ c \in outposts[o].list
      BY <1>a, <2>2, <2>3
    <2>5. QED BY <1>b, <2>2, <2>3, <2>4 DEF Spared
  <1>6. QED BY <1>1, <1>2, <1>3, <1>4, <1>5 DEF OutpostStep

\* A reconcile that fails leaves nothing to say.
LEMMA FailsPlaced ==
  ASSUME TypeOK, NEW c \in CRs, Fails(c)
  PROVE  Placed(c)'
  <1>1. pc'[c] = "idle" /\ outcome'[c] = "failed"
    BY DEF Fails, Ends, Goto, TypeOK
  <1>2. QED BY <1>1 DEF Placed

\* An edit that is done: one outpost less to leave, or the target reached.
LEMMA GoesOnPlaced ==
  ASSUME Inv, NEW c \in CRs, Placed(c), pc[c] \in {"wait", "write"}, GoesOn(c),
         UNCHANGED made, outposts[loc[c].at].live,
         \A o \in Pks : outposts'[o].live = outposts[o].live,
         \A o \in Pks : o # loc[c].at => outposts'[o] = outposts[o],
         c \in outposts'[loc[c].at].list <=> loc[c].at = loc[c].target
  PROVE  Placed(c)'
  <1>1. /\ loc[c] \in Work /\ loc[c].at \in Pks /\ loc[c].target \in 1..made
        /\ loc[c].target \notin loc[c].todo
    BY MadeInPks DEF Inv, TypeOK, Held, WorkMade, Placed
  <1>2. \A o \in Pks : c \in outposts'[o].list =>
            \/ o = loc[c].at /\ loc[c].at = loc[c].target
            \/ o # loc[c].at /\ o \in {loc[c].target} \cup loc[c].todo
    BY DEF Placed, ServedBy
  <1>3. CASE loc[c].at = loc[c].target
    <2>1. loc[c].todo = {}
      BY <1>3 DEF Placed
    <2>2. pc'[c] = "idle" /\ outcome'[c] = "synced" /\ home'[c] = loc[c].target
      BY <1>3 DEF GoesOn, Ends, Goto, Inv, TypeOK
    <2>3. \A o \in Pks : c \in outposts'[o].list <=> o = loc[c].target
      BY <1>2, <1>3, <2>1
    <2>4. outposts'[loc[c].target].live
      BY <1>1, <1>3
    <2>5. ServedBy(c)' = {o \in {loc[c].target} : outposts'[o].live}
      BY <1>1, <1>3, <2>3, <2>4 DEF ServedBy
    <2>6. QED BY <1>1, <2>2, <2>5 DEF Placed
  <1>4. CASE loc[c].at # loc[c].target
    <2> DEFINE w == [loc[c] EXCEPT !.at = NoPk, !.list = {}]
    <2>1. w.at = NoPk /\ w.target = loc[c].target /\ w.todo = loc[c].todo
      BY <1>1 DEF Work
    <2>2. Goes(c, "next", w)
      BY <1>4 DEF GoesOn
    <2> HIDE DEF w
    <2>3. /\ pc'[c] = "next" /\ loc'[c] = w
          /\ outcome'[c] = outcome[c] /\ home'[c] = home[c]
      BY <2>2 DEF Goes, Goto, Inv, TypeOK
    <2>4. \A o \in Pks : c \in outposts'[o].list => o \in {loc[c].target} \cup loc[c].todo
      BY <1>2, <1>4
    <2>5. QED BY <1>1, <2>1, <2>3, <2>4 DEF Placed, ServedBy
  <1>5. QED BY <1>3, <1>4

\* A reconcile that takes one step more keeps its provider where it is known to be.
LEMMA OwnPlaced ==
  ASSUME Inv, Untroubled, NEW c \in CRs, Placed(c), Start(c) \/ AttachStep(c)
  PROVE  Placed(c)'
  <1>a. TypeOK /\ loc[c] \in Work
    BY DEF Inv, TypeOK
  <1>b. ASSUME NEW step, NEW w, Goes(c, step, w)
        PROVE  /\ pc'[c] = step /\ loc'[c] = w
               /\ outcome'[c] = outcome[c] /\ home'[c] = home[c]
    BY <1>a, <1>b DEF Goes, Goto, TypeOK
  <1>c. UNCHANGED outposts => ServedBy(c)' = ServedBy(c)
    BY DEF ServedBy
  <1>1. CASE Start(c)
    <2>1. ASSUME NEW o \in Pks, Goes(c, "holding", [NoWork EXCEPT !.target = o])
          PROVE  Placed(c)'
      <3> DEFINE w == [NoWork EXCEPT !.target = o]
      <3>1. w.todo = {} /\ w.at = NoPk
        BY DEF NoWork
      <3>2. Goes(c, "holding", w)
        BY <2>1
      <3> HIDE DEF w
      <3>3. /\ pc'[c] = "holding" /\ loc'[c] = w
            /\ outcome'[c] = outcome[c] /\ home'[c] = home[c]
        BY <1>b, <3>2
      <3>4. QED BY <1>1, <3>1, <3>3 DEF Start, Placed
    <2>2. QED BY <1>a, <1>1, <2>1, FailsPlaced DEF Start, Resolved, Named
  <1>2. CASE ListHolding(c)
    <2> DEFINE w == [loc[c] EXCEPT !.todo = Holding(c)]
    <2>1. w.todo = Holding(c) /\ w.at = loc[c].at /\ w.target = loc[c].target
      BY <1>a DEF Work
    <2>2. Goes(c, "next", w)
      BY <1>2 DEF ListHolding
    <2> HIDE DEF w
    <2>3. /\ pc'[c] = "next" /\ loc'[c] = w
          /\ outcome'[c] = outcome[c] /\ home'[c] = home[c]
      BY <1>b, <2>2
    <2>4. pc[c] = "holding" /\ UNCHANGED <<outposts, made>>
      BY <1>2 DEF ListHolding, authentik
    <2>5. loc[c].at = NoPk /\ loc[c].target \notin Holding(c)
      BY <2>4 DEF Placed, Holding
    <2>6. ServedBy(c) \subseteq {loc[c].target} \cup Holding(c)
      BY ServersThere DEF ServedBy, Holding
    <2>7. QED BY <1>c, <2>1, <2>3, <2>4, <2>5, <2>6 DEF Placed
  <1>3. CASE AskLock(c)
    <2>1. PICK o \in Pks :
             /\ IF loc[c].todo = {} THEN o = loc[c].target ELSE o \in loc[c].todo
             /\ Goes(c, "wait", [loc[c] EXCEPT !.at = o, !.todo = @ \ {o}])
      BY <1>3 DEF AskLock
    <2> DEFINE w == [loc[c] EXCEPT !.at = o, !.todo = @ \ {o}]
    <2>2. w.todo = loc[c].todo \ {o} /\ w.at = o /\ w.target = loc[c].target
      BY <1>a DEF Work
    <2>3. Goes(c, "wait", w)
      BY <2>1
    <2> HIDE DEF w
    <2>4. /\ pc'[c] = "wait" /\ loc'[c] = w
          /\ outcome'[c] = outcome[c] /\ home'[c] = home[c]
      BY <1>b, <2>3
    <2>5. pc[c] = "next" /\ UNCHANGED <<outposts, made>>
      BY <1>3 DEF AskLock, authentik
    <2>6. /\ loc[c].target \notin loc[c].todo
          /\ ServedBy(c) \subseteq {loc[c].target, NoPk} \cup loc[c].todo
      BY <2>5 DEF Placed
    <2>7. ServedBy(c) \subseteq {loc[c].target, o} \cup (loc[c].todo \ {o})
      BY <2>6 DEF ServedBy, Pks, NoPk
    <2>8. o # loc[c].target \/ loc[c].todo \ {o} = {}
      BY <2>1, <2>6
    <2>9. QED BY <1>c, <2>2, <2>4, <2>5, <2>6, <2>7, <2>8 DEF Placed
  <1>4. CASE ReadList(c)
    <2> DEFINE o == outposts[loc[c].at]
    <2>1. UNCHANGED <<outposts, made>> /\ pc[c] = "wait"
      BY <1>4 DEF ReadList, authentik
    <2>2. CASE Fails(c)
      BY <1>a, <2>2, FailsPlaced
    <2>3. CASE o.live /\ Edited(c, o.list) = o.list /\ GoesOn(c)
      <3>1. c \in o.list <=> loc[c].at = loc[c].target
        BY <2>3 DEF Edited
      <3>2. QED BY <2>1, <2>3, <3>1, GoesOnPlaced
    <2>4. CASE Goes(c, "write", [loc[c] EXCEPT !.list = o.list])
      <3> DEFINE w == [loc[c] EXCEPT !.list = o.list]
      <3>1. w.todo = loc[c].todo /\ w.at = loc[c].at /\ w.target = loc[c].target
        BY <1>a DEF Work
      <3>2. Goes(c, "write", w)
        BY <2>4
      <3> HIDE DEF w
      <3>3. /\ pc'[c] = "write" /\ loc'[c] = w
            /\ outcome'[c] = outcome[c] /\ home'[c] = home[c]
        BY <1>b, <3>2
      <3>4. QED BY <1>c, <2>1, <3>1, <3>3 DEF Placed
    <2>5. QED BY <1>4, <2>2, <2>3, <2>4 DEF ReadList
  <1>5. CASE WriteList(c)
    <2>1. pc[c] = "write" /\ UNCHANGED made
      BY <1>5 DEF WriteList
    <2>2. CASE Fails(c)
      BY <1>a, <2>2, FailsPlaced
    <2>3. CASE Accepted(Patch(c)) /\ Executes(Patch(c)) /\ GoesOn(c)
      <3>1. /\ outposts[loc[c].at].live
            /\ outposts'[loc[c].at].list = Edited(c, outposts[loc[c].at].list)
            /\ \A o \in Pks : outposts'[o].live = outposts[o].live
            /\ \A o \in Pks : o # loc[c].at => outposts'[o] = outposts[o]
        BY <2>1, <2>3, WriteIs DEF Untroubled
      <3>2. c \in outposts'[loc[c].at].list <=> loc[c].at = loc[c].target
        BY <3>1 DEF Edited
      <3>3. QED BY <2>1, <2>3, <3>1, <3>2, GoesOnPlaced
    <2>4. QED BY <1>5, <2>2, <2>3 DEF WriteList
  <1>6. QED BY <1>1, <1>2, <1>3, <1>4, <1>5 DEF AttachStep

LEMMA NextPlaced ==
  ASSUME Inv, Inv', AllPlaced, [Next]_vars
  PROVE  AllPlaced'
  <1> SUFFICES ASSUME Untroubled', NEW c \in CRs PROVE Placed(c)'
    BY DEF AllPlaced
  <1>1. CASE UNCHANGED vars
    BY <1>1 DEF AllPlaced, Untroubled, Disturbed, Placed, ServedBy, vars, authentik, budgets
  <1>2. CASE Next
    <2>1. ASSUME NEW d \in CRs, FaultStep(d) PROVE FALSE
      BY <2>1, FaultTroubles
      DEF FaultStep, CallFails, ReplyLost, WriteTimesOut, Disturbance, Inv
    <2>2. ~Crash
      BY FaultTroubles DEF Crash, Inv
    <2>3. ASSUME NEW o \in Pks, NEW S \in SUBSET CRs, HumanEditsList(o, S) PROVE FALSE
      BY <2>3, FaultTroubles DEF HumanEditsList, Disturbance, Inv
    <2>4. ASSUME NEW r \in late, LateWrite(r) PROVE FALSE
      BY <2>4 DEF LateWrite, Inv, Held, LateDisturbs, Untroubled, Disturbed, budgets
    <2>5. CASE \E d \in CRs : Start(d) \/ AttachStep(d)
      <3>1. PICK d \in CRs : Start(d) \/ AttachStep(d)
        BY <2>5
      <3>2. Untroubled /\ Placed(c)
        BY <3>1 DEF Start, AttachStep, ListHolding, AskLock, ReadList, WriteList,
                    AllPlaced, Untroubled, Disturbed, budgets
      <3>3. CASE d = c
        BY <3>1, <3>2, <3>3, OwnPlaced
      <3>4. CASE d # c
        <4>1. Spared(c)
          BY <3>1, <3>2, <3>4, OthersSpare
        <4>2. QED BY <3>2, <4>1, SparedPlaced DEF Inv
      <3>5. QED BY <3>3, <3>4
    <2>6. CASE OutpostStep \/ \E d \in CRs : UserStep(d) \/ Cleanup(d)
      <3>1. Untroubled /\ Placed(c)
        BY <2>3, <2>6 DEF OutpostStep, CreateOutpost, DeleteOutpost, UserStep, UserMoves,
                    UserDeletes, Cleanup, AllPlaced, Untroubled, Disturbed, budgets
      <3>2. Spared(c)
        BY <2>6, <3>1, EnvironmentSpares
      <3>3. QED BY <3>1, <3>2, SparedPlaced DEF Inv
    <2>7. QED BY <1>2, <2>1, <2>2, <2>4, <2>5, <2>6 DEF Next
  <1>3. QED BY <1>1, <1>2

\* Until something fails, a provider whose reconcile ended Synced is served by the outpost
\* it was attached to, as long as that exists, and by no other, for any number of
\* applications that attach, move and go at the same time.
THEOREM ServedThere == Spec => []ServedWhereSynced
  <1>1. Init => Inv /\ AllPlaced
    <2> SUFFICES ASSUME Init PROVE AllPlaced
      BY InvInit
    <2>1. \A c \in CRs : pc[c] = "idle" /\ outcome[c] = "none"
      BY DEF Init
    <2>2. QED BY <2>1 DEF AllPlaced, Placed
  <1>2. Inv /\ AllPlaced /\ [Next]_vars => (Inv /\ AllPlaced)'
    BY InvNext, NextPlaced
  <1>3. AllPlaced => ServedWhereSynced
    BY DEF AllPlaced, Untroubled, Placed, ServedWhereSynced
  <1>4. QED BY <1>1, <1>2, <1>3, PTL DEF Spec
=============================================================================
