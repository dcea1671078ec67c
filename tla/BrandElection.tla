--------------------------- MODULE BrandElection ---------------------------
(***************************************************************************)
(* AuthentikBrands that claim to be Authentik's default brand              *)
(* (crates/domain/src/brand_election.rs,                                   *)
(* crates/application/src/use_cases/reconcile_brand.rs and                 *)
(* crates/adapters-inbound/src/controller/brand.rs).                       *)
(*                                                                         *)
(* The brands of several CRs are reconciled concurrently.  Each reconcile  *)
(* reads its own CR from the API server but its rivals from the watch      *)
(* store, elects the earliest claimant, and the one that finds itself      *)
(* elected moves Authentik's single default flag in separate calls: read   *)
(* who has it, take it away, set it.                                       *)
(*                                                                         *)
(* Abstractions: a CR's spec is its claim, its other fields (drift,        *)
(* out-of-band deletion, AlreadyExists, the finalizer's handshake) are     *)
(* RemoteObject's.  A CR name is used once, so its brand bears its name.   *)
(* Creation timestamps have a resolution of a second: two may be equal.    *)
(* What no reconcile reads from the watch store (generation, conditions)   *)
(* is kept apart from what travels there.                                  *)
(***************************************************************************)
EXTENDS Naturals, Sequences, FiniteSets

CONSTANTS
    CRs,        \* the AuthentikBrands, numbered in the order of their names
    MaxGen,     \* bound: generations of a CR's spec
    MaxLag,     \* bound: CR versions the watch has not delivered
    MaxFaults,  \* bound: failed calls, lost replies and operator crashes
    MaxDisturb, \* bound: changes of the default by people, and after a timeout
    Native,     \* the default brand Authentik came with
    Nobody      \* no default brand

ASSUME BoundsAssumption ==
    /\ MaxGen \in Nat \ {0} /\ MaxLag \in Nat \ {0}
    /\ MaxFaults \in Nat /\ MaxDisturb \in Nat
ASSUME CRsAssumption == CRs \subseteq Nat /\ CRs # {} /\ IsFiniteSet(CRs)
ASSUME BrandAssumption == Native # Nobody /\ {Native, Nobody} \cap CRs = {}

Stamps == 0..Cardinality(CRs)

Version ==  \* what is read of one version of a CR
    [phase : {"absent", "live", "deleting", "gone"},
     born : Stamps,       \* metadata.creationTimestamp
     claims : BOOLEAN,    \* spec.default
     recorded : BOOLEAN]  \* status.authentikId is set
Status == [observed : 0..MaxGen, ready : {"none", "synced", "conflict", "failed"}]

Applying == {"fetched", "toggle", "disable", "enable", "release"}
Steps == {"idle", "cleanup", "cleaned", "synced", "conflict", "failed"} \cup Applying

Work ==  \* what one reconcile carries across its await points
    [gen : 0..MaxGen, claims : BOOLEAN, recorded : BOOLEAN,  \* the CR as fetched
     current : CRs \cup {Native, Nobody},  \* the default brand, as it was read
     made : BOOLEAN]                       \* the brand is known to exist
Toggling == {"disable", "enable", "release"}
Request == [brand : CRs \cup {Native, Nobody}, on : BOOLEAN]  \* a set_brand_default

VARIABLES
    api, cache, pending,  \* a CR at the API server, in the watch store, on its way
    gen, status,          \* its generation and the conditions published on it
    due, pc, loc,         \* its reconciles: scheduled, under way
    brands,               \* the CRs whose brand exists in Authentik
    default,              \* Authentik's default brand
    late,                 \* requests given up on that Authentik may still execute
    faults, disturb       \* what is left of the two budgets

vars == <<api, cache, pending, gen, status, due, pc, loc, brands, default, late, faults, disturb>>

-----------------------------------------------------------------------------
Blank == [phase |-> "absent", born |-> 0, claims |-> FALSE, recorded |-> FALSE]
NoStatus == [observed |-> 0, ready |-> "none"]
NoWork == [gen |-> 0, claims |-> FALSE, recorded |-> FALSE, current |-> Nobody,
           made |-> FALSE]

Present(v) == v.phase \in {"live", "deleting"}
HasRoom(c) == Len(pending[c]) < MaxLag

Write(c, v) ==
    /\ api' = [api EXCEPT ![c] = v]
    /\ pending' = IF v = api[c] THEN pending
                  ELSE [pending EXCEPT ![c] = Append(@, v)]

Goto(c, step, work) ==
    /\ pc' = [pc EXCEPT ![c] = step]
    /\ loc' = [loc EXCEPT ![c] = work]

Init ==
    /\ api = [c \in CRs |-> Blank] /\ cache = [c \in CRs |-> Blank]
    /\ pending = [c \in CRs |-> <<>>]
    /\ gen = [c \in CRs |-> 0]
    /\ status = [c \in CRs |-> NoStatus]
    /\ due = {}
    /\ pc = [c \in CRs |-> "idle"] /\ loc = [c \in CRs |-> NoWork]
    /\ brands = {} /\ default = Native /\ late = {}
    /\ faults = MaxFaults /\ disturb = MaxDisturb
-----------------------------------------------------------------------------
(* The people who own the CRs, and those who work in Authentik itself.     *)

\* In the second of the last creation, or later: no order of creations needs a longer wait
\* than a second.
Stamp(born) ==
    LET created == {d \in CRs : api[d].phase # "absent"}
    IN /\ \A d \in created : api[d].born <= born
       /\ born = 0 \/ \E d \in created : born \in {api[d].born, api[d].born + 1}

UserCreates(c, claims, born) ==
    /\ api[c].phase = "absent"
    /\ Stamp(born)
    /\ Write(c, [Blank EXCEPT !.phase = "live", !.born = born, !.claims = claims])
    /\ gen' = [gen EXCEPT ![c] = 1]
    /\ UNCHANGED <<cache, status, due, pc, loc, brands, default, faults, late, disturb>>

UserTogglesDefault(c) ==
    /\ api[c].phase = "live" /\ gen[c] < MaxGen /\ HasRoom(c)
    /\ Write(c, [api[c] EXCEPT !.claims = ~@])
    /\ gen' = [gen EXCEPT ![c] = @ + 1]
    /\ UNCHANGED <<cache, status, due, pc, loc, brands, default, faults, late, disturb>>

UserDeletes(c) ==
    /\ api[c].phase = "live" /\ HasRoom(c)
    /\ Write(c, [api[c] EXCEPT !.phase = "deleting"])
    /\ UNCHANGED <<cache, gen, status, due, pc, loc, brands, default, faults, late, disturb>>

Disturbance == disturb > 0 /\ disturb' = disturb - 1

HumanSetsDefault(b) ==
    /\ Disturbance
    /\ b \in brands \cup {Native, Nobody} /\ b # default
    /\ default' = b
    /\ UNCHANGED <<api, cache, pending, gen, status, due, pc, loc, brands, late, faults>>
-----------------------------------------------------------------------------
(* One reconcile.                                                          *)

Deliver(c) ==
    /\ pending[c] # <<>>
    /\ cache' = [cache EXCEPT ![c] = Head(pending[c])]
    /\ pending' = [pending EXCEPT ![c] = Tail(@)]
    /\ due' = IF Present(Head(pending[c])) THEN due \cup {c} ELSE due
    /\ UNCHANGED <<api, gen, status, pc, loc, brands, default, faults, late, disturb>>

Reconcilable(c) == pc[c] = "idle" /\ c \in due

\* apply(): the CR itself is read from the API server.  It stays due: whatever comes
\* of it, it is requeued.
Fetch(c) ==
    /\ Reconcilable(c) /\ cache[c].phase = "live" /\ Present(api[c])
    /\ Goto(c, "fetched", [NoWork EXCEPT !.gen = gen[c], !.claims = api[c].claims,
                                         !.recorded = api[c].recorded])
    /\ UNCHANGED <<api, cache, pending, gen, status, due, brands, default, faults, late, disturb>>

\* Earliest creation first, ties broken by name.
Before(v, c, w, d) == v.born < w.born \/ (v.born = w.born /\ c < d)

\* The claimants a reconcile of c sees: itself as fetched, the others in the store.
\* list_all does not look at deletion timestamps.
Rivals(c) == {d \in CRs \ {c} : Present(cache[d]) /\ cache[d].claims}
Elected(c) == \A d \in Rivals(c) : Before(api[c], c, cache[d], d)

\* plan_brand_action: a loser never reaches Authentik.
Loses(c) == loc[c].claims /\ ~Elected(c)
\* A brand has its domain already, and it is not the recorded one.
DomainTaken(c) == c \in brands /\ ~loc[c].recorded

\* The election, on the store as it is then, and update_brand or create_brand: the
\* first call concerns this brand alone, so that no rival sees what lies between.
SyncBrand(c) ==
    /\ pc[c] = "fetched"
    /\ \/ Loses(c) /\ Goto(c, "conflict", loc[c]) /\ UNCHANGED brands
       \/ ~Loses(c) /\ DomainTaken(c) /\ Goto(c, "failed", loc[c]) /\ UNCHANGED brands
       \/ /\ ~Loses(c) /\ ~DomainTaken(c)
          /\ brands' = brands \cup {c}
          /\ Goto(c, "toggle", [loc[c] EXCEPT !.made = TRUE, !.recorded = FALSE])
    /\ UNCHANGED <<api, cache, pending, gen, status, due, default, faults, late, disturb>>

\* A bug: the flag is taken from whoever has it.
ToggleTakesAnyway(c) ==
    IF loc[c].claims
    THEN IF default = c THEN "synced" ELSE IF default = Nobody THEN "enable" ELSE "disable"
    ELSE IF default # Nobody THEN "disable" ELSE "synced"

Toggle(c) ==
    IF loc[c].claims
    THEN IF default = c THEN "synced" ELSE IF default = Nobody THEN "enable" ELSE "disable"
    ELSE IF default = c THEN "release" ELSE "synced"

\* toggle_default: who is the default now?
GetDefault(c) ==
    /\ pc[c] = "toggle"
    /\ Goto(c, Toggle(c), [loc[c] EXCEPT !.current =
            IF Toggle(c) = "disable" THEN default ELSE Nobody])
    /\ UNCHANGED <<api, cache, pending, gen, status, due, brands, default, faults, late, disturb>>

Exists(b) == b \in brands \cup {Native}

\* set_brand_default(current, false): a brand deleted meanwhile is an error.
DisableCurrent(c) ==
    /\ pc[c] = "disable"
    /\ IF Exists(loc[c].current)
       THEN /\ default' = IF default = loc[c].current THEN Nobody ELSE default
            /\ Goto(c, "enable", loc[c])
       ELSE Goto(c, "failed", loc[c]) /\ UNCHANGED default
    /\ UNCHANGED <<api, cache, pending, gen, status, due, brands, faults, late, disturb>>

\* set_brand_default(own, true): Authentik accepts one default brand at a time.
EnableOwn(c) ==
    /\ pc[c] = "enable"
    /\ IF default \in {Nobody, c}
       THEN default' = c /\ Goto(c, "synced", loc[c])
       ELSE Goto(c, "failed", loc[c]) /\ UNCHANGED default
    /\ UNCHANGED <<api, cache, pending, gen, status, due, brands, faults, late, disturb>>

\* set_brand_default(own, false).
ReleaseOwn(c) ==
    /\ pc[c] = "release"
    /\ default' = IF default = c THEN Nobody ELSE default
    /\ Goto(c, "synced", loc[c])
    /\ UNCHANGED <<api, cache, pending, gen, status, due, brands, faults, late, disturb>>

\* A bug: only a failure is requeued.
RequeuedOnFailure(c) == IF pc[c] = "failed" THEN due ELSE due \ {c}

\* requeue_after: later for a success or a conflict, but always.
Requeued(c) == due \cup {c}

\* A bug: the status takes the generation the CR has by now.
ObservedLatest(c) == IF pc[c] = "synced" THEN gen[c] ELSE status[c].observed

Observed(c) == IF pc[c] = "synced" THEN loc[c].gen ELSE status[c].observed

\* The status; the brand is recorded even when the toggle failed.
Publish(c) ==
    /\ pc[c] \in {"synced", "conflict", "failed"}
    /\ IF Present(api[c])
       THEN /\ HasRoom(c) \/ api[c].recorded \/ ~loc[c].made
            /\ Write(c, [api[c] EXCEPT !.recorded = @ \/ loc[c].made])
            /\ status' = [status EXCEPT ![c] = [observed |-> Observed(c), ready |-> pc[c]]]
       ELSE UNCHANGED <<api, pending, status>>
    /\ due' = Requeued(c)
    /\ Goto(c, "idle", NoWork)
    /\ UNCHANGED <<cache, gen, brands, default, faults, late, disturb>>

\* The cleanup: the brand the store's copy of the status records, no other is enabled.
Cleanup(c) ==
    /\ Reconcilable(c) /\ cache[c].phase = "deleting"
    /\ Goto(c, IF cache[c].recorded THEN "cleanup" ELSE "cleaned", NoWork)
    /\ due' = due \ {c}
    /\ UNCHANGED <<api, cache, pending, gen, status, brands, default, faults, late, disturb>>

\* A bug: a deleted brand stays the default.
DeleteBrandOnly(c) ==
    /\ pc[c] = "cleanup"
    /\ brands' = brands \ {c}
    /\ Goto(c, "cleaned", loc[c])
    /\ UNCHANGED <<api, cache, pending, gen, status, due, default, faults, late, disturb>>

DeleteBrand(c) ==
    /\ pc[c] = "cleanup"
    /\ brands' = brands \ {c}
    /\ default' = IF default = c THEN Nobody ELSE default
    /\ Goto(c, "cleaned", loc[c])
    /\ UNCHANGED <<api, cache, pending, gen, status, due, faults, late, disturb>>

RemoveFinalizer(c) ==
    /\ pc[c] = "cleaned"
    /\ IF Present(api[c])
       THEN /\ HasRoom(c)
            /\ Write(c, [Blank EXCEPT !.phase = "gone", !.born = api[c].born])
            /\ gen' = [gen EXCEPT ![c] = 0]
            /\ status' = [status EXCEPT ![c] = NoStatus]
       ELSE UNCHANGED <<api, pending, gen, status>>
    /\ Goto(c, "idle", NoWork)
    /\ UNCHANGED <<cache, due, brands, default, faults, late, disturb>>
-----------------------------------------------------------------------------
(* Faults, from one budget.                                                *)

Fault == faults > 0 /\ faults' = faults - 1

CallFails(c) ==
    /\ Fault
    /\ \/ pc[c] \in Applying /\ Goto(c, "failed", loc[c]) /\ UNCHANGED due
       \/ pc[c] = "cleanup" /\ Goto(c, "idle", NoWork) /\ due' = due \cup {c}
    /\ UNCHANGED <<api, cache, pending, gen, status, brands, default, late, disturb>>

\* The toggle a reconcile asks for, and what Authentik does with one.
Asked(c) == [brand |-> IF pc[c] = "disable" THEN loc[c].current ELSE c,
             on |-> pc[c] = "enable"]
Accepted(r) == Exists(r.brand) /\ (r.on => default \in {Nobody, r.brand})
Executes(r) ==
    default' = IF r.on THEN r.brand ELSE IF default = r.brand THEN Nobody ELSE default

\* Authentik creates the brand, or moves the flag, and its answer never arrives.
ReplyLost(c) ==
    /\ Fault
    /\ \/ /\ pc[c] = "fetched" /\ ~Loses(c) /\ c \notin brands
          /\ brands' = brands \cup {c} /\ UNCHANGED default
       \/ /\ pc[c] \in Toggling /\ Accepted(Asked(c))
          /\ Executes(Asked(c)) /\ UNCHANGED brands
    /\ Goto(c, "failed", loc[c])
    /\ UNCHANGED <<api, cache, pending, gen, status, due, late, disturb>>

\* The toggle times out while Authentik still has it: the reconcile goes on without it.
ToggleTimesOut(c) ==
    /\ Fault /\ Disturbance
    /\ pc[c] \in Toggling
    /\ late' = late \cup {Asked(c)}
    /\ Goto(c, "failed", loc[c])
    /\ UNCHANGED <<api, cache, pending, gen, status, due, brands, default>>

LateToggle(r) ==
    /\ r \in late /\ late' = late \ {r}
    /\ IF Accepted(r) THEN Executes(r) ELSE UNCHANGED default
    /\ UNCHANGED <<api, cache, pending, gen, status, due, pc, loc, brands, faults, disturb>>

WriteBackFails(c) ==
    /\ Fault
    /\ pc[c] \in {"synced", "conflict", "failed", "cleaned"}
    /\ Goto(c, "idle", NoWork)
    /\ due' = due \cup {c}
    /\ UNCHANGED <<api, cache, pending, gen, status, brands, default, late, disturb>>

Crash ==
    /\ Fault
    /\ cache' = api /\ pending' = [c \in CRs |-> <<>>]
    /\ due' = CRs
    /\ pc' = [c \in CRs |-> "idle"] /\ loc' = [c \in CRs |-> NoWork]
    /\ UNCHANGED <<api, gen, status, brands, default, late, disturb>>
-----------------------------------------------------------------------------
UserStep(c) ==
    \/ \E claims \in BOOLEAN, born \in Stamps : UserCreates(c, claims, born)
    \/ UserTogglesDefault(c) \/ UserDeletes(c)
StartStep(c) == Fetch(c) \/ Cleanup(c)
WorkStep(c) ==
    \/ SyncBrand(c) \/ GetDefault(c) \/ DisableCurrent(c)
    \/ EnableOwn(c) \/ ReleaseOwn(c) \/ Publish(c)
    \/ DeleteBrand(c) \/ RemoveFinalizer(c)
FaultStep(c) == CallFails(c) \/ ReplyLost(c) \/ ToggleTimesOut(c) \/ WriteBackFails(c)

Next ==
    \/ \E c \in CRs : \/ UserStep(c) \/ Deliver(c) \/ StartStep(c)
                      \/ WorkStep(c) \/ FaultStep(c)
    \/ \E b \in CRs \cup {Native, Nobody} : HumanSetsDefault(b)
    \/ \E r \in late : LateToggle(r)
    \/ Crash

Spec == Init /\ [][Next]_vars

\* As in RemoteObject: the watch delivers, what is due is started and goes on.
Fairness == \A c \in CRs :
    WF_vars(Deliver(c)) /\ WF_vars(StartStep(c)) /\ WF_vars(WorkStep(c))
FairSpec == Spec /\ Fairness
-----------------------------------------------------------------------------
(* Properties.                                                             *)

\* The values every variable ranges over; the default brand exists.
TypeOK ==
    /\ api \in [CRs -> Version] /\ cache \in [CRs -> Version]
    /\ pending \in [CRs -> Seq(Version)]
    /\ gen \in [CRs -> 0..MaxGen] /\ status \in [CRs -> Status]
    /\ due \subseteq CRs
    /\ pc \in [CRs -> Steps] /\ loc \in [CRs -> Work]
    /\ brands \subseteq CRs
    /\ default \in brands \cup {Native, Nobody}
    /\ late \subseteq Request
    /\ faults \in 0..MaxFaults /\ disturb \in 0..MaxDisturb

\* A brand whose CR is Synced at its current generation without claiming the default
\* is not the default, whatever was in flight when the claim was withdrawn, unless
\* people made it so, or Authentik did when nobody waited for it any more.
ReleasedIsNotDefault ==
    disturb = MaxDisturb => \A c \in CRs :
        status[c].ready = "synced" /\ status[c].observed = gen[c] /\ ~api[c].claims
        => default # c

\* The brand of another CR, or Authentik's own, is deprived of the default only by a
\* reconcile that read a claim of its CR: one withdrawing its claim takes nothing but
\* its own, even if the default moved since it looked.
OnlyClaimantsTakeOver ==
    [][\A c \in CRs : pc'[c] # pc[c] /\ pc[c] \in Applying
          /\ default # c /\ default' # default
          => loc[c].claims]_vars

\* The earliest of the claims the API server holds.
ElectedByApi(c) ==
    \A d \in CRs \ {c} :
        api[d].phase = "live" /\ api[d].claims => Before(api[c], c, api[d], d)

Stuck(c) == c \in brands /\ ~api[c].recorded
Settled ==
    /\ \A c \in CRs : api[c].phase = "live" /\ api[c].claims =>
          IF ElectedByApi(c) THEN Stuck(c) \/ (default = c /\ status[c].ready = "synced")
                             ELSE status[c].ready = "conflict"
    /\ \A c \in CRs : api[c].phase = "live" /\ ~api[c].claims => default # c \/ Stuck(c)
    /\ \A c \in CRs : api[c].phase = "deleting" => FALSE

\* Once people and faults stop, the earliest claimant is the default and says so, the
\* others report the conflict, no brand whose CR does not claim it is the default, and
\* no deletion is left under way.  (A brand whose creation got no answer is stuck on
\* AlreadyExists.)
Settles == <>[]Settled
=============================================================================
