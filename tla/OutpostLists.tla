---------------------------- MODULE OutpostLists ----------------------------
(***************************************************************************)
(* What attaching a provider to an outpost promises: that providers enter  *)
(* and leave an outpost's list one at a time, each by its own application. *)
(* Authentik has no such call; OutpostProviders does it with a list that   *)
(* is read, edited and written back whole.                                 *)
(***************************************************************************)
CONSTANTS Outposts, Providers

VARIABLES
    lists,    \* lists[o]: the providers of outpost o
    exists,   \* the providers there are
    disturbed \* somebody the operator cannot serialize wrote a list

vars == <<lists, exists, disturbed>>

Init == lists = [o \in Outposts |-> {}] /\ exists = {} /\ disturbed = FALSE

Made(p) == exists' = exists \cup {p} /\ UNCHANGED <<lists, disturbed>>

Attach(o, p) ==
    /\ p \in exists
    /\ lists' = [lists EXCEPT ![o] = @ \cup {p}]
    /\ UNCHANGED <<exists, disturbed>>

Detach(o, p) ==
    /\ lists' = [lists EXCEPT ![o] = @ \ {p}]
    /\ UNCHANGED <<exists, disturbed>>

\* A provider or an outpost that is deleted leaves every list.
ProviderGone(p) ==
    /\ exists' = exists \ {p}
    /\ lists' = [o \in Outposts |-> lists[o] \ {p}]
    /\ UNCHANGED disturbed

OutpostGone(o) ==
    /\ lists' = [lists EXCEPT ![o] = {}]
    /\ UNCHANGED <<exists, disturbed>>

\* From then on nothing is promised of the lists.
Disturb == disturbed' = TRUE
Next ==
    \/ \E p \in Providers : Made(p) \/ ProviderGone(p)
    \/ \E o \in Outposts, p \in Providers : Attach(o, p) \/ Detach(o, p)
    \/ \E o \in Outposts : OutpostGone(o)
    \/ Disturb

Spec == Init /\ [][Next]_vars
=============================================================================
