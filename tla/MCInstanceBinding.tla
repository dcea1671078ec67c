-------------------------- MODULE MCInstanceBinding --------------------------
(* A cluster instance and a local one of the same name; an application and *)
(* its policy, or one CR of a cluster-scoped kind.                         *)
EXTENDS InstanceBinding

CONSTANTS a1, p1, o1

MCInstances == {[name |-> "main", kind |-> k] : k \in Kinds}
MCFirstRefs == {[name |-> "main", kind |-> "any"]}
MCTogether == {{a1, p1}, {o1}}
MCAppOf == [p \in {p1} |-> a1]
=============================================================================
