---------------------------- MODULE MCAdmission ----------------------------
(* Admission on a small instance: one application and its access policy.   *)
EXTENDS Admission
CONSTANTS a1, p1, n1, q1

MCAppOf == [p \in {p1} |-> a1]
MCNsOf == [c \in {a1, p1} |-> n1]

Rule(kinds, effect) == [namespaces |-> {n1}, kinds |-> kinds, effect |-> effect]

\* Everything allowed; access policies denied, and by default applications.
Permissive == {Rule(Kinds, "Allow")}
Restrictive == {Rule({"AuthentikAccessPolicy"}, "Deny")}
MCRulings == {Permissive, Restrictive}

\* No policy, or one that denies.
MCAtFirst == {[p \in Policies |-> IF p = q1 THEN first ELSE None] : first \in {None, Restrictive}}
=============================================================================
