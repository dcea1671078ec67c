---------------------------- MODULE MCBlueprint ----------------------------
(* Blueprint on a small instance.                                          *)
EXTENDS Blueprint
CONSTANTS k1, k2, x1

\* Two contents, one with a context or none, and one disabled.
MCSpecs == {[content |-> k1, context |-> None, enabled |-> TRUE],
            [content |-> k2, context |-> x1, enabled |-> TRUE],
            [content |-> k2, context |-> None, enabled |-> FALSE]}
=============================================================================
