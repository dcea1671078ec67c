--------------------------- MODULE MCRemoteObject ---------------------------
(* RemoteObject on small instances, one .cfg per question.                 *)
EXTENDS RemoteObject, TLC

NameSymmetry == Permutations(Names)
=============================================================================
