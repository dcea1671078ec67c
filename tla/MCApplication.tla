---------------------------- MODULE MCApplication ----------------------------
(* Application on small instances, one .cfg per question.                  *)
EXTENDS Application
=============================================================================
