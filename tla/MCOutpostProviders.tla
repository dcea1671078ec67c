------------------------ MODULE MCOutpostProviders ------------------------
(* Small instances of OutpostProviders, bounded by its constants alone. *)
EXTENDS OutpostProviders
=============================================================================
