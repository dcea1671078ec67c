--------------------------- MODULE MCBrandElection ---------------------------
(* BrandElection on small instances, one .cfg per question.                *)
EXTENDS BrandElection
=============================================================================
