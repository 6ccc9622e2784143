---------------------------- MODULE MCMigrations ----------------------------
(* Runners of two releases for model checking Migrations. *)
EXTENDS Migrations, TLC

CONSTANTS older, newer

MCRelease == older :> 2 @@ newer :> 3
=============================================================================
