--------------------------------- MODULE MCPool ---------------------------------
(***************************************************************************)
(* Pool for model checking: two stores of one database and one of another,  *)
(* called by two coroutines.                                                *)
(***************************************************************************)
EXTENDS Pool, TLC

CONSTANTS main, other, checkpoints, artifacts, elsewhere

MCStoreUrl == checkpoints :> main @@ artifacts :> main @@ elsewhere :> other
=============================================================================
