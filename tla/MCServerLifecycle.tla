-------------------------- MODULE MCServerLifecycle --------------------------
(***************************************************************************)
(* Model-checking instances of ServerLifecycle: documents with the limits  *)
(* 0 (refused), 1 and 2, and a clock that can pass every boundary.         *)
(***************************************************************************)
EXTENDS ServerLifecycle

AllStartups == {"none", "load", "publish", "rebuild"}

=============================================================================
