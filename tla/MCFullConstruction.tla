------------------------- MODULE MCFullConstruction -------------------------
(***************************************************************************)
(* Model-checking instances of FullConstruction.                           *)
(***************************************************************************)
EXTENDS FullConstruction

=============================================================================
