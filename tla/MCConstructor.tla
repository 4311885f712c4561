---------------------------- MODULE MCConstructor ----------------------------
(***************************************************************************)
(* ConstructorPage for TLC.                                                *)
(***************************************************************************)
EXTENDS ConstructorPage

=============================================================================
