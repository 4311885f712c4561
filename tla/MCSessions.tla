----------------------------- MODULE MCSessions -----------------------------
(***************************************************************************)
(* Instances of module Sessions.                                           *)
(***************************************************************************)
EXTENDS Sessions

=============================================================================
