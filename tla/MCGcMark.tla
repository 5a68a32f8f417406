------------------------------ MODULE MCGcMark ------------------------------
(***************************************************************************)
(* Every graph over three object ids, in every order of the work list.     *)
(***************************************************************************)
EXTENDS GcMark

MCObjects == 1..3
=============================================================================
