------------------------------ MODULE MCObjcApp ------------------------------
(***************************************************************************)
(* An instance of ObjcApp for TLC.                                         *)
(***************************************************************************)
EXTENDS ObjcApp, TLC
=============================================================================
