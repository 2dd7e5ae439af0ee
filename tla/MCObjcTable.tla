----------------------------- MODULE MCObjcTable -----------------------------
(***************************************************************************)
(* An instance of ObjcTable for TLC.                                       *)
(***************************************************************************)
EXTENDS ObjcTable, TLC
=============================================================================
