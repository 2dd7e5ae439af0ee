--------------------------- MODULE MCAndroidHttp ---------------------------
(* The instance of AndroidHttp that TLC checks. *)
EXTENDS AndroidHttp

CONSTANTS g1, g2, g3, g4
=============================================================================
