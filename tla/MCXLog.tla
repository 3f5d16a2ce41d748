------------------------------- MODULE MCXLog -------------------------------
(* XLog with lines enough for three of them in one list and a list of the  *)
(* next round beside it.                                                   *)
EXTENDS XLog
=============================================================================
