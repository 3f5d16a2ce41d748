---------------------------- MODULE MCWinService ----------------------------
(* WinService with every control accepted.  CSampleService accepts stop    *)
(* and shutdown; a service that may also be paused can be stopped from two *)
(* states.                                                                 *)
EXTENDS WinService

MCAccepts == {"stop", "shutdown", "pause_continue"}
=============================================================================
