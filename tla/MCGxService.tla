---------------------------- MODULE MCGxService ----------------------------
(* GxService with two client records and one upstream.                     *)
EXTENDS GxService

CONSTANTS c1, c2

MCConns == {c1, c2}
=============================================================================
