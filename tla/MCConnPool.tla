----------------------------- MODULE MCConnPool -----------------------------
(* ConnPool with six connection records.                                   *)
EXTENDS ConnPool

CONSTANTS r1, r2, r3, r4, r5, r6

MCRecords == {r1, r2, r3, r4, r5, r6}
=============================================================================
