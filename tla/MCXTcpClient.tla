---------------------------- MODULE MCXTcpClient ----------------------------
(* XTcpClient with three descriptors beside standard input and three calls *)
(* of Connect.                                                             *)
EXTENDS XTcpClient
=============================================================================
