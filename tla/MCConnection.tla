---------------------------- MODULE MCConnection ----------------------------
(***************************************************************************)
(* Connection with small buffers.                                          *)
(***************************************************************************)
EXTENDS Connection
=============================================================================
