------------------------------ MODULE MCServer ------------------------------
(* Server with at most three forks for clients, two of them at once: enough *)
(* for two acceptors that look at the count together and for a grandchild   *)
(* of the server.                                                           *)
EXTENDS Server
=============================================================================
