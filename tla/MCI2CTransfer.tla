--------------------------- MODULE MCI2CTransfer ---------------------------
(* I2CTransfer with two processes and transfers of up to two bytes: the     *)
(* shortest that can be left half done, and a shorter one to follow it.     *)
EXTENDS I2CTransfer
=============================================================================
