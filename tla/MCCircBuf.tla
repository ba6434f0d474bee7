------------------------------ MODULE MCCircBuf ------------------------------
(* Instances of CircBuf for TLC: a block overhead and a header of one byte   *)
(* give rings of 2, 6, 14 ... bytes, which a handful of writes fill and wrap. *)
EXTENDS CircBuf
=============================================================================
