---------------------------- MODULE MCThreadLife ----------------------------
(* The instance of ThreadLife for TLC: a thread that is started a few times. *)
EXTENDS ThreadLife
=============================================================================
