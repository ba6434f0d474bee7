----------------------------- MODULE MCBinShare -----------------------------
(* An instance of BinShare for TLC. *)
EXTENDS BinShare
CONSTANTS s, t, x, y, b, c
=============================================================================
