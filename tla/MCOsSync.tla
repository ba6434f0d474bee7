------------------------------ MODULE MCOsSync ------------------------------
(* An instance of OsSync for TLC. *)
EXTENDS OsSync
CONSTANTS s, t, u
=============================================================================
