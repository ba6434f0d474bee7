--------------------------- MODULE MCScriptTimers ---------------------------
(* An instance of ScriptTimers for TLC. *)
EXTENDS ScriptTimers
\* Two timers' periods of which one is a single millisecond, and one timeout.
TwoPeriods == {1, 2}
=============================================================================
