----------------------------- MODULE MCFifoSync -----------------------------
(* Instances of FifoSync for TLC: rings of 6 or 14 bytes with 2 or 4 slots.  *)
EXTENDS FifoSync

SmallStarts == {<<4, 2>>, <<4, 4>>, <<12, 4>>}
=============================================================================
