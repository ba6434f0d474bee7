----------------------------- MODULE MCMsgQueue -----------------------------
(* Instances of MsgQueue for TLC: who may make how many calls. *)
EXTENDS MsgQueue, TLC

CONSTANTS a, b

\* a calls twice, b once: a queue of two with a reply in front, and a cycle.
TwoAndOne == a :> 2 @@ b :> 1
\* Each calls once: the cycle alone.
OneEach == a :> 1 @@ b :> 1
=============================================================================
