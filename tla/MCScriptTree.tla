---------------------------- MODULE MCScriptTree ----------------------------
(* An instance of ScriptTree for TLC. *)
EXTENDS ScriptTree, TLC
CONSTANTS r, a, g
\* A script, its child and its child's child.
Line == r :> None @@ a :> r @@ g :> a
\* Up to the parent and to the root, to itself, down to a child and further.
UpAndDown ==
    {g} \X {r} \X {r} \X Kinds \cup {r} \X {r} \X {g} \X {"pb_set", "msg"}
    \cup {a} \X {r} \X {r} \X {"pb_set", "msg"} \cup {a} \X {a} \X {a, g} \X {"pb_set"}
=============================================================================
