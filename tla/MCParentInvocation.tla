------------------------- MODULE MCParentInvocation -------------------------
(* Two operator processes race for one execution_id, in the launched mode.   *)
EXTENDS ParentInvocation, TLC

Interchangeable == Permutations(Operators)
=============================================================================
