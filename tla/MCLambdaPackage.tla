-------------------------- MODULE MCLambdaPackage --------------------------
(* LambdaPackage with two runs, two sources and the requirements, one wheel, *)
(* two edits of the tree, and a wheel that is replaced and put back.  The    *)
(* runs are interchangeable.                                                 *)
EXTENDS LambdaPackage, TLC

Symmetric == Permutations(Runs)
=============================================================================
