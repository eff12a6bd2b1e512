-------------------------- MODULE MCVisaMigration --------------------------
(* Two operators, one verify, one rollback, one rebuild and two seconds.     *)
EXTENDS VisaMigration, TLC

Interchangeable == Permutations(Operators)
=============================================================================
