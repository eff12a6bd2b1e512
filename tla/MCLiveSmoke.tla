---------------------------- MODULE MCLiveSmoke ----------------------------
(* LiveSmoke over two cases, four calls, with caps that fit the plan exactly *)
(* and a Bedrock call that may cost one unit more than its reservation.      *)
EXTENDS LiveSmoke, TLC

MCReservation == [typesafe |-> 1, bedrock |-> 2]
MCMaxBill == [typesafe |-> 1, bedrock |-> 3]
MCCaps == [typesafe |-> 2, bedrock |-> 4, total |-> 6]
Interchangeable == Permutations(Runs)
=============================================================================
