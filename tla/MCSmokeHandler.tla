--------------------------- MODULE MCSmokeHandler ---------------------------
(* SmokeHandler on the instance of MCSmokePolicy: one handler invoked twice  *)
(* over one /tmp.  A bypassed request may be seen, but not identified.  The  *)
(* evidence limit is one that blocked sends may pass.                        *)
EXTENDS SmokeHandler

MCAmount == [s \in ModelStages |-> IF s = "router" THEN 2 ELSE 1]
MCCaps == [haiku |-> 3, titan |-> 1, total |-> 3]
=============================================================================
