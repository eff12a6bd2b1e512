---------------------------- MODULE MCSmokePolicy ----------------------------
(* SmokePolicy on a small instance.  The router may cost less than it        *)
(* reserves; if it costs all of it, the generation no longer fits; embedding *)
(* and generation may overrun.  One bypassed request may be identified, and  *)
(* one reported without.                                                     *)
EXTENDS SmokePolicy

MCAmount == [s \in ModelStages |-> IF s = "router" THEN 2 ELSE 1]
MCCaps == [haiku |-> 3, titan |-> 1, total |-> 3]
=============================================================================
