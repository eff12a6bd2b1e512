--------------------------- MODULE MCRequestPath ---------------------------
(* RequestPath with two requests in the process, two cases in a batch, and   *)
(* one rebuild: two versions of the pair.                                    *)
EXTENDS RequestPath
=============================================================================
