------------------------- MODULE MCObservationCapture -------------------------
(* Two captures of one output, a plan of three observations.                 *)
EXTENDS ObservationCapture, TLC

Interchangeable == Permutations(Captures)
=============================================================================
