---------------------------- MODULE MCThresholds ----------------------------
(* A table of three entries, and analyses that find it empty, nearly full  *)
(* (the average stays at the target), full, and twice overfull.            *)
EXTENDS Thresholds
=============================================================================
