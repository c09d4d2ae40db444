---------------------------- MODULE MCCaptureFarm ----------------------------
(* Two workers with one flow each.  The oversampling factor is 1, so that  *)
(* packets of a few octets are dropped by the filter, stored and promising *)
(* (2), or heavy at once (6).                                              *)
EXTENDS FarmRefinement

CONSTANTS f1, f2

MCFlow == {f1, f2}
MCDispatch == [f \in MCFlow |-> IF f = f1 THEN 1 ELSE 2]
MCHash == << [f \in MCFlow |-> 1] >>
OneAndThree == << 1, 3 >>
OneEach == << 1, 1 >>
=============================================================================
