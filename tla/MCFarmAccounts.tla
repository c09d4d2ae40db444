--------------------------- MODULE MCFarmAccounts ---------------------------
(* Two workers, one with one flow and one with two, each flow in a bucket  *)
(* of its own.  Packets are as in MCCaptureFarm: dropped, promising (2) or *)
(* heavy (6).                                                              *)
EXTENDS FarmAccounts, TLC

CONSTANTS f1, f2, f3, b1, b2, b3

MCFlow == {f1, f2, f3}
MCBucket == {b1, b2, b3}
MCDispatch == [f \in MCFlow |-> IF f = f1 THEN 1 ELSE 2]
MCHash == << (f1 :> b1 @@ f2 :> b2 @@ f3 :> b3) >>
OneAndThree == << 1, 3 >>

(* The two flows of the second worker are alike, each with its bucket. *)
Alike ==
  {p \in Permutations({f2, f3, b2, b3}) :
     <<p[f2], p[b2], p[f3], p[b3]>> \in {<<f2, b2, f3, b3>>, <<f3, b3, f2, b2>>}}
=============================================================================
