-------------------------- MODULE MCFilterInterval --------------------------
(* Four flows and three stages.  f1 and f2 share a bucket of stage 1, f2   *)
(* and f3 one of stage 2, f1 and f3 one of stage 3; f4 is alone.           *)
EXTENDS FilterInterval

CONSTANTS f1, f2, f3, f4

MCFlow == {f1, f2, f3, f4}
MCHash ==
  << [f \in MCFlow |-> IF f = f4 THEN 3 ELSE IF f = f3 THEN 2 ELSE 1],
     [f \in MCFlow |-> IF f = f4 THEN 3 ELSE IF f = f1 THEN 2 ELSE 1],
     [f \in MCFlow |-> IF f = f4 THEN 3 ELSE IF f = f2 THEN 2 ELSE 1] >>
=============================================================================
