----------------------------- MODULE MCStartup -----------------------------
(***************************************************************************)
(* A machine of five-bit words: int reaches 15 and hash tables of up to 8  *)
(* buckets are free of overflow.  Flow ids have two bytes of one bit, the  *)
(* second a port.  Each command line departs in one group of options from  *)
(* a base that works: 5.5 interesting flows make tables of 7 buckets.      *)
(***************************************************************************)
EXTENDS PacketPath

R(n, d) == [num |-> n, den |-> d]

Base ==
  [help |-> FALSE, i |-> "live", b |-> "none", w |-> 4, s |-> R(1, 5), l |-> 100,
   y |-> R(2, 11), q |-> 1, z |-> 1, balanced |-> FALSE]

Devices ==
  {[Base EXCEPT !.i = i, !.b = b] :
     i \in {"none", "live", "file", "absent"}, b \in {"none", "valid", "broken"}}

(* One, two and three workers that share a table of 13 buckets or not (the *)
(* part of three is 7, for which nextPrime returns anything), two workers  *)
(* whose shares of 19 are smaller than the flows, and tables of 29.        *)
Sizes ==
  {[Base EXCEPT !.y = R(2, 17), !.s = R(1, 2), !.w = w, !.balanced = balanced] :
     w \in {0, 2, 3, 4, 5}, balanced \in BOOLEAN}
    \cup {[Base EXCEPT !.y = R(2, 31), !.balanced = TRUE],
          [Base EXCEPT !.y = R(2, 33), !.s = R(1, 2)]}

(* A share of 0, and 6 flows that may come out as 5.                       *)
UndefinedSizes == {[Base EXCEPT !.y = y] : y \in {R(0, 1), R(1, 5)}}

Stages == {[Base EXCEPT !.z = z] : z \in {0, 1, 4, 5}}

Thresholds == {[Base EXCEPT !.l = l, !.q = q] : l \in {0, 7, 11, 100}, q \in {1, 2, 3}}

MCCommandLines ==
  {[Base EXCEPT !.help = TRUE]}
    \cup Devices \cup Sizes \cup UndefinedSizes \cup Stages \cup Thresholds

MCPortBytes == {2}
MCSeed == [k \in Key |-> k[1] + 2 * k[2]]
=============================================================================
