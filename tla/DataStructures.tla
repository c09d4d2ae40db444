--------------------------- MODULE DataStructures ---------------------------
(* Identifiers of flows (FlowID_t), compared as wholes everywhere. *)
CONSTANT Flow
=============================================================================
