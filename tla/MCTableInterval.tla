--------------------------- MODULE MCTableInterval ---------------------------
(* Two flows and a counter of octets that wraps at 8.                      *)
EXTENDS TableInterval
=============================================================================
