----------------------------- MODULE MCPktFilter -----------------------------
(* The front end for TLC: the calm traffic of the testbenches. *)
EXTENDS PktFilter
=============================================================================
