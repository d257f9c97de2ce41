------------------------------- MODULE MCPick -------------------------------
(* A small instance of Pick for TLC: all sequences of up to three rows about *)
(* two subjects, two ZIPs and two structures.                                *)
EXTENDS Pick
=============================================================================
