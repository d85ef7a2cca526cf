------------------------------ MODULE MCPoster -------------------------------
(* Two coins of the give token, alike.                                     *)
EXTENDS Poster, TLC

CONSTANTS c1, c2
=============================================================================
