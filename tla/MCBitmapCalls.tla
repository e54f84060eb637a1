---------------------------- MODULE MCBitmapCalls ----------------------------
(* BitmapCalls for TLC: two words of three frames, all usable; what is     *)
(* handed over at the start makes the holes, and a request may be longer   *)
(* than a word.                                                            *)
EXTENDS BitmapCalls

CONSTANTS h1, h2
MCHandles == {h1, h2}
MCPools == {1 .. 6}
=============================================================================
