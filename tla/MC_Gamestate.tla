---------------------------- MODULE MC_Gamestate ----------------------------
(* A client that lacks a file from the first map on, and one that has all files *)
(* for the first map and lacks one from the second on.                          *)
EXTENDS Gamestate

FromTheFirst == {1}
FromTheSecond == {2}
=============================================================================
