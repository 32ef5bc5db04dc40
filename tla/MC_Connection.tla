--------------------------- MODULE MC_Connection ---------------------------
(* Two challenges, of which one address alone may use one. *)
EXTENDS Connection

SomeNumbers == 1 .. 3
=============================================================================
