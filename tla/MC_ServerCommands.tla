------------------------- MODULE MC_ServerCommands -------------------------
(* Rings of two slots: two commands fill them, three overflow.              *)
EXTENDS ServerCommands
=============================================================================
