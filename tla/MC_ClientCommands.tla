------------------------- MODULE MC_ClientCommands -------------------------
(* Rings of two slots: two commands fill them, the disconnect is a third.   *)
EXTENDS ClientCommands
=============================================================================
