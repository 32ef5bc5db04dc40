---------------------------- MODULE MC_VoipQueue ----------------------------
(* A ring of three packets, of which five are queued. *)
EXTENDS VoipQueue
=============================================================================
