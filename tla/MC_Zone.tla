------------------------------ MODULE MC_Zone ------------------------------
(* A zone of twelve words, requests of one to four, two tags. *)
EXTENDS Zone

OneToFour == {1, 2, 4}
GeneralAndRenderer == {1, 2}
=============================================================================
