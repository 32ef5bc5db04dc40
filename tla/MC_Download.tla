---------------------------- MODULE MC_Download ----------------------------
(* One file, larger than the window, whose block numbers wrap; and a list of *)
(* files that begins with it, of which the last two fit into the window      *)
(* with their ends.                                                          *)
EXTENDS Download

OneFile == <<6>>
FourFiles == <<6, 2, 1, 1>>
=============================================================================
