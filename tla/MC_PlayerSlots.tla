--------------------------- MODULE MC_PlayerSlots ---------------------------
(* Two addresses and any number of bots on a server of two or three slots. *)
EXTENDS PlayerSlots, TLC

CONSTANTS a, b

TwoAddresses == {a, b}
TwoOrThree == {2, 3}
AddressSymmetry == Permutations(TwoAddresses)
=============================================================================
