------------------------------- MODULE MCList -------------------------------
(* List with five blocks to put elements in, which are all alike, and three *)
(* values.                                                                  *)
EXTENDS List, TLC

CONSTANTS b1, b2, b3, b4, b5

MCAddresses == {b1, b2, b3, b4, b5}
MCValues == {1, 2, 3}
MCSymmetry == Permutations(MCAddresses)
=============================================================================
