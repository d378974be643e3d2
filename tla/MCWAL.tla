------------------------------- MODULE MCWAL -------------------------------
(* WAL with two keys.                                                      *)
EXTENDS WAL, TLC

CONSTANTS k1, k2

TwoKeys == {k1, k2}
KeySymmetry == Permutations(TwoKeys)

TornLines == {"inside"}
AllTears == {"inside", "before newline"}
=============================================================================
