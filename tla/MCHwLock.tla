------------------------------ MODULE MCHwLock ------------------------------
(* A small instance of HwLock for TLC.                                      *)
EXTENDS HwLock, TLC

Symmetry == Permutations(Proc)
=============================================================================
