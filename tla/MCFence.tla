------------------------------ MODULE MCFence ------------------------------
(* A small instance of Fence for TLC.                                      *)
EXTENDS Fence, TLC

Symmetry == Permutations(Obj) \cup Permutations(Client)
=============================================================================
