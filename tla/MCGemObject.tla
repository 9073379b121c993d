---------------------------- MODULE MCGemObject ----------------------------
(* A small instance of GemObject for TLC.                                   *)
EXTENDS GemObject, TLC

Symmetry == Permutations(Obj) \cup Permutations(Client) \cup
            Permutations(File) \cup Permutations(Handle)
=============================================================================
