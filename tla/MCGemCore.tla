----------------------------- MODULE MCGemCore -----------------------------
(* A small instance of GemCore for TLC.                                     *)
EXTENDS GemCore, TLC

\* Relocations as libdrm emits them: every listed object is read by the GPU
\* in some domain, and written in at most one of those.
Render == [r |-> {"RENDER"}, w |-> "RENDER"]
Sample == [r |-> {"SAMPLER"}, w |-> NoDomain]
RenderSample == {Render, Sample}
RenderOnly == {Render}
ReadRender == [r |-> {"RENDER"}, w |-> NoDomain]
RenderRead == {Render, ReadRender}

Symmetry == Permutations(Obj) \cup Permutations(Client)

\* Words of 16 values instead of 2^32: they follow each other as the seqnos do,
\* are compared like them over half a round, and none is the word of another.
Width == 16
ASSUME WordsFollow ==
    \A n \in 1..40 :
        NextWord(SeqnoWord(n, Width), Width) = SeqnoWord(n + 1, Width)
ASSUME WordsCompare ==
    \A a, b \in 1..40 : a - b < 7 /\ b - a < 7 =>
        (WordPassed(SeqnoWord(a, Width), SeqnoWord(b, Width), Width)
           <=> a >= b)
ASSUME WordsDiffer ==
    \A a, b \in 1..40 : a - b \in 1..14 =>
        SeqnoWord(a, Width) \notin {0, SeqnoWord(b, Width)}
=============================================================================
