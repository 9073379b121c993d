------------------------------ MODULE MCVblank ------------------------------
(* A small instance of Vblank for TLC.                                      *)
EXTENDS Vblank, TLC

\* Tell of the next frame; wait for a number, or for the next frame if it has
\* passed.
Requests ==
    {[crtc |-> 0, seq |-> 1, relative |-> TRUE, nextOnMiss |-> FALSE,
      event |-> TRUE],
     [crtc |-> 0, seq |-> 0, relative |-> FALSE, nextOnMiss |-> TRUE,
      event |-> FALSE]}

Symmetry == Permutations(File) \cup Permutations(Event)

\* A frame counter of 8 values: of the frames missed since frame l, those up to
\* frame f, the count misses the one that wraps it.
VbMax == 7
Register(n) == n % (VbMax + 1)
ASSUME MissedButOne ==
    \A l \in 0..24 : \A f \in l..(l + VbMax) :
        Missed(Register(f), Register(l), VbMax) =
            IF Register(f) < Register(l) THEN f - l - 1 ELSE f - l
=============================================================================
