----------------------------- MODULE MCAperture -----------------------------
(* Small instances of Aperture for TLC.                                     *)
EXTENDS Aperture, TLC

CONSTANTS x, y, z

\* An aperture of three pages has no room for the largest object when the
\* first of the others lies in the middle, as it may when it was bound for a batch of its own.
MCSize == (x :> 1) @@ (y :> 2) @@ (z :> 1)
MCBatches == {<<x>>, <<x, y>>}
=============================================================================
