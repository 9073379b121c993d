------------------------------- MODULE Mutex -------------------------------
(***************************************************************************)
(* What the DRM hardware lock promises its users: of all the processes     *)
(* that share the device, at most one is between a lock and the unlock     *)
(* that answers it, and one that dies there leaves.                        *)
(***************************************************************************)
CONSTANT Proc
VARIABLE inside     \* processes that own the lock

Init == inside = {}

Enter(p) == inside = {} /\ inside' = {p}
Leave(p) == inside = {p} /\ inside' = {}

Next == \E p \in Proc : Enter(p) \/ Leave(p)

Spec == Init /\ [][Next]_inside
=============================================================================
