------------------------------- MODULE HwLock -------------------------------
(***************************************************************************)
(* The DRM hardware lock (drm_lock.c, drm_context.c, drm_drv.c): one word  *)
(* shared between the kernel and every process that maps the SAREA.        *)
(*                                                                         *)
(* A process takes and releases it with a compare-and-set of its own       *)
(* context when nobody else wants it (xf86drm.h, DRM_LIGHT_LOCK and        *)
(* DRM_UNLOCK) and enters the kernel otherwise.  The kernel remembers the  *)
(* file that took the lock through it (dev->lock.file_priv): this is how   *)
(* drmclose knows that a dead process held it, and how LOCK_TEST knows     *)
(* that a caller does.  A process is identified with its struct drm_file.  *)
(***************************************************************************)
EXTENDS Integers

CONSTANTS
    Proc,           \* processes that open the device
    NoProc,
    MaxContext,     \* context numbers (DRM_MAX_CTXBITMAP)
    RecycleLast     \* a context may be removed while the lock word names it

Context == 1..MaxContext
KernelContext == 0

ASSUME HwLockAssumption ==
    /\ NoProc \notin Proc
    /\ MaxContext \in Nat
    /\ RecycleLast \in BOOLEAN

VARIABLES
    word,       \* hw_lock->lock: the HELD and CONT bits and the context
    filePriv,   \* dev->lock.file_priv
    ctxBitmap,  \* dev->ctx_bitmap, context 0 left out
    ctx,        \* the context of each process, 0 when it has none
    pc          \* where each process is

vars == <<word, filePriv, ctxBitmap, ctx, pc>>

Free0 == [held |-> FALSE, cont |-> FALSE, ctx |-> KernelContext]

Init ==
    /\ word = Free0 /\ filePriv = NoProc
    /\ ctxBitmap = {} /\ ctx = [p \in Proc |-> KernelContext]
    /\ pc = [p \in Proc |-> "new"]

Goto(p, l) == pc' = [pc EXCEPT ![p] = l]

\* drm_ctxbitmap_next: the first zero bit, if there is one.
FirstZero(c) ==
    c \notin ctxBitmap /\ \A d \in Context : d < c => d \in ctxBitmap
NextContext == {c \in Context : FirstZero(c)}

\* drm_addctx, after drmopen.
Open(p) ==
    /\ pc[p] = "new"
    /\ \E c \in NextContext : /\ ctxBitmap' = ctxBitmap \cup {c}
                              /\ ctx' = [ctx EXCEPT ![p] = c]
    /\ Goto(p, "out")
    /\ UNCHANGED <<word, filePriv>>

\* DRM_LIGHT_LOCK: from the bare context to HELD | context, or drmGetLock.
\* (The mutant ignores who had the lock last.)
LastAny(p) == ~word.held /\ ~word.cont
Last(p) == word = [held |-> FALSE, cont |-> FALSE, ctx |-> ctx[p]]
LightLock(p) ==
    /\ pc[p] = "out"
    /\ IF Last(p)
       THEN /\ word' = [held |-> TRUE, cont |-> FALSE, ctx |-> ctx[p]]
            /\ Goto(p, "in")
       ELSE Goto(p, "want") /\ UNCHANGED word
    /\ UNCHANGED <<filePriv, ctxBitmap, ctx>>

\* drm_lock_take under the spin lock: take a free lock and remember the file;
\* mark a held one contended and sleep.
Contend == [word EXCEPT !.cont = TRUE]
Owner(p) == p
Take(p) ==
    /\ pc[p] = "want"
    /\ IF word.held
       THEN /\ word' = Contend
            /\ Goto(p, "asleep")
            /\ UNCHANGED filePriv
       ELSE /\ word' = [held |-> TRUE, cont |-> FALSE, ctx |-> ctx[p]]
            /\ filePriv' = Owner(p)
            /\ Goto(p, "in")
    /\ UNCHANGED <<ctxBitmap, ctx>>

\* A signal ends the sleep; drmGetLock calls again.
Interrupt(p) ==
    /\ pc[p] = "asleep"
    /\ Goto(p, "want")
    /\ UNCHANGED <<word, filePriv, ctxBitmap, ctx>>

\* DRM_UNLOCK: from HELD | context to the bare context, or drmUnlock.
\* (The mutant does not see the CONT bit.)
UncontendedAny(p) == word.held
Uncontended(p) == word = [held |-> TRUE, cont |-> FALSE, ctx |-> ctx[p]]
LightUnlock(p) ==
    /\ pc[p] = "in"
    /\ IF Uncontended(p)
       THEN /\ word' = [held |-> FALSE, cont |-> FALSE, ctx |-> ctx[p]]
            /\ Goto(p, "out")
       ELSE Goto(p, "unlock") /\ UNCHANGED word
    /\ UNCHANGED <<filePriv, ctxBitmap, ctx>>

\* drm_unlock refuses a caller that is not the holder.
UnlockCheck(p) ==
    /\ pc[p] = "unlock"
    /\ Goto(p, IF word.held /\ word.ctx = ctx[p] THEN "free" ELSE "out")
    /\ UNCHANGED <<word, filePriv, ctxBitmap, ctx>>

\* drm_lock_free: forget the file and clear the word.  Sleepers are woken
\* only if the lock was the caller's (drmclose passes the word's context).
LockFree(p) ==
    /\ pc[p] \in {"free", "close_free"}
    /\ filePriv' = NoProc
    /\ word' = Free0
    /\ Goto(p, IF pc[p] = "close_free" THEN "close_wake"
               ELSE IF word.held /\ word.ctx # ctx[p] THEN "out" ELSE "wake")
    /\ UNCHANGED <<ctxBitmap, ctx>>

\* cv_broadcast.
Broadcast(p) ==
    /\ pc[p] \in {"wake", "close_wake"}
    /\ pc' = [q \in Proc |->
                IF q = p THEN (IF pc[p] = "wake" THEN "out" ELSE "gone")
                ELSE IF pc[q] = "asleep" THEN "want" ELSE pc[q]]
    /\ UNCHANGED <<word, filePriv, ctxBitmap, ctx>>

\* A process may die anywhere outside the kernel, and in its sleep.
Die(p) ==
    /\ pc[p] \in {"out", "want", "asleep", "in", "unlock"}
    /\ Goto(p, "close")
    /\ UNCHANGED <<word, filePriv, ctxBitmap, ctx>>

\* drmclose frees the lock if it is held through the file being closed.
\* (The mutant does not look at the lock.)
HeldByNone(p) == FALSE
HeldBy(p) == word.held /\ filePriv = p
Close(p) ==
    /\ pc[p] = "close"
    /\ Goto(p, IF HeldBy(p) THEN "close_free" ELSE "gone")
    /\ UNCHANGED <<word, filePriv, ctxBitmap, ctx>>

\* drm_rmctx on behalf of a dead process (the X server does this).  The code
\* does not care whether the lock word still names the context.
RmCtx(p) ==
    /\ pc[p] = "gone" /\ ctx[p] # KernelContext
    /\ RecycleLast \/ word.ctx # ctx[p]
    /\ ctxBitmap' = ctxBitmap \ {ctx[p]}
    /\ ctx' = [ctx EXCEPT ![p] = KernelContext]
    /\ UNCHANGED <<word, filePriv, pc>>

Lock(p) == LightLock(p) \/ Take(p)
Unlock(p) == LightUnlock(p) \/ UnlockCheck(p) \/ LockFree(p) \/ Broadcast(p)

Next ==
    \E p \in Proc : \/ Open(p) \/ Lock(p) \/ Unlock(p)
                    \/ Interrupt(p) \/ Die(p) \/ Close(p) \/ RmCtx(p)

Spec == Init /\ [][Next]_vars

\* Fairness: a holder releases the lock in the end or dies, a dying process
\* is closed, and the kernel finishes the ioctls it has begun.
Fairness ==
    \A p \in Proc : WF_vars(Unlock(p)) /\ WF_vars(Take(p)) /\ WF_vars(Close(p))
FairSpec == Spec /\ Fairness

-----------------------------------------------------------------------------
Pcs == {"new", "out", "want", "asleep", "in", "unlock", "free", "wake",
        "close", "close_free", "close_wake", "gone"}
Words == [held : BOOLEAN, cont : BOOLEAN, ctx : Context \cup {KernelContext}]

\* The type invariant: the word is a context with two flags, and contexts in
\* use are the ones that were handed out.
TypeOK ==
    /\ word \in Words
    /\ filePriv \in Proc \cup {NoProc}
    /\ ctxBitmap \subseteq Context
    /\ ctx \in [Proc -> ctxBitmap \cup {KernelContext}]
    /\ pc \in [Proc -> Pcs]

\* A process believes it owns the lock from the return of its lock to its
\* unlock's clearing of the word.
Inside(p) == pc[p] \in {"in", "unlock", "free"}

\* Whoever believes it owns the lock is named in the lock word, so no two do:
\* light locks, kernel locks and drmclose never give the lock away twice.
HolderInWord ==
    \A p \in Proc : Inside(p) => word.held /\ word.ctx = ctx[p]
MutualExclusion ==
    \A p, q \in Proc : Inside(p) /\ Inside(q) => p = q

\* The kernel knows the file of the holder even when the lock was taken in
\* user land: LOCK_TEST_WITH_RETURN lets the holder in, and drmclose finds
\* the lock of a dead process ("Process %d dead, freeing lock").
HolderKnown ==
    \A p \in Proc : Inside(p) => filePriv = p

\* A held lock has somebody to release it.
HolderAlive ==
    word.held =>
        \E p \in Proc : /\ ctx[p] = word.ctx
                        /\ Inside(p) \/ pc[p] \in {"close", "close_free"}

\* A sleeper is never forgotten: the lock it waits for is held and marked
\* contended, so that its holder must come through the kernel, or a broadcast
\* is on its way.
NoLostWakeup ==
    (\E p \in Proc : pc[p] = "asleep") =>
        \/ word.held /\ word.cont
        \/ \E q \in Proc : pc[q] \in {"wake", "close_wake"}

\* No process sleeps for ever in drm_lock, whoever holds the lock or dies
\* with it.
SleeperWakes ==
    \A p \in Proc : pc[p] = "asleep" ~> pc[p] # "asleep"

\* The lock is a mutual exclusion lock: seen through the processes that
\* believe they own it, every step of user land and kernel is an Enter or a
\* Leave of Mutex, or changes nothing.
Abstract == INSTANCE Mutex WITH inside <- {p \in Proc : Inside(p)}
ImplementsMutex == Abstract!Spec

=============================================================================
