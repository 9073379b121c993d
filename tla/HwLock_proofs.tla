--------------------------- MODULE HwLock_proofs ---------------------------
(***************************************************************************)
(* The hardware lock is a mutual exclusion lock for any number of          *)
(* processes and contexts, no sleeper is forgotten, and, as long as no     *)
(* context is recycled while the lock word names it, the kernel always     *)
(* knows who has the lock.                                                 *)
(***************************************************************************)
EXTENDS HwLock, TLAPS

\* Processes in the device have a context, and no two have the same.
CtxInv ==
    /\ \A p \in Proc : pc[p] \notin {"new", "gone"} => ctx[p] # KernelContext
    /\ \A p, q \in Proc : ctx[p] = ctx[q] /\ ctx[p] # KernelContext => p = q

\* The file the kernel remembers is that of the last holder, until it closes.
FileInv ==
    \A p \in Proc : filePriv = p /\ pc[p] # "gone" =>
                        pc[p] # "new" /\ word.ctx = ctx[p]

\* drmclose frees only the lock of the process that closes.
CloseInv ==
    \A p \in Proc : pc[p] = "close_free" => word.held /\ word.ctx = ctx[p]

LockInv == TypeOK /\ CtxInv /\ FileInv /\ CloseInv /\ HolderInWord

\* When no context is recycled too early, the word always names a context of
\* the file the kernel remembers.
LastKnown ==
    word.ctx # KernelContext => filePriv \in Proc /\ ctx[filePriv] = word.ctx

-----------------------------------------------------------------------------
\* The invariant LockInv: contexts, lock word and remembered file agree.
LEMMA LockInvInit == Init => LockInv
<1>1. SUFFICES ASSUME Init PROVE LockInv
  OBVIOUS
<1>. USE DEF Init
<1>2. TypeOK
  BY <1>1 DEF TypeOK, Free0, Words, Pcs
<1>3. CtxInv /\ CloseInv /\ HolderInWord
  BY <1>1 DEF CtxInv, CloseInv, HolderInWord, Inside
<1>4. FileInv
  BY <1>1, HwLockAssumption DEF FileInv
<1>. QED
  BY <1>2, <1>3, <1>4 DEF LockInv

\* A word built from a context of a process is a word.
LEMMA WordType ==
    ASSUME TypeOK, NEW p \in Proc, NEW h \in BOOLEAN, NEW k \in BOOLEAN
    PROVE  [held |-> h, cont |-> k, ctx |-> ctx[p]] \in Words
<1>1. ctx[p] \in Context \cup {KernelContext}
  BY DEF TypeOK
<1>. QED
  BY <1>1 DEF Words

\* Every step keeps the type invariant.
LEMMA TypeStep == TypeOK /\ CtxInv /\ [Next]_vars => TypeOK'
<1>1. SUFFICES ASSUME TypeOK, CtxInv, [Next]_vars PROVE TypeOK'
  OBVIOUS
<1>. USE DEF TypeOK
<1>2. ASSUME NEW p \in Proc, Open(p) PROVE TypeOK'
  BY <1>1, <1>2 DEF Open, NextContext, Context, KernelContext, Goto, Pcs
<1>3. ASSUME NEW p \in Proc, LightLock(p) PROVE TypeOK'
  <2>1. word' \in Words
    BY <1>1, <1>3, WordType DEF LightLock
  <2>. QED
    BY <1>1, <1>3, <2>1 DEF LightLock, Goto, Pcs
<1>4. ASSUME NEW p \in Proc, Take(p) PROVE TypeOK'
  <2>1. Contend \in Words
    BY <1>1 DEF Contend, Words
  <2>2. word' \in Words
    BY <1>1, <1>4, <2>1, WordType DEF Take
  <2>. QED
    BY <1>1, <1>4, <2>2 DEF Take, Owner, Goto, Pcs
<1>5. ASSUME NEW p \in Proc, LightUnlock(p) PROVE TypeOK'
  <2>1. word' \in Words
    BY <1>1, <1>5, WordType DEF LightUnlock
  <2>. QED
    BY <1>1, <1>5, <2>1 DEF LightUnlock, Goto, Pcs
<1>6. ASSUME NEW p \in Proc, UnlockCheck(p) PROVE TypeOK'
  BY <1>1, <1>6 DEF UnlockCheck, Goto, Pcs
<1>7. ASSUME NEW p \in Proc, LockFree(p) PROVE TypeOK'
  <2>1. word' \in Words
    BY <1>7 DEF LockFree, Free0, Words
  <2>. QED
    BY <1>1, <1>7, <2>1 DEF LockFree, Goto, Pcs
<1>8. ASSUME NEW p \in Proc, Broadcast(p) PROVE TypeOK'
  BY <1>1, <1>8 DEF Broadcast, Pcs
<1>9. ASSUME NEW p \in Proc, Interrupt(p) PROVE TypeOK'
  BY <1>1, <1>9 DEF Interrupt, Goto, Pcs
<1>10. ASSUME NEW p \in Proc, Die(p) PROVE TypeOK'
  BY <1>1, <1>10 DEF Die, Goto, Pcs
<1>11. ASSUME NEW p \in Proc, Close(p) PROVE TypeOK'
  BY <1>1, <1>11 DEF Close, Goto, Pcs
<1>12. ASSUME NEW p \in Proc, RmCtx(p) PROVE TypeOK'
  <2>1. \A q \in Proc : ctx'[q] \in ctxBitmap' \cup {KernelContext}
    BY <1>1, <1>12 DEF RmCtx, CtxInv
  <2>2. ctx' \in [Proc -> ctxBitmap' \cup {KernelContext}]
    BY <1>1, <1>12, <2>1 DEF RmCtx
  <2>. QED
    BY <1>1, <1>12, <2>2 DEF RmCtx
<1>13. CASE UNCHANGED vars
  BY <1>1, <1>13 DEF vars
<1>. QED
  BY <1>1, <1>2, <1>3, <1>4, <1>5, <1>6, <1>7, <1>8, <1>9, <1>10, <1>11,
     <1>12, <1>13 DEF Next, Lock, Unlock

\* A step of user land or of the kernel keeps contexts distinct, and keeps
\* word and file in agreement.
LEMMA LockInvStep == LockInv /\ [Next]_vars => LockInv'
<1>1. SUFFICES ASSUME LockInv, [Next]_vars PROVE LockInv'
  OBVIOUS
<1>2. TypeOK'
  BY <1>1, TypeStep DEF LockInv
<1>3. ASSUME NEW p \in Proc, NEW q \in Proc, ctx[p] = ctx[q],
             pc[p] \notin {"new", "gone"}
      PROVE  p = q
  BY <1>1, <1>3 DEF LockInv, CtxInv
<1>. DEFINE Agree == CtxInv /\ FileInv /\ CloseInv /\ HolderInWord
<1>. USE DEF LockInv, TypeOK, CtxInv, FileInv, CloseInv, HolderInWord, Inside,
             Goto, KernelContext
<1>4. ASSUME NEW p \in Proc, Open(p) PROVE Agree'
  BY <1>1, <1>4 DEF Open, NextContext, FirstZero, Context
<1>5. ASSUME NEW p \in Proc, LightLock(p) PROVE Agree'
  BY <1>1, <1>3, <1>5 DEF LightLock, Last
<1>6. ASSUME NEW p \in Proc, Take(p) PROVE Agree'
  <2>1. CASE word.held
    <3>1. /\ pc' = [pc EXCEPT ![p] = "asleep"] /\ pc[p] = "want"
          /\ filePriv' = filePriv /\ ctx' = ctx /\ ctxBitmap' = ctxBitmap
          /\ word'.held /\ word'.ctx = word.ctx
      BY <1>1, <1>6, <2>1 DEF Take, Contend, Words
    <3>. QED
      BY <1>1, <3>1
  <2>2. CASE ~word.held
    BY <1>1, <1>3, <1>6, <2>2 DEF Take, Owner
  <2>. QED
    BY <2>1, <2>2
<1>7. ASSUME NEW p \in Proc, LightUnlock(p) PROVE Agree'
  BY <1>1, <1>3, <1>7 DEF LightUnlock, Uncontended
<1>8. ASSUME NEW p \in Proc, UnlockCheck(p) PROVE Agree'
  BY <1>1, <1>8 DEF UnlockCheck
<1>9. ASSUME NEW p \in Proc, LockFree(p) PROVE Agree'
  BY <1>1, <1>3, <1>9, HwLockAssumption DEF LockFree, Free0
<1>10. ASSUME NEW p \in Proc, Broadcast(p) PROVE Agree'
  BY <1>1, <1>10 DEF Broadcast
<1>11. ASSUME NEW p \in Proc, Interrupt(p) PROVE Agree'
  BY <1>1, <1>11 DEF Interrupt
<1>12. ASSUME NEW p \in Proc, Die(p) PROVE Agree'
  BY <1>1, <1>12 DEF Die
<1>13. ASSUME NEW p \in Proc, Close(p) PROVE Agree'
  BY <1>1, <1>13 DEF Close, HeldBy
<1>14. ASSUME NEW p \in Proc, RmCtx(p) PROVE Agree'
  BY <1>1, <1>14 DEF RmCtx
<1>15. CASE UNCHANGED vars
  BY <1>1, <1>15 DEF vars
<1>. QED
  BY <1>1, <1>2, <1>4, <1>5, <1>6, <1>7, <1>8, <1>9, <1>10, <1>11, <1>12,
     <1>13, <1>14, <1>15 DEF Next, Lock, Unlock

-----------------------------------------------------------------------------
\* LockInv holds in every reachable state.
THEOREM LockInvariant == Spec => []LockInv
<1>. QED
  BY LockInvInit, LockInvStep, PTL DEF Spec

\* The type invariant holds: the word only ever names contexts.
THEOREM TypeCorrect == Spec => []TypeOK
<1>1. LockInv => TypeOK
  BY DEF LockInv
<1>. QED
  BY <1>1, LockInvariant, PTL

\* The word names whoever believes it has the lock, and contexts are distinct.
LEMMA InvExclusion == LockInv => MutualExclusion
<1>. QED
  BY DEF LockInv, HolderInWord, CtxInv, MutualExclusion, Inside

\* No two processes own the lock at once, whoever takes it in user land or
\* in the kernel and whoever dies with it.
THEOREM Exclusion == Spec => []MutualExclusion
<1>. QED
  BY InvExclusion, LockInvariant, PTL

-----------------------------------------------------------------------------
\* A sleeper leaves the lock held and contended, and neither a light lock nor
\* a light unlock touches a contended word.
LEMMA WakeupStep ==
    LockInv /\ NoLostWakeup /\ [Next]_vars => NoLostWakeup'
<1>1. SUFFICES ASSUME LockInv, NoLostWakeup, [Next]_vars PROVE NoLostWakeup'
  OBVIOUS
<1>. USE DEF NoLostWakeup, LockInv, TypeOK, Goto
<1>2. ASSUME NEW p \in Proc, Open(p) PROVE NoLostWakeup'
  BY <1>1, <1>2 DEF Open
<1>3. ASSUME NEW p \in Proc, LightLock(p) PROVE NoLostWakeup'
  BY <1>1, <1>3 DEF LightLock, Last
<1>4. ASSUME NEW p \in Proc, Take(p) PROVE NoLostWakeup'
  <2>1. CASE word.held
    BY <1>1, <1>4, <2>1 DEF Take, Contend, Words
  <2>2. CASE ~word.held
    BY <1>1, <1>4, <2>2 DEF Take
  <2>. QED
    BY <2>1, <2>2
<1>5. ASSUME NEW p \in Proc, LightUnlock(p) PROVE NoLostWakeup'
  BY <1>1, <1>5 DEF LightUnlock, Uncontended
<1>6. ASSUME NEW p \in Proc, UnlockCheck(p) PROVE NoLostWakeup'
  BY <1>1, <1>6 DEF UnlockCheck
<1>7. ASSUME NEW p \in Proc, LockFree(p) PROVE NoLostWakeup'
  BY <1>1, <1>7 DEF LockFree, CloseInv, HolderInWord, Inside
<1>8. ASSUME NEW p \in Proc, Broadcast(p) PROVE NoLostWakeup'
  BY <1>1, <1>8 DEF Broadcast
<1>9. ASSUME NEW p \in Proc, Interrupt(p) PROVE NoLostWakeup'
  BY <1>1, <1>9 DEF Interrupt
<1>10. ASSUME NEW p \in Proc, Die(p) PROVE NoLostWakeup'
  BY <1>1, <1>10 DEF Die
<1>11. ASSUME NEW p \in Proc, Close(p) PROVE NoLostWakeup'
  BY <1>1, <1>11 DEF Close
<1>12. ASSUME NEW p \in Proc, RmCtx(p) PROVE NoLostWakeup'
  BY <1>1, <1>12 DEF RmCtx
<1>13. CASE UNCHANGED vars
  BY <1>1, <1>13 DEF vars
<1>. QED
  BY <1>1, <1>2, <1>3, <1>4, <1>5, <1>6, <1>7, <1>8, <1>9, <1>10, <1>11,
     <1>12, <1>13 DEF Next, Lock, Unlock

\* Nobody sleeps in drm_lock on a lock that is free or that its holder could
\* release without entering the kernel.
THEOREM SleeperRemembered == Spec => []NoLostWakeup
<1>1. Init => NoLostWakeup
  BY DEF Init, NoLostWakeup
<1>. QED
  BY <1>1, WakeupStep, LockInvariant, PTL DEF Spec

-----------------------------------------------------------------------------
\* The remembered file keeps the context that the word names, if no context
\* is removed while the word names it.
LEMMA LastKnownStep ==
    ASSUME ~RecycleLast
    PROVE  LockInv /\ LastKnown /\ [Next]_vars => LastKnown'
<1>1. SUFFICES ASSUME LockInv, LastKnown, [Next]_vars PROVE LastKnown'
  OBVIOUS
<1>. USE DEF LastKnown, LockInv, TypeOK, FileInv
<1>2. ASSUME NEW p \in Proc, Open(p) PROVE LastKnown'
  BY <1>1, <1>2 DEF Open
<1>3. ASSUME NEW p \in Proc, LightLock(p) PROVE LastKnown'
  BY <1>1, <1>3 DEF LightLock, Last
<1>4. ASSUME NEW p \in Proc, Take(p) PROVE LastKnown'
  <2>1. CASE word.held
    BY <1>1, <1>4, <2>1 DEF Take, Contend, Words
  <2>2. CASE ~word.held
    BY <1>1, <1>4, <2>2 DEF Take, Owner
  <2>. QED
    BY <2>1, <2>2
<1>5. ASSUME NEW p \in Proc, LightUnlock(p) PROVE LastKnown'
  BY <1>1, <1>5 DEF LightUnlock, Uncontended
<1>6. ASSUME NEW p \in Proc, LockFree(p) PROVE LastKnown'
  BY <1>1, <1>6 DEF LockFree, Free0
<1>7. ASSUME NEW p \in Proc, RmCtx(p) PROVE LastKnown'
  BY <1>1, <1>7 DEF RmCtx
<1>8. ASSUME NEW p \in Proc,
             \/ UnlockCheck(p) \/ Broadcast(p) \/ Interrupt(p) \/ Die(p)
             \/ Close(p)
      PROVE  LastKnown'
  BY <1>1, <1>8 DEF UnlockCheck, Broadcast, Interrupt, Die, Close
<1>9. CASE UNCHANGED vars
  BY <1>1, <1>9 DEF vars
<1>. QED
  BY <1>1, <1>2, <1>3, <1>4, <1>5, <1>6, <1>7, <1>8, <1>9
     DEF Next, Lock, Unlock

\* The kernel knows the file of whoever has the lock.
LEMMA InvKnown == LockInv /\ LastKnown => HolderKnown
<1>1. SUFFICES ASSUME LockInv, LastKnown, NEW p \in Proc, Inside(p)
               PROVE  filePriv = p
  BY DEF HolderKnown
<1>2. word.ctx = ctx[p] /\ ctx[p] # KernelContext
  BY <1>1 DEF LockInv, HolderInWord, CtxInv, Inside
<1>. QED
  BY <1>1, <1>2 DEF LastKnown, LockInv, CtxInv

\* A held lock keeps its holder until it is released, and a holder that dies
\* is found by drmclose, because its file is the remembered one.
LEMMA AliveStep ==
    LockInv /\ LastKnown /\ HolderAlive /\ [Next]_vars => HolderAlive'
<1>1. SUFFICES ASSUME LockInv, LastKnown, HolderAlive, [Next]_vars, word'.held
               PROVE  \E p \in Proc :
                        /\ ctx'[p] = word'.ctx
                        /\ Inside(p)' \/ pc'[p] \in {"close", "close_free"}
  BY DEF HolderAlive
<1>. DEFINE Holds(p) == /\ ctx[p] = word.ctx
                        /\ Inside(p) \/ pc[p] \in {"close", "close_free"}
<1>. USE DEF LockInv, TypeOK, Goto, Inside
<1>2. CASE ~word.held
  BY <1>1, <1>2 DEF Next, Lock, Unlock, Open, LightLock, Take, LightUnlock,
     UnlockCheck, LockFree, Free0, Broadcast, Interrupt, Die, Close, RmCtx,
     Uncontended, HolderInWord, vars
<1>3. ASSUME word.held, NEW p \in Proc, Holds(p) PROVE Holds(p)'
  <2>1. ctx[p] # KernelContext /\ filePriv = p
    BY <1>1, <1>3 DEF CtxInv, LastKnown
  <2>2. ASSUME NEW q \in Proc, Take(q) PROVE Holds(p)'
    BY <1>1, <1>3, <2>2 DEF Take, Contend, Words
  <2>3. ASSUME NEW q \in Proc, LightUnlock(q) PROVE Holds(p)'
    BY <1>1, <1>3, <2>3 DEF LightUnlock
  <2>4. ASSUME NEW q \in Proc, LockFree(q) PROVE Holds(p)'
    BY <1>1, <2>4 DEF LockFree, Free0
  <2>5. ASSUME NEW q \in Proc, Open(q) \/ LightLock(q) PROVE Holds(p)'
    BY <1>1, <1>3, <2>5 DEF Open, LightLock, Last
  <2>6. ASSUME NEW q \in Proc, UnlockCheck(q) \/ Interrupt(q) \/ Die(q)
        PROVE  Holds(p)'
    BY <1>1, <1>3, <2>6 DEF UnlockCheck, Interrupt, Die
  <2>7. ASSUME NEW q \in Proc, Close(q) \/ Broadcast(q) \/ RmCtx(q)
        PROVE  Holds(p)'
    BY <1>1, <1>3, <2>1, <2>7 DEF Close, HeldBy, Broadcast, RmCtx
  <2>8. CASE UNCHANGED vars
    BY <1>3, <2>8 DEF vars
  <2>. QED
    BY <1>1, <2>2, <2>3, <2>4, <2>5, <2>6, <2>7, <2>8 DEF Next, Lock, Unlock
<1>4. CASE word.held
  BY <1>1, <1>3, <1>4 DEF HolderAlive
<1>. QED
  BY <1>2, <1>4

\* Unless a context is recycled while the lock word names it, the holder is
\* always the process that the kernel remembers, and the lock of a process
\* that dies is always released.
THEOREM HolderRemembered ==
    ASSUME ~RecycleLast PROVE Spec => [](HolderKnown /\ HolderAlive)
<1>1. Init => LastKnown /\ HolderAlive
  BY DEF Init, Free0, LastKnown, HolderAlive
<1>. QED
  BY <1>1, LastKnownStep, InvKnown, AliveStep, LockInvariant, PTL DEF Spec

-----------------------------------------------------------------------------
Owners == {p \in Proc : Inside(p)}

\* Every step of the lock is an Enter, a Leave or nothing at all.
LEMMA RefinementStep ==
    LockInv /\ [Next]_vars => [Abstract!Next]_Owners
<1>1. SUFFICES ASSUME LockInv, [Next]_vars
               PROVE  Abstract!Next \/ Owners' = Owners
  OBVIOUS
<1>2. MutualExclusion
  BY <1>1, InvExclusion
<1>3. ASSUME NEW p \in Proc, ~Inside(p), ~word.held, Inside(p)',
             \A q \in Proc \ {p} : Inside(q)' <=> Inside(q)
      PROVE  Abstract!Next
  <2>1. Owners = {} /\ Owners' = {p}
    BY <1>1, <1>3 DEF Owners, LockInv, HolderInWord
  <2>. QED
    BY <2>1 DEF Owners, Abstract!Next, Abstract!Enter
<1>4. ASSUME NEW p \in Proc, Inside(p), ~Inside(p)',
             \A q \in Proc \ {p} : Inside(q)' <=> Inside(q)
      PROVE  Abstract!Next
  <2>1. Owners = {p} /\ Owners' = {}
    BY <1>2, <1>4 DEF Owners, MutualExclusion
  <2>. QED
    BY <2>1 DEF Owners, Abstract!Next, Abstract!Leave
<1>5. ASSUME \A q \in Proc : Inside(q)' <=> Inside(q)
      PROVE  Owners' = Owners
  BY <1>5 DEF Owners
<1>. USE DEF LockInv, TypeOK, Goto, Inside
<1>6. ASSUME NEW p \in Proc, LightLock(p)
      PROVE  Abstract!Next \/ Owners' = Owners
  <2>1. CASE Last(p)
    BY <1>1, <1>3, <1>6, <2>1 DEF LightLock, Last
  <2>2. CASE ~Last(p)
    BY <1>1, <1>5, <1>6, <2>2 DEF LightLock
  <2>. QED
    BY <2>1, <2>2
<1>7. ASSUME NEW p \in Proc, Take(p) PROVE Abstract!Next \/ Owners' = Owners
  <2>1. CASE word.held
    BY <1>1, <1>5, <1>7, <2>1 DEF Take
  <2>2. CASE ~word.held
    BY <1>1, <1>3, <1>7, <2>2 DEF Take
  <2>. QED
    BY <2>1, <2>2
<1>8. ASSUME NEW p \in Proc, LightUnlock(p)
      PROVE  Abstract!Next \/ Owners' = Owners
  <2>1. CASE Uncontended(p)
    BY <1>1, <1>4, <1>8, <2>1 DEF LightUnlock
  <2>2. CASE ~Uncontended(p)
    BY <1>1, <1>5, <1>8, <2>2 DEF LightUnlock
  <2>. QED
    BY <2>1, <2>2
<1>9. ASSUME NEW p \in Proc, UnlockCheck(p) PROVE Owners' = Owners
  BY <1>1, <1>5, <1>9 DEF UnlockCheck, HolderInWord
<1>10. ASSUME NEW p \in Proc, LockFree(p)
       PROVE  Abstract!Next \/ Owners' = Owners
  <2>1. CASE pc[p] = "free"
    BY <1>1, <1>4, <1>10, <2>1 DEF LockFree
  <2>2. CASE pc[p] = "close_free"
    BY <1>1, <1>5, <1>10, <2>2 DEF LockFree
  <2>. QED
    BY <1>10, <2>1, <2>2 DEF LockFree
<1>11. ASSUME NEW p \in Proc, Die(p) PROVE Abstract!Next \/ Owners' = Owners
  <2>1. CASE Inside(p)
    BY <1>1, <1>4, <1>11, <2>1 DEF Die
  <2>2. CASE ~Inside(p)
    BY <1>1, <1>5, <1>11, <2>2 DEF Die
  <2>. QED
    BY <2>1, <2>2
<1>12. ASSUME NEW p \in Proc,
              Open(p) \/ Broadcast(p) \/ Interrupt(p) \/ Close(p) \/ RmCtx(p)
       PROVE  Owners' = Owners
  BY <1>1, <1>5, <1>12 DEF Open, Broadcast, Interrupt, Close, RmCtx
<1>13. CASE UNCHANGED vars
  BY <1>5, <1>13 DEF vars
<1>. QED
  BY <1>1, <1>6, <1>7, <1>8, <1>9, <1>10, <1>11, <1>12, <1>13
     DEF Next, Lock, Unlock

\* The hardware lock implements the abstract mutual exclusion lock.
THEOREM Refinement == Spec => ImplementsMutex
<1>1. Init => Abstract!Init
  BY DEF Init, Abstract!Init, Inside
<1>. QED
  BY <1>1, RefinementStep, LockInvariant, PTL
     DEF Spec, ImplementsMutex, Abstract!Spec, Owners
=============================================================================
