---------------------------- MODULE Fence_proofs ----------------------------
(***************************************************************************)
(* For any number of objects, fence registers, tilings and processes, and  *)
(* on every chip: a queued batch finds the fences it was submitted with,   *)
(* the books of the driver agree, and its list of registers is exact.  On  *)
(* the chips whose registers put_fence_reg clears, the hardware agrees     *)
(* too, and a page fault maps an object through its tiling.                *)
(***************************************************************************)
EXTENDS Fence, FiniteSetTheorems, SequenceTheorems, TLAPS

\* A thread that works on an object has one, and one that gives a fence back
\* has the object it belongs to.
ThreadObjects ==
    \A t \in Client :
      /\ th[t].pc \in AtWork => th[t].obj \in Obj
      /\ th[t].pc \in {"put", "clear"} => th[t].victim \in Obj

FenceInv == StateTypes /\ ThreadObjects /\ RegsConsistent

-----------------------------------------------------------------------------
\* The types.
LEMMA TypesInit == Init => StateTypes
<1>1. Idle \in ThreadState
  BY DEF Idle, ThreadState, PC
<1>2. Off \in [obj : Obj \cup {NoObj}, tiling : Tiling \cup {Linear}]
  BY DEF Off
<1>3. NoBatch \in [todo : SUBSET Obj, pinned : SUBSET Obj,
                   needs : SUBSET Obj, write : SUBSET Obj]
  BY DEF NoBatch
<1>. QED
  BY <1>1, <1>2, <1>3 DEF Init, StateTypes

\* What an entry point records of a thread is of its type.
LEMMA ThreadUpdate ==
    ASSUME NEW x \in ThreadState, NEW p \in PC, NEW a \in Ops \cup {"none"},
           NEW o \in Obj \cup {NoObj}, NEW v \in Obj \cup {NoObj},
           NEW n \in Nat
    PROVE  /\ [x EXCEPT !.pc = p] \in ThreadState
           /\ [x EXCEPT !.pc = p, !.seq = n] \in ThreadState
           /\ [x EXCEPT !.seq = n, !.pc = p] \in ThreadState
           /\ [x EXCEPT !.pc = p, !.victim = v] \in ThreadState
           /\ [x EXCEPT !.pc = p, !.obj = o] \in ThreadState
           /\ [x EXCEPT !.victim = v, !.seq = n, !.pc = p] \in ThreadState
           /\ [x EXCEPT !.pc = p, !.op = a] \in ThreadState
           /\ [x EXCEPT !.pc = p, !.op = a, !.obj = o] \in ThreadState
           /\ [x EXCEPT !.op = a, !.obj = o, !.pc = p] \in ThreadState
           /\ [x EXCEPT !.pc = p, !.obj = o, !.victim = v] \in ThreadState
BY DEF ThreadState

\* The operators that send a thread on keep its type.
LEMMA GotoType ==
    ASSUME th \in [Client -> ThreadState], NEW t \in Client, NEW p \in PC
    PROVE  /\ Goto(t, p) => th' \in [Client -> ThreadState]
           /\ Finish(t) => th' \in [Client -> ThreadState]
<1>1. Idle \in ThreadState
  BY DEF Idle, ThreadState, PC
<1>2. [th[t] EXCEPT !.pc = p] \in ThreadState
  BY ThreadUpdate
<1>3. [Idle EXCEPT !.pc = "out"] \in ThreadState
  BY <1>1, ThreadUpdate DEF PC
<1>. QED
  BY <1>2, <1>3 DEF Goto, Finish

\* So does the end of i915_gem_get_fence_reg.
LEMMA GotType ==
    ASSUME th \in [Client -> ThreadState], NEW t \in Client, NEW err,
           Got(t, err)
    PROVE  th' \in [Client -> ThreadState]
<1>1. "gtt" \in PC /\ "gtt_err" \in PC /\ "pin" \in PC
  BY DEF PC, AtWork
<1>. QED
  BY <1>1, GotoType DEF Got

\* And that of put_fence_reg.
LEMMA PutDoneType ==
    ASSUME th \in [Client -> ThreadState], NEW t \in Client, PutDone(t)
    PROVE  th' \in [Client -> ThreadState]
<1>1. (IF th[t].op = "unbind" THEN "unbind" ELSE "get") \in PC
  BY DEF PC, AtWork
<1>2. \A p \in PC :
        [th[t] EXCEPT !.victim = NoObj, !.seq = 0, !.pc = p] \in ThreadState
  BY ThreadUpdate
<1>. QED
  BY <1>1, <1>2 DEF PutDone

\* A flush keeps the types of what it changes.
LEMMA FlushTypes ==
    ASSUME StateTypes, GpuFlush
    PROVE  /\ active' \subseteq Obj /\ fenced' \subseteq Obj
           /\ lrs' \in [Obj -> Nat] /\ lws' \in [Obj -> Nat]
           /\ regSeq' \in [Reg -> Nat]
           /\ wd' \in [Obj -> {"none", "CPU", "GTT", "GPU"}]
           /\ nextSeqno' \in Nat /\ requests' \subseteq Nat
<1>. QED
  BY DEF StateTypes, GpuFlush, MoveToActive, Rendered, AddRequest

\* So does the retirement of a request.
LEMMA RetireTypes == StateTypes /\ Retire => StateTypes'
<1>. QED
  BY DEF StateTypes, Retire, RetireRequest, StillFenced, gttVars, domVars,
         regVars, lockVars

\* A step of a thread keeps the types of the rest, and of the threads.
LEMMA TypesStep == StateTypes /\ ThreadObjects /\ [Next]_vars => StateTypes'
<1>1. SUFFICES ASSUME StateTypes, ThreadObjects, [Next]_vars
               PROVE  StateTypes'
  OBVIOUS
<1>a. Idle \in ThreadState
  BY DEF Idle, ThreadState, PC
<1>b. AtWork \subseteq PC /\ {"idle", "pick", "dispatch", "out"} \subseteq PC
  BY DEF PC
<1>2. ASSUME NEW t \in Client, Step(t) PROVE StateTypes'
  <2>a. /\ th \in [Client -> ThreadState] /\ th[t] \in ThreadState
        /\ th[t].pc \in AtWork => th[t].obj \in Obj
        /\ th[t].pc \in {"put", "clear"} => th[t].victim \in Obj
    BY <1>1, <1>2 DEF StateTypes, ThreadObjects
  <2>1. CASE ReadLock(t)
    <3>a. \A op \in Ops, o \in Obj :
            [Idle EXCEPT !.pc = "hold", !.op = op, !.obj = o] \in ThreadState
      BY <1>a, ThreadUpdate DEF PC, AtWork
    <3>b. SharedOps \subseteq Ops
      BY DEF SharedOps, Ops, GttOps, GttReadOps, GttWriteOps, FaultOps
    <3>c. PICK op \in SharedOps, o \in Obj :
            th' = [th EXCEPT ![t] = [Idle EXCEPT !.pc = "hold", !.op = op,
                                                 !.obj = o]]
      BY <2>1 DEF ReadLock
    <3>d. [Idle EXCEPT !.pc = "hold", !.op = op, !.obj = o] \in ThreadState
      BY <3>a, <3>b, <3>c
    <3>1. th' \in [Client -> ThreadState]
      BY <2>a, <3>c, <3>d
    <3>. QED
      BY <1>1, <2>a, <2>1, <3>1
      DEF StateTypes, ReadLock, Ready, SharedOps, FaultOps, Ops,
          GttOps, GttReadOps, GttWriteOps,
          gttVars, domVars, listVars, regVars, reqVars, lockVars, AtWork
  <2>2. CASE ExecLock(t)
    <3>1. th' \in [Client -> ThreadState]
      BY <1>a, <2>a, <2>2, ThreadUpdate
      DEF ExecLock, Ready, Ops, PC, AtWork
    <3>. QED
      BY <1>1, <2>a, <2>2, <3>1
      DEF StateTypes, ExecLock, Ready, Ops,
          gttVars, domVars, listVars, regVars, reqVars, lockVars, AtWork
  <2>3. CASE Hold(t)
    <3>1. PICK op \in Ops \cup {"none"}, o \in Obj : HoldObject(t, op, o)
      BY <2>a, <2>3 DEF Hold, ThreadState, AtWork
    <3>2. (IF op = "set_tiling" THEN "tile"
           ELSE IF op \in FaultOps THEN "bind"
           ELSE IF o \in bound THEN "flush" ELSE "out") \in PC
      BY DEF PC, AtWork
    <3>3. \A p \in PC :
            [Idle EXCEPT !.op = op, !.obj = o, !.pc = p] \in ThreadState
      BY <1>a, <3>1, ThreadUpdate
    <3>4. th' \in [Client -> ThreadState]
      BY <2>a, <3>1, <3>2, <3>3 DEF HoldObject
    <3>. QED
      BY <1>1, <2>a, <3>1, <3>4
      DEF StateTypes, HoldObject, gttVars, domVars, listVars, regVars,
          reqVars,
          lockVars
  <2>4. CASE Bind(t)
    <3>1. th' \in [Client -> ThreadState]
      BY <1>b, <2>a, <2>4, GotoType DEF Bind, AtWork
    <3>. QED
      BY <1>1, <2>a, <2>4, <3>1
      DEF StateTypes, Bind, Goto, Finish,
          gttVars, domVars, listVars, regVars, reqVars, lockVars, AtWork
  <2>5. CASE Flush(t)
    <3>1. th' \in [Client -> ThreadState]
      BY <1>a, <2>a, <2>5, ThreadUpdate
      DEF Flush, PC, AtWork
    <3>. QED
      BY <1>1, <2>a, <2>5, <3>1, FlushTypes
      DEF StateTypes, Flush,
          gttVars, domVars, listVars, regVars, reqVars, lockVars, AtWork
  <2>6. CASE WaitRendering(t)
    <3>a. WaitSeqno(t) \in Nat
      BY <1>1, <2>a, <2>6 DEF StateTypes, WaitRendering, WaitSeqno, AtWork
    <3>b. \A p \in PC :
            [th[t] EXCEPT !.pc = p, !.seq = WaitSeqno(t)] \in ThreadState
      BY <2>a, <3>a, ThreadUpdate
    <3>c. (IF th[t].obj \in active THEN "wait" ELSE "domain") \in PC
      BY DEF PC, AtWork
    <3>1. th' \in [Client -> ThreadState]
      BY <2>a, <2>6, <3>b, <3>c DEF WaitRendering
    <3>. QED
      BY <1>1, <2>a, <2>6, <3>1
      DEF StateTypes, WaitRendering, WaitSeqno,
          gttVars, domVars, listVars, regVars, reqVars, lockVars, AtWork
  <2>7. CASE Wake(t)
    <3>1. th' \in [Client -> ThreadState]
      BY <1>a, <2>a, <2>7, ThreadUpdate
      DEF Wake, PC, AtWork
    <3>. QED
      BY <1>1, <2>a, <2>7, <3>1
      DEF StateTypes, Wake,
          gttVars, domVars, listVars, regVars, reqVars, lockVars, AtWork
  <2>8. CASE Interrupt(t)
    <3>1. th' \in [Client -> ThreadState]
      BY <1>a, <2>a, <2>8, ThreadUpdate
      DEF Interrupt, Finish, PC, AtWork
    <3>. QED
      BY <1>1, <2>a, <2>8, <3>1
      DEF StateTypes, Interrupt, Finish,
          gttVars, domVars, listVars, regVars, reqVars, lockVars, AtWork
  <2>9. CASE Domain(t)
    <3>a. \A p \in PC, v \in Obj \cup {NoObj} :
            [th[t] EXCEPT !.pc = p, !.victim = v] \in ThreadState
      BY <2>a, ThreadUpdate
    <3>b. th[t].obj \in Obj
      BY <2>a, <2>9 DEF Domain, AtWork
    <3>c. "put" \in PC /\ FenceStep(th[t].obj) \in PC
      BY DEF FenceStep, PC, AtWork
    <3>d. PICK p \in PC, v \in Obj \cup {NoObj} :
            th' = [th EXCEPT ![t].pc = p, ![t].victim = v]
      <4>1. CASE th[t].op = "unbind"
        BY <2>9, <3>b, <3>c, <4>1 DEF Domain
      <4>2. CASE th[t].op # "unbind" /\ th[t].obj \in invalid
        BY <2>9, <3>b, <3>c, <4>2 DEF Domain
      <4>3. CASE th[t].op # "unbind" /\ th[t].obj \notin invalid
        BY <2>9, <3>b, <3>c, <4>3 DEF Domain
      <4>. QED
        BY <4>1, <4>2, <4>3
    <3>1. th' \in [Client -> ThreadState]
      BY <2>a, <3>a, <3>d
    <3>. QED
      BY <1>1, <2>a, <2>9, <3>1
      DEF StateTypes, Domain, FenceStep, LeaveGtt,
          gttVars, domVars, listVars, regVars, reqVars, lockVars, AtWork
  <2>10. CASE PutFlush(t)
    <3>1. th' \in [Client -> ThreadState]
      BY <1>a, <2>a, <2>10, ThreadUpdate
      DEF PutFlush, PC, AtWork
    <3>. QED
      BY <1>1, <2>a, <2>10, <3>1, FlushTypes
      DEF StateTypes, PutFlush,
          gttVars, domVars, listVars, regVars, reqVars, lockVars, AtWork
  <2>11. CASE PutWait(t)
    <3>a. regSeq[fence[th[t].victim]] \in Nat
      BY <1>1, <2>a, <2>11 DEF StateTypes, PutWait
    <3>b. \A p \in PC : [th[t] EXCEPT !.seq = regSeq[fence[th[t].victim]],
                                    !.pc = p] \in ThreadState
      BY <2>a, <3>a, ThreadUpdate
    <3>c. (IF regSeq[fence[th[t].victim]] = 0 THEN "clear" ELSE "wait") \in PC
      BY DEF PC, AtWork
    <3>1. th' \in [Client -> ThreadState]
      BY <2>a, <2>11, <3>b, <3>c DEF PutWait
    <3>. QED
      BY <1>1, <2>a, <2>11, <3>1
      DEF StateTypes, PutWait,
          gttVars, domVars, listVars, regVars, reqVars, lockVars, AtWork
  <2>12. CASE PutNone(t)
    <3>1. th' \in [Client -> ThreadState]
      BY <2>a, <2>12, PutDoneType DEF PutNone
    <3>. QED
      BY <1>1, <2>a, <2>12, <3>1
      DEF StateTypes, PutNone, PutDone,
          gttVars, domVars, listVars, regVars, reqVars, lockVars, AtWork
  <2>13. CASE PutClear(t)
    <3>1. th' \in [Client -> ThreadState]
      BY <2>a, <2>13, PutDoneType DEF PutClear
    <3>. QED
      BY <1>1, <2>a, <2>13, <3>1
      DEF StateTypes, PutClear, PutDone, LeaveGtt, Cleared, Off,
          gttVars, domVars, listVars, regVars, reqVars, lockVars, AtWork
  <2>14. CASE GetOld(t)
    <3>1. th' \in [Client -> ThreadState]
      BY <2>a, <2>14, GotType DEF GetOld
    <3>. QED
      BY <1>1, <2>a, <2>14, <3>1
      DEF StateTypes, GetOld, Got, Goto, Finish,
          gttVars, domVars, listVars, regVars, reqVars, lockVars, AtWork
  <2>15. CASE GetFree(t)
    <3>1. th' \in [Client -> ThreadState]
      BY <2>a, <2>15, GotType DEF GetFree
    <3>. QED
      BY <1>1, <2>a, <2>15, <3>1
      DEF StateTypes, GetFree, Search, Got, Goto, Finish,
          gttVars, domVars, listVars, regVars, reqVars, lockVars, AtWork
  <2>16. CASE GetNone(t)
    <3>1. th' \in [Client -> ThreadState]
      BY <2>a, <2>16, GotType DEF GetNone
    <3>. QED
      BY <1>1, <2>a, <2>16, <3>1
      DEF StateTypes, GetNone, Got, Goto, Finish,
          gttVars, domVars, listVars, regVars, reqVars, lockVars, AtWork
  <2>17. CASE GetSteal(t)
    <3>a. \A v \in Obj \cup {NoObj} :
            [th[t] EXCEPT !.pc = "put", !.victim = v] \in ThreadState
      BY <1>b, <2>a, ThreadUpdate DEF AtWork
    <3>b. \A r \in Reg : regObj[r] \in Obj \cup {NoObj}
      BY <1>1 DEF StateTypes
    <3>c. PICK r \in Reg :
            th' = [th EXCEPT ![t].pc = "put", ![t].victim = regObj[r]]
      BY <2>17 DEF GetSteal
    <3>1. th' \in [Client -> ThreadState]
      BY <2>a, <3>a, <3>b, <3>c
    <3>. QED
      BY <1>1, <2>a, <2>17, <3>1
      DEF StateTypes, GetSteal,
          gttVars, domVars, listVars, regVars, reqVars, lockVars, AtWork
  <2>18. CASE GttDomain(t)
    <3>1. th' \in [Client -> ThreadState]
      BY <1>a, <2>a, <2>18, ThreadUpdate
      DEF GttDomain, Finish, PC, AtWork
    <3>. QED
      BY <1>1, <2>a, <2>18, <3>1
      DEF StateTypes, GttDomain, Finish,
          gttVars, domVars, listVars, regVars, reqVars, lockVars, AtWork
  <2>19. CASE Unbind(t)
    <3>1. th' \in [Client -> ThreadState]
      BY <1>a, <2>a, <2>19, ThreadUpdate
      DEF Unbind, Finish, PC, AtWork
    <3>. QED
      BY <1>1, <2>a, <2>19, <3>1
      DEF StateTypes, Unbind, Finish,
          gttVars, domVars, listVars, regVars, reqVars, lockVars, AtWork
  <2>20. CASE SetTiling(t)
    <3>1. th' \in [Client -> ThreadState]
      BY <1>a, <2>a, <2>20, ThreadUpdate
      DEF SetTiling, Finish, PC, AtWork
    <3>. QED
      BY <1>1, <2>a, <2>20, <3>1
      DEF StateTypes, SetTiling, Finish,
          gttVars, domVars, listVars, regVars, reqVars, lockVars, AtWork
  <2>21. CASE Return(t)
    <3>1. th' \in [Client -> ThreadState]
      BY <1>a, <2>a, <2>21, ThreadUpdate
      DEF Return, PC, AtWork
    <3>. QED
      BY <1>1, <2>a, <2>21, <3>1
      DEF StateTypes, Return, NoBatch,
          gttVars, domVars, listVars, regVars, reqVars, lockVars, AtWork
  <2>22. CASE ExecHold(t)
    <3>a. PICK o \in batch.todo :
            /\ batch' = [batch EXCEPT !.todo = @ \ {o},
                 !.needs = IF tiling[o] = Linear THEN @ \ {o} ELSE @]
            /\ held' = [held EXCEPT ![o] = t]
            /\ bound' = bound \cup {o} \/ bound' = bound
            /\ \/ th' = [th EXCEPT ![t].pc = FenceStep(o), ![t].obj = o,
                          ![t].victim = IF o \in invalid THEN o ELSE NoObj]
               \/ Finish(t)
      BY <2>22 DEF ExecHold
    <3>b. o \in Obj
      BY <1>1, <3>a DEF StateTypes
    <3>c. \A p \in PC, v \in Obj \cup {NoObj} :
            [th[t] EXCEPT !.pc = p, !.obj = o, !.victim = v] \in ThreadState
      BY <2>a, <3>b, ThreadUpdate
    <3>d. FenceStep(o) \in PC
      BY DEF FenceStep, PC, AtWork
    <3>1. th' \in [Client -> ThreadState]
      <4>1. CASE Finish(t)
        BY <1>b, <2>a, <4>1, GotoType
      <4>2. CASE ~Finish(t)
        <5>1. PICK v \in Obj \cup {NoObj} :
                th' = [th EXCEPT ![t].pc = FenceStep(o), ![t].obj = o,
                                 ![t].victim = v]
          BY <3>a, <3>b, <4>2
        <5>. QED
          BY <2>a, <3>c, <3>d, <5>1
      <4>. QED
        BY <4>1, <4>2
    <3>2. batch' \in [todo : SUBSET Obj, pinned : SUBSET Obj,
                     needs : SUBSET Obj, write : SUBSET Obj]
      BY <1>1, <3>a DEF StateTypes
    <3>3. held' \in [Obj -> Client \cup {NoThread}] /\ bound' \subseteq Obj
      BY <1>1, <3>a, <3>b DEF StateTypes
    <3>. QED
      BY <1>1, <2>22, <3>1, <3>2, <3>3
      DEF StateTypes, ExecHold, domVars, listVars, regVars, reqVars
  <2>23. CASE ExecPin(t)
    <3>1. th' \in [Client -> ThreadState]
      BY <1>a, <2>a, <2>23, ThreadUpdate
      DEF ExecPin, PC, AtWork
    <3>. QED
      BY <1>1, <2>a, <2>23, <3>1
      DEF StateTypes, ExecPin,
          gttVars, domVars, listVars, regVars, reqVars, lockVars, AtWork
  <2>24. CASE ExecFlush(t)
    <3>1. th' \in [Client -> ThreadState]
      BY <1>a, <2>a, <2>24, ThreadUpdate
      DEF ExecFlush, Goto, PC, AtWork
    <3>. QED
      BY <1>1, <2>a, <2>24, <3>1, FlushTypes
      DEF StateTypes, ExecFlush, Goto,
          gttVars, domVars, listVars, regVars, reqVars, lockVars, AtWork
  <2>25. CASE ExecDispatch(t)
    <3>1. th' \in [Client -> ThreadState]
      BY <1>a, <2>a, <2>25, ThreadUpdate
      DEF ExecDispatch, Finish, PC, AtWork
    <3>. QED
      BY <1>1, <2>a, <2>25, <3>1
      DEF StateTypes, ExecDispatch, Finish, MoveToActive, AddRequest,
          gttVars, domVars, listVars, regVars, reqVars, lockVars, AtWork
  <2>. QED
    BY <1>2, <2>1, <2>2, <2>3, <2>4, <2>5, <2>6, <2>7, <2>8, <2>9,
        <2>10, <2>11, <2>12, <2>13, <2>14, <2>15, <2>16, <2>17, <2>18,
        <2>19, <2>20, <2>21, <2>22, <2>23, <2>24, <2>25 DEF Step
<1>3. CASE Retire
  BY <1>1, <1>3, RetireTypes
<1>4. CASE GpuProgress
  BY <1>1, <1>4 DEF GpuProgress, StateTypes, gttVars, domVars, listVars,
     regVars, reqVars, lockVars
<1>5. CASE UNCHANGED vars
  BY <1>1, <1>5 DEF vars, StateTypes, gttVars, domVars, listVars, regVars,
     reqVars, lockVars
<1>. QED
  BY <1>1, <1>2, <1>3, <1>4, <1>5 DEF Next

-----------------------------------------------------------------------------
\* The objects of the threads.
LEMMA ObjectsStep ==
    StateTypes /\ ThreadObjects /\ [Next]_vars => ThreadObjects'
<1>1. SUFFICES ASSUME StateTypes, ThreadObjects, [Next]_vars
               PROVE  ThreadObjects'
  OBVIOUS
<1>2. ASSUME NEW t \in Client, Step(t) PROVE ThreadObjects'
  <2>a. /\ th \in [Client -> ThreadState] /\ th[t] \in ThreadState
        /\ th[t].pc \in AtWork => th[t].obj \in Obj
        /\ th[t].pc \in {"put", "clear"} => th[t].victim \in Obj
    BY <1>1, <1>2 DEF StateTypes, ThreadObjects
  <2>b. SUFFICES /\ \A s \in Client \ {t} : th'[s] = th[s]
                 /\ th'[t].pc \in AtWork => th'[t].obj \in Obj
                 /\ th'[t].pc \in {"put", "clear"} => th'[t].victim \in Obj
    BY <1>1 DEF ThreadObjects
  <2>1. CASE ReadLock(t)
    BY <2>a, <2>1
    DEF ReadLock, Ready, ThreadState, Idle, AtWork
  <2>2. CASE ExecLock(t)
    BY <2>a, <2>2
    DEF ExecLock, Ready, ThreadState, Idle, AtWork
  <2>3. CASE Hold(t)
    <3>1. PICK op \in Ops \cup {"none"}, o \in Obj : HoldObject(t, op, o)
      BY <2>a, <2>3 DEF Hold, ThreadState, AtWork
    <3>. QED
      BY <2>a, <3>1 DEF HoldObject, ThreadState, Idle, AtWork
  <2>4. CASE Bind(t)
    BY <2>a, <2>4
    DEF Bind, Goto, Finish, ThreadState, Idle, AtWork
  <2>5. CASE Flush(t)
    BY <2>a, <2>5
    DEF Flush, ThreadState, Idle, AtWork
  <2>6. CASE WaitRendering(t)
    BY <2>a, <2>6
    DEF WaitRendering, ThreadState, Idle, AtWork
  <2>7. CASE Wake(t)
    BY <2>a, <2>7
    DEF Wake, ThreadState, Idle, AtWork
  <2>8. CASE Interrupt(t)
    BY <2>a, <2>8
    DEF Interrupt, Finish, ThreadState, Idle, AtWork
  <2>9. CASE Domain(t)
    BY <2>a, <2>9
    DEF Domain, FenceStep, ThreadState, Idle, AtWork
  <2>10. CASE PutFlush(t)
    BY <2>a, <2>10
    DEF PutFlush, ThreadState, Idle, AtWork
  <2>11. CASE PutWait(t)
    BY <2>a, <2>11
    DEF PutWait, ThreadState, Idle, AtWork
  <2>12. CASE PutNone(t)
    BY <2>a, <2>12
    DEF PutNone, PutDone, ThreadState, Idle, AtWork
  <2>13. CASE PutClear(t)
    BY <2>a, <2>13
    DEF PutClear, PutDone, ThreadState, Idle, AtWork
  <2>14. CASE GetOld(t)
    <3>1. Got(t, FALSE) /\ th[t].obj \in Obj
      BY <2>a, <2>14 DEF GetOld, AtWork
    <3>. QED
      BY <2>a, <3>1 DEF Got, Goto, Finish, ThreadState, Idle, AtWork
  <2>15. CASE GetFree(t)
    <3>1. Got(t, FALSE) /\ th[t].obj \in Obj
      BY <2>a, <2>15 DEF GetFree, Search, AtWork
    <3>. QED
      BY <2>a, <3>1 DEF Got, Goto, Finish, ThreadState, Idle, AtWork
  <2>16. CASE GetNone(t)
    BY <2>a, <2>16
    DEF GetNone, Search, Got, Goto, Finish, ThreadState,
        Idle, AtWork
  <2>17. CASE GetSteal(t)
    BY <1>1, <2>a, <2>17
    DEF StateTypes, GetSteal, Search, ThreadState, Idle, AtWork
  <2>18. CASE GttDomain(t)
    BY <2>a, <2>18
    DEF GttDomain, Finish, ThreadState, Idle, AtWork
  <2>19. CASE Unbind(t)
    BY <2>a, <2>19
    DEF Unbind, Finish, ThreadState, Idle, AtWork
  <2>20. CASE SetTiling(t)
    BY <2>a, <2>20
    DEF SetTiling, Finish, ThreadState, Idle, AtWork
  <2>21. CASE Return(t)
    BY <2>a, <2>21
    DEF Return, ThreadState, Idle, AtWork
  <2>22. CASE ExecHold(t)
    BY <1>1, <2>a, <2>22
    DEF StateTypes, ExecHold, FenceStep, Finish, ThreadState, Idle, AtWork
  <2>23. CASE ExecPin(t)
    BY <2>a, <2>23
    DEF ExecPin, ThreadState, Idle, AtWork
  <2>24. CASE ExecFlush(t)
    BY <2>a, <2>24
    DEF ExecFlush, Goto, ThreadState, Idle, AtWork
  <2>25. CASE ExecDispatch(t)
    BY <2>a, <2>25
    DEF ExecDispatch, Finish, ThreadState, Idle, AtWork
  <2>. QED
    BY <1>2, <2>1, <2>2, <2>3, <2>4, <2>5, <2>6, <2>7, <2>8, <2>9,
        <2>10, <2>11, <2>12, <2>13, <2>14, <2>15, <2>16, <2>17, <2>18,
        <2>19, <2>20, <2>21, <2>22, <2>23, <2>24, <2>25 DEF Step
<1>3. ASSUME UNCHANGED th PROVE ThreadObjects'
  BY <1>1, <1>3 DEF ThreadObjects
<1>. QED
  BY <1>1, <1>2, <1>3 DEF Next, Retire, GpuProgress, vars

-----------------------------------------------------------------------------
\* The registers.  Only three steps change what they show, or what they
\* ought to.
LEMMA RegsFrame ==
    ASSUME RegsConsistent,
           UNCHANGED <<tiling, invalid, fence, regObj, hw>>
    PROVE  RegsConsistent'
BY DEF RegsConsistent, Paired, HwAgrees

\* A free register is set up for the object.
LEMMA GetFreeRegs ==
    ASSUME StateTypes, ThreadObjects, RegsConsistent,
           NEW t \in Client, GetFree(t)
    PROVE  RegsConsistent'
<1>. DEFINE o == th[t].obj
<1>1. o \in Obj /\ fence[o] = NoReg
  BY DEF GetFree, Search, ThreadObjects, AtWork
<1>2. PICK r \in Reg :
        /\ regObj[r] = NoObj
        /\ regObj' = [regObj EXCEPT ![r] = o]
        /\ fence' = [fence EXCEPT ![o] = r]
        /\ hw' = [hw EXCEPT ![r] = [obj |-> o, tiling |-> tiling[o]]]
  BY DEF GetFree
<1>3. UNCHANGED <<tiling, invalid>>
  BY DEF GetFree
<1>4. Paired'
  BY <1>1, <1>2, NullAssumption DEF RegsConsistent, Paired, StateTypes
<1>5. HwAgrees'
  BY <1>1, <1>2, <1>3 DEF RegsConsistent, HwAgrees, StateTypes
<1>. QED
  BY <1>4, <1>5 DEF RegsConsistent

\* The register of the victim is given back and cleared.
LEMMA PutClearRegs ==
    ASSUME ~Gen6, StateTypes, ThreadObjects, RegsConsistent,
           NEW t \in Client, PutClear(t)
    PROVE  RegsConsistent'
<1>. DEFINE v == th[t].victim
            r == fence[v]
<1>1. v \in Obj /\ r \in Reg \cup {NoReg}
  BY DEF PutClear, ThreadObjects, StateTypes
<1>2. /\ hw' = [hw EXCEPT ![r] = Off]
      /\ regObj' = [regObj EXCEPT ![r] = NoObj]
      /\ fence' = [fence EXCEPT ![v] = NoReg]
      /\ invalid' = invalid \ {v}
      /\ tiling' = tiling
  BY DEF PutClear, Cleared
<1>4. Paired'
  BY <1>1, <1>2, NullAssumption DEF RegsConsistent, Paired, StateTypes
<1>5. HwAgrees'
  <2>1. SUFFICES ASSUME NEW q \in Reg
                 PROVE  /\ hw'[q].obj = regObj'[q]
                        /\ regObj'[q] \in Obj \ invalid'
                             => hw'[q].tiling = tiling'[regObj'[q]]
    BY DEF HwAgrees
  <2>2. CASE q = r
    BY <1>1, <1>2, <2>2, NullAssumption DEF StateTypes, Off
  <2>3. CASE q # r
    <3>1. hw'[q] = hw[q] /\ regObj'[q] = regObj[q] /\ regObj[q] # v
      BY <1>1, <1>2, <2>3 DEF RegsConsistent, Paired, StateTypes
    <3>. QED
      BY <1>2, <3>1 DEF RegsConsistent, HwAgrees
  <2>. QED
    BY <2>2, <2>3
<1>. QED
  BY <1>4, <1>5 DEF RegsConsistent

\* A register whose object changes its tiling is marked invalid.
LEMMA SetTilingRegs ==
    ASSUME StateTypes, ThreadObjects, RegsConsistent,
           NEW t \in Client, SetTiling(t)
    PROVE  RegsConsistent'
<1>. DEFINE o == th[t].obj
<1>1. o \in Obj
  BY DEF SetTiling, ThreadObjects, AtWork
<1>2. UNCHANGED <<fence, regObj, hw>>
  BY DEF SetTiling, regVars
<1>3. CASE UNCHANGED <<tiling, invalid>>
  BY <1>2, <1>3, RegsFrame
<1>4. CASE ~UNCHANGED <<tiling, invalid>>
  <2>1. PICK m \in Tiling \cup {Linear} :
          /\ tiling' = [tiling EXCEPT ![o] = m]
          /\ invalid' = IF fence[o] = NoReg THEN invalid ELSE invalid \cup {o}
    BY <1>4 DEF SetTiling
  <2>3. Paired'
    BY <1>2 DEF RegsConsistent, Paired
  <2>4. \A q \in Reg : regObj[q] = o => o \in invalid'
    BY <1>1, <2>1, NullAssumption DEF RegsConsistent, Paired
  <2>5. \A p \in Obj \ {o} : tiling'[p] = tiling[p]
    BY <2>1 DEF StateTypes
  <2>6. invalid \subseteq invalid'
    BY <2>1
  <2>7. HwAgrees'
    BY <1>2, <2>4, <2>5, <2>6 DEF RegsConsistent, HwAgrees
  <2>. QED
    BY <2>3, <2>7 DEF RegsConsistent
<1>. QED
  BY <1>3, <1>4

\* So they agree after every step if they did before.
LEMMA RegsStep ==
    ASSUME ~Gen6, FenceInv, [Next]_vars
    PROVE  RegsConsistent'
<1>1. ASSUME NEW t \in Client, Step(t) PROVE RegsConsistent'
  <2>1. CASE GetFree(t) \/ PutClear(t) \/ SetTiling(t)
    BY <2>1, GetFreeRegs, PutClearRegs, SetTilingRegs DEF FenceInv
  <2>2. CASE ~(GetFree(t) \/ PutClear(t) \/ SetTiling(t))
    <3>1. UNCHANGED <<tiling, invalid, fence, regObj, hw>>
      BY <1>1, <2>2
      DEF Step, ReadLock, ExecLock, Hold, Bind, Flush, WaitRendering,
          Wake, Interrupt, Domain, PutFlush, PutWait, PutNone, GetOld,
          GetNone, GetSteal, GttDomain, Unbind, Return, ExecHold,
          ExecPin, ExecFlush, ExecDispatch, HoldObject, regVars
    <3>. QED
      BY <3>1, RegsFrame DEF FenceInv
  <2>. QED
    BY <2>1, <2>2
<1>2. CASE Retire \/ GpuProgress \/ UNCHANGED vars
  BY <1>2, RegsFrame DEF FenceInv, Retire, GpuProgress, vars, regVars
<1>. QED
  BY <1>1, <1>2 DEF Next

-----------------------------------------------------------------------------
\* In every state that can be reached, an object and its fence register point
\* at each other, a register in use shows its object with its tiling unless
\* set_tiling has marked it invalid, and one that was given back shows
\* nothing: whatever number of registers is stolen in whatever order
\* (i915_gem_get_fence_reg, i915_gem_object_put_fence_reg,
\* i915_gem_set_tiling), on every chip but those of the sixth and seventh
\* generation, whose registers put_fence_reg does not clear.
THEOREM RegistersAgree == ASSUME ~Gen6 PROVE Spec => []RegsConsistent
<1>1. Init => FenceInv
  <2>1. Init => ThreadObjects
    BY DEF Init, ThreadObjects, Idle, AtWork
  <2>2. Init => RegsConsistent
    BY NullAssumption DEF Init, RegsConsistent, Paired,
        HwAgrees, Off
  <2>. QED
    BY <2>1, <2>2, TypesInit DEF FenceInv
<1>2. FenceInv /\ [Next]_vars => FenceInv'
  BY TypesStep, ObjectsStep, RegsStep DEF FenceInv
<1>3. FenceInv => RegsConsistent
  BY DEF FenceInv
<1>. QED
  BY <1>1, <1>2, <1>3, PTL DEF Spec

-----------------------------------------------------------------------------
\* Sequences without repetitions.

\* A sequence names r, and names nothing twice.
Named(s, r) == \E i \in DOMAIN s : s[i] = r
Once(s) == \A i, j \in DOMAIN s : s[i] = s[j] => i = j

\* In a sequence without repetitions, the first place of a value is its place.
LEMMA FirstPlace ==
  ASSUME NEW R, NEW s \in Seq(R), NEW i \in 1..Len(s), Once(s)
  PROVE  RemoveFirst(s, s[i]) = RemoveAt(s, i)
<1>1. SelectInSeq(s, LAMBDA v : v = s[i]) = i
  <2>1. {j \in 1..Len(s) : s[j] = s[i]} = {i}
    BY DEF Once
  <2>2. Min({i}) = i
    BY DEF Min
  <2> QED
    BY <2>1, <2>2 DEF SelectInSeq
<1> QED
  BY <1>1 DEF RemoveFirst

\* Taking one place out of such a sequence leaves the others (TAILQ_REMOVE).
LEMMA Dropped ==
  ASSUME NEW R, NEW s \in Seq(R), NEW i \in 1..Len(s), Once(s)
  PROVE  LET d == RemoveAt(s, i) IN
         /\ d \in Seq(R) /\ Once(d)
         /\ \A r : Named(d, r) <=> Named(s, r) /\ r # s[i]
<1> DEFINE d == RemoveAt(s, i)
<1>a. Len(s) \in Nat /\ i \in Nat /\ 1 <= i /\ i <= Len(s)
  OBVIOUS
<1> DEFINE a == SubSeq(s, 1, i - 1)
             b == SubSeq(s, i + 1, Len(s))
<1>b. \A j \in 1..Len(s) : s[j] \in R
  OBVIOUS
<1>c. /\ a \in Seq(R) /\ Len(a) = i - 1
      /\ \A j \in 1..(i - 1) : a[j] = s[j]
  BY <1>a, <1>b, SubSeqProperties
<1>d. /\ b \in Seq(R) /\ Len(b) = Len(s) - i
      /\ \A j \in 1..(Len(s) - i) : b[j] = s[i + j]
  BY <1>a, <1>b, SubSeqProperties
<1>e. d = a \o b
  BY DEF RemoveAt
<1>1. /\ d \in Seq(R) /\ Len(d) = Len(s) - 1
      /\ \A j \in 1..(Len(s) - 1) : d[j] = IF j < i THEN s[j] ELSE s[j + 1]
  <2>1. /\ a \o b \in Seq(R) /\ Len(a \o b) = Len(a) + Len(b)
        /\ \A j \in 1..(Len(a) + Len(b)) :
             (a \o b)[j] = IF j <= Len(a) THEN a[j] ELSE b[j - Len(a)]
    BY <1>c, <1>d, ConcatProperties
  <2> HIDE DEF a, b, d
  <2>2. Len(a) + Len(b) = Len(s) - 1
    BY <1>a, <1>c, <1>d
  <2>3. ASSUME NEW j \in 1..(Len(s) - 1)
        PROVE  d[j] = IF j < i THEN s[j] ELSE s[j + 1]
    <3>1. CASE j < i
      <4>1. j \in 1..(i - 1)
        BY <1>a, <3>1
      <4> QED
        BY <1>a, <1>c, <1>e, <2>1, <2>2, <3>1, <4>1
    <3>2. CASE ~(j < i)
      <4>1. j - (i - 1) \in 1..(Len(s) - i) /\ i + (j - (i - 1)) = j + 1
        BY <1>a, <3>2
      <4>2. d[j] = b[j - (i - 1)]
        BY <1>a, <1>c, <1>e, <2>1, <2>2, <3>2
      <4> QED
        BY <1>d, <3>2, <4>1, <4>2
    <3> QED
      BY <3>1, <3>2
  <2> QED
    BY <1>e, <2>1, <2>2, <2>3
<1>2. DOMAIN d = 1..(Len(s) - 1) /\ DOMAIN s = 1..Len(s)
  BY <1>1
<1>3. Len(s) \in Nat
  OBVIOUS
<1> HIDE DEF d
<1>4. Once(d)
  <2>1. ASSUME NEW j \in 1..(Len(s) - 1), NEW k \in 1..(Len(s) - 1),
               d[j] = d[k]
        PROVE  j = k
    <3>1. \A m, n \in 1..Len(s) : s[m] = s[n] => m = n
      BY <1>2 DEF Once
    <3> QED
      BY <1>1, <1>3, <2>1, <3>1
  <2> QED
    BY <1>2, <2>1 DEF Once
<1>5. ASSUME NEW r, Named(d, r) PROVE Named(s, r) /\ r # s[i]
  <2>1. PICK j \in 1..(Len(s) - 1) : d[j] = r
    BY <1>2, <1>5 DEF Named
  <2>2. CASE j < i
    BY <1>1, <1>2, <1>3, <2>1, <2>2 DEF Named, Once
  <2>3. CASE ~(j < i)
    BY <1>1, <1>2, <1>3, <2>1, <2>3 DEF Named, Once
  <2> QED
    BY <2>2, <2>3
<1>6. ASSUME NEW r, Named(s, r), r # s[i] PROVE Named(d, r)
  <2>1. PICK j \in 1..Len(s) : s[j] = r
    BY <1>2, <1>6 DEF Named
  <2>2. CASE j < i
    <3>1. j \in 1..(Len(s) - 1) /\ d[j] = r
      BY <1>1, <1>3, <2>1, <2>2
    <3> QED
      BY <1>2, <3>1 DEF Named
  <2>3. CASE j > i
    <3>1. j - 1 \in 1..(Len(s) - 1) /\ d[j - 1] = r
      BY <1>1, <1>3, <2>1, <2>3
    <3> QED
      BY <1>2, <3>1 DEF Named
  <2> QED
    BY <1>6, <2>1, <2>2, <2>3
<1> QED
  BY <1>1, <1>4, <1>5, <1>6 DEF d

\* Appending what it does not name keeps it free of repetitions
\* (TAILQ_INSERT_TAIL).
LEMMA Added ==
  ASSUME NEW R, NEW s \in Seq(R), Once(s), NEW x \in R, ~Named(s, x)
  PROVE  /\ Append(s, x) \in Seq(R) /\ Once(Append(s, x))
         /\ \A r : Named(Append(s, x), r) <=> Named(s, r) \/ r = x
<1> DEFINE d == Append(s, x)
<1>1. /\ d \in Seq(R) /\ Len(d) = Len(s) + 1 /\ d[Len(s) + 1] = x
      /\ \A j \in 1..Len(s) : d[j] = s[j]
  OBVIOUS
<1>2. DOMAIN d = 1..(Len(s) + 1) /\ DOMAIN s = 1..Len(s) /\ Len(s) \in Nat
  BY <1>1
<1> HIDE DEF d
<1>3. Once(d)
  BY <1>1, <1>2 DEF Once, Named
<1>4. ASSUME NEW r PROVE Named(d, r) <=> Named(s, r) \/ r = x
  BY <1>1, <1>2 DEF Named
<1> QED
  BY <1>1, <1>3, <1>4 DEF d

\* An enumeration of what a sequence names names the same, once each.
LEMMA Reordered ==
  ASSUME NEW R, NEW s \in Seq(R), NEW d \in SetToSeqs(ToSet(s))
  PROVE  /\ d \in Seq(R) /\ Once(d)
         /\ \A r : Named(d, r) <=> Named(s, r)
<1> DEFINE S == ToSet(s)
           n == Cardinality(S)
<1>1. S \subseteq R
  BY DEF ToSet
<1>2. IsFiniteSet(S)
  <2>1. IsFiniteSet(1..Len(s))
    BY FS_Interval
  <2>2. s \in Surjection(1..Len(s), S)
    BY DEF ToSet, Surjection
  <2> QED
    BY <2>1, <2>2, FS_Surjection
<1>3. n \in Nat
  BY <1>2, FS_CardinalityType
<1>4. d \in [1..n -> S] /\ \A i, j \in 1..n : i # j => d[i] # d[j]
  BY DEF SetToSeqs
<1>5. IsFiniteSet(1..n) /\ Cardinality(1..n) = n
  BY <1>3, FS_Interval
<1>6. \A r \in S : \E i \in 1..n : d[i] = r
  <2>1. d \in Injection(1..n, S)
    BY <1>4 DEF Injection, IsInjective
  <2> QED
    <3>1. d \in Surjection(1..n, S)
      BY <1>2, <1>5, <2>1, FS_Injection
    <3> QED
      BY <3>1 DEF Surjection
<1>7. d \in Seq(R)
  BY <1>1, <1>3, <1>4
<1>8. DOMAIN d = 1..n /\ DOMAIN s = 1..Len(s)
  BY <1>4
<1>9. \A r : r \in S <=> Named(s, r)
  BY <1>8 DEF Named, ToSet
<1> HIDE DEF S, n
<1>10. \A r : Named(d, r) <=> r \in S
  BY <1>4, <1>6, <1>8 DEF Named
<1>11. Once(d)
  BY <1>4, <1>8 DEF Once
<1> QED
  BY <1>7, <1>9, <1>10, <1>11

-----------------------------------------------------------------------------
\* The parts of the inductive invariant.

\* The thread holds a victim whose fence it gives back (put_fence_reg).
GivingBack(t) ==
    \/ th[t].pc \in {"put", "clear"}
    \/ th[t].pc = "wait" /\ th[t].victim # NoObj

\* The thread builds an execbuffer.
Executes(t) == th[t].op = "exec"
\* It works on an object of its batch, which is not pinned yet.
InBatch(t) == Executes(t) /\ th[t].pc \notin {"pick", "dispatch"}

\* Where a thread may be: the writer of dev_lock is execbuffer, or on its way
\* out; what follows the flush of an object has no victim before the wait for
\* its fence.
Place(t) ==
    /\ Executes(t) => /\ drmW = t
                      /\ th[t].pc \in {"pick", "wait", "put", "clear", "get",
                                       "pin", "dispatch"}
    /\ drmW = t => Executes(t) \/ th[t].pc = "out"
    /\ th[t].pc \in {"pick", "pin", "dispatch"} => Executes(t)
    /\ th[t].pc \in {"bind", "flush"} => th[t].victim = NoObj
    /\ th[t].pc = "unbind" => th[t].op = "unbind"
    /\ Executes(t) /\ th[t].pc = "wait" => th[t].victim # NoObj
Places == \A t \in Client : Place(t)

\* A thread holds the object it works on and its victim, and neither is pinned
\* in its own batch.
HoldsOwn(t) ==
    /\ th[t].pc \in AtWork \ {"hold"} => held[th[t].obj] = t
    /\ GivingBack(t) => held[th[t].victim] = t
    /\ InBatch(t) => th[t].obj \notin batch.pinned
    /\ Executes(t) /\ GivingBack(t) => th[t].victim \notin batch.pinned

\* So do all, and the writer holds everything that is pinned.
Holds ==
    /\ \A t \in Client : HoldsOwn(t)
    /\ \A o \in batch.pinned : drmW \in Client /\ held[o] = drmW

\* Where a thread is once it has flushed its object.
AfterFlush == {"wait", "domain", "put", "clear", "get", "gtt", "gtt_err",
               "unbind"}
\* The wait for the object itself, not for a victim's fence.
Waits(t) == th[t].pc = "wait" /\ th[t].victim = NoObj

\* From its flush on, nobody writes the object with the GPU; once the wait is
\* over nothing is to be rendered to it either, which a thread that only reads
\* does not wait for.
Quiet(t) ==
    LET o == th[t].obj IN
    ~Executes(t) /\ th[t].pc \in AfterFlush =>
      /\ wd[o] # "GPU"
      /\ th[t].op \notin GttReadOps =>
           IF Waits(t) THEN lrs[o] <= th[t].seq ELSE lrs[o] = 0

\* From the flush of put_fence_reg on, the victim keeps its register and no
\* fenced rendering to it starts; when the register is cleared the GPU has
\* passed all that used it.
GivesBack(t) ==
    LET v == th[t].victim IN
    GivingBack(t) /\ th[t].pc # "put" =>
      /\ fence[v] # NoReg
      /\ ~(v \in fenced /\ wd[v] = "GPU")
      /\ th[t].pc = "wait" => regSeq[fence[v]] <= th[t].seq
      /\ th[t].pc = "clear" => regSeq[fence[v]] <= hwSeqno /\ v \notin fenced

\* An object past the look at its fence flag is not marked invalid, and past
\* get_fence_reg it has a register if it needs one.
Valid(t) ==
    LET o == th[t].obj IN
    /\ \/ th[t].pc \in {"get", "gtt", "gtt_err", "pin"}
       \/ GivingBack(t) /\ th[t].victim # o
       => o \notin invalid
    /\ th[t].pc = "gtt" /\ tiling[o] # Linear => fence[o] # NoReg
    /\ InBatch(t) /\ o \in batch.needs => tiling[o] # Linear
    /\ th[t].pc = "pin" /\ o \in batch.needs => fence[o] # NoReg

\* What asks for a fence is still to be looked at, being worked on or pinned,
\* and nothing is still to be looked at when the batch is dispatched.
Covers(t) ==
    Executes(t) =>
      /\ \A o \in batch.needs : \/ o \in batch.todo \cup batch.pinned
                                \/ InBatch(t) /\ th[t].obj = o
      /\ th[t].pc = "dispatch" => batch.todo = {}

\* What is pinned has the fence it asked for, and a valid one.
Pinned ==
    \A o \in batch.pinned :
      /\ o \notin invalid
      /\ o \in batch.needs => fence[o] # NoReg

\* A register shows its object, with its tiling unless it is marked invalid; a
\* linear object keeps a register only if marked so.  (This half of HwAgrees
\* needs nothing of put_fence_reg, and holds on every chip.)
Shown ==
    /\ \A r \in Reg : regObj[r] \in Obj =>
         /\ hw[r].obj = regObj[r]
         /\ regObj[r] \notin invalid => hw[r].tiling = tiling[regObj[r]]
    /\ \A o \in Obj :
         /\ o \in invalid => fence[o] # NoReg
         /\ fence[o] # NoReg /\ tiling[o] = Linear => o \in invalid

\* Every seqno that was given out is below the next one.
Numbers ==
    /\ hwSeqno < nextSeqno
    /\ \A r \in Reg : regSeq[r] < nextSeqno
    /\ \A s \in requests : 0 < s /\ s < nextSeqno

\* An object that waits for a seqno is active, on a request that is still
\* listed; a fenced one has a register that carries the seqno of the object;
\* and a register the GPU may still use is one whose object is at least as
\* late.
OnBook(o) ==
    /\ lrs[o] # 0 => /\ lrs[o] \in requests
                     /\ o \in active /\ wd[o] \in {"none", "GPU"}
    /\ o \in fenced => /\ fence[o] # NoReg
                       /\ regSeq[fence[o]] = lrs[o]
                       /\ wd[o] = "GPU" \/ lrs[o] # 0
    /\ fence[o] # NoReg /\ regSeq[fence[o]] > hwSeqno =>
         regSeq[fence[o]] <= lrs[o]

\* So is every object.
OnBooks == \A o \in Obj : OnBook(o)

\* The GPU is past every batch that used a register which belongs to nobody.
FreeIdle == \A r \in Reg : regObj[r] = NoObj => regSeq[r] <= hwSeqno

\* Every fence a queued batch relies on belongs to its object, and its register
\* is not free for the seqno of that batch.
Used ==
    \A u \in uses :
      /\ u.reg \in Reg /\ u.obj \in Obj
      /\ u.seq \in Nat /\ u.tiling \in Tiling \cup {Linear}
      /\ hwSeqno < u.seq /\ u.seq <= regSeq[u.reg]
      /\ regObj[u.reg] = u.obj

-----------------------------------------------------------------------------
\* What the steps do.

\* What a thread that does not hold o may do to it: flush it, retire it, and
\* nothing else.
Same(o) ==
    /\ held'[o] = held[o] /\ fence'[o] = fence[o] /\ tiling'[o] = tiling[o]
    /\ o \in invalid' <=> o \in invalid
    /\ o \in fenced' => o \in fenced
    /\ wd'[o] = wd[o] \/ (wd[o] = "GPU" /\ wd'[o] = "none")
    /\ wd[o] # "GPU" => lrs'[o] \in {lrs[o], 0}
    /\ fence[o] # NoReg /\ ~(o \in fenced /\ wd[o] = "GPU") =>
         regSeq'[fence[o]] \in {regSeq[fence[o]], 0}

\* What a flush does to each object and register.
FlushEffect ==
    /\ nextSeqno' = nextSeqno + 1 /\ requests' = requests \cup {nextSeqno}
    /\ fenced' = fenced
    /\ \A o \in Obj :
         IF wd[o] = "GPU"
         THEN lrs'[o] = nextSeqno /\ wd'[o] = "none" /\ o \in active'
         ELSE /\ lrs'[o] = lrs[o] /\ wd'[o] = wd[o]
              /\ o \in active => o \in active'
    /\ \A r \in Reg :
         IF \E o \in fenced : wd[o] = "GPU" /\ fence[o] = r
         THEN regSeq'[r] = nextSeqno ELSE regSeq'[r] = regSeq[r]

\* GpuFlush does that.
LEMMA Flushed ==
  ASSUME StateTypes, GpuFlush
  PROVE  FlushEffect
<1>1. /\ nextSeqno' = nextSeqno + 1 /\ requests' = requests \cup {nextSeqno}
      /\ fenced' = fenced
  BY DEF GpuFlush, AddRequest
<1>2. ASSUME NEW o \in Obj
      PROVE  IF wd[o] = "GPU"
             THEN lrs'[o] = nextSeqno /\ wd'[o] = "none" /\ o \in active'
             ELSE /\ lrs'[o] = lrs[o] /\ wd'[o] = wd[o]
                  /\ o \in active => o \in active'
  BY <1>2 DEF GpuFlush, MoveToActive, Rendered
<1>3. ASSUME NEW r \in Reg
      PROVE  IF \E o \in fenced : wd[o] = "GPU" /\ fence[o] = r
             THEN regSeq'[r] = nextSeqno ELSE regSeq'[r] = regSeq[r]
  <2>1. (\E o \in Rendered \cap fenced : fence[o] = r)
          <=> (\E o \in fenced : wd[o] = "GPU" /\ fence[o] = r)
    BY DEF StateTypes, Rendered
  <2> QED
    BY <2>1, <1>3 DEF GpuFlush, MoveToActive
<1> QED
  BY <1>1, <1>2, <1>3 DEF FlushEffect

\* What the end of an execbuffer does to each object and register.
DispatchEffect ==
    /\ nextSeqno' = nextSeqno + 1 /\ requests' = requests \cup {nextSeqno}
    /\ \A o \in Obj :
         IF o \in batch.pinned
         THEN /\ lrs'[o] = nextSeqno /\ wd'[o] \in {"GPU", "none"}
              /\ o \in active' /\ (o \in fenced' <=> o \in batch.needs)
         ELSE /\ lrs'[o] = lrs[o] /\ wd'[o] = wd[o]
              /\ (o \in fenced' <=> o \in fenced)
              /\ (o \in active => o \in active')
    /\ \A r \in Reg :
         IF \E o \in batch.pinned \cap batch.needs : fence[o] = r
         THEN regSeq'[r] = nextSeqno ELSE regSeq'[r] = regSeq[r]

\* ExecDispatch does that.
LEMMA Dispatched ==
  ASSUME StateTypes, NEW t \in Client, ExecDispatch(t)
  PROVE  DispatchEffect
<1>1. /\ nextSeqno' = nextSeqno + 1 /\ requests' = requests \cup {nextSeqno}
  BY DEF ExecDispatch, AddRequest
<1>2. ASSUME NEW o \in Obj
      PROVE  IF o \in batch.pinned
             THEN /\ lrs'[o] = nextSeqno /\ wd'[o] \in {"GPU", "none"}
                  /\ o \in active' /\ (o \in fenced' <=> o \in batch.needs)
             ELSE /\ lrs'[o] = lrs[o] /\ wd'[o] = wd[o]
                  /\ (o \in fenced' <=> o \in fenced)
                  /\ (o \in active => o \in active')
  BY <1>2 DEF ExecDispatch, MoveToActive
<1>3. ASSUME NEW r \in Reg
      PROVE  IF \E o \in batch.pinned \cap batch.needs : fence[o] = r
             THEN regSeq'[r] = nextSeqno ELSE regSeq'[r] = regSeq[r]
  <2>1. /\ fenced' = (fenced \ batch.pinned)
                       \cup (batch.needs \cap batch.pinned)
        /\ regSeq' = [q \in Reg |->
             IF \E o \in batch.pinned \cap fenced' : fence[o] = q
             THEN nextSeqno ELSE regSeq[q]]
    BY DEF ExecDispatch, MoveToActive
  <2>2. batch.pinned \cap fenced' = batch.pinned \cap batch.needs
    BY <2>1
  <2> QED
    BY <2>1, <2>2, <1>3
<1> QED
  BY <1>1, <1>2, <1>3 DEF DispatchEffect

\* What the retirement of request n does to each object and register.
RetireEffect(n) ==
    /\ n \in requests /\ n <= hwSeqno
    /\ requests' = requests \ {n} /\ nextSeqno' = nextSeqno /\ wd' = wd
    /\ \A o \in Obj :
         IF lrs[o] = n
         THEN /\ lrs'[o] = 0
              /\ o \in fenced' <=> o \in fenced /\ wd[o] # "none"
         ELSE /\ lrs'[o] = lrs[o] /\ (o \in fenced' <=> o \in fenced)
              /\ o \in active => o \in active'
    /\ \A r \in Reg :
         IF \E o \in Obj : lrs[o] = n /\ fence[o] = r
         THEN regSeq'[r] = 0 ELSE regSeq'[r] = regSeq[r]

\* Retire does that for some request.
LEMMA Retired ==
  ASSUME StateTypes, Retire
  PROVE  \E n \in requests : RetireEffect(n)
<1>1. PICK n \in requests :
        LET done == {o \in Obj : lrs[o] = n}
            idle == {o \in done : wd[o] = "none"} IN
        /\ n <= hwSeqno
        /\ requests' = requests \ {n}
        /\ active' = active \ idle
        /\ fenced' = fenced \ idle
        /\ lrs' = [o \in Obj |-> IF o \in done THEN 0 ELSE lrs[o]]
        /\ regSeq' = [q \in Reg |-> IF \E o \in done : fence[o] = q THEN 0
                                    ELSE regSeq[q]]
  BY DEF Retire, RetireRequest, StillFenced
<1>2. nextSeqno' = nextSeqno /\ wd' = wd
  BY DEF Retire, domVars
<1>3. ASSUME NEW o \in Obj
      PROVE  IF lrs[o] = n
             THEN /\ lrs'[o] = 0
                  /\ o \in fenced' <=> o \in fenced /\ wd[o] # "none"
             ELSE /\ lrs'[o] = lrs[o] /\ (o \in fenced' <=> o \in fenced)
                  /\ o \in active => o \in active'
  BY <1>1, <1>3
<1>4. ASSUME NEW r \in Reg
      PROVE  IF \E o \in Obj : lrs[o] = n /\ fence[o] = r
             THEN regSeq'[r] = 0 ELSE regSeq'[r] = regSeq[r]
  BY <1>1, <1>4
<1> QED
  BY <1>1, <1>2, <1>3, <1>4 DEF RetireEffect

\* A step of t leaves every other thread where it is.
LEMMA OnlyOneMoves ==
  ASSUME NEW t \in Client, th \in [Client -> ThreadState], Step(t)
  PROVE  \A s \in Client \ {t} : th'[s] = th[s]
<1>1. CASE ReadLock(t)
  BY <1>1 DEF ReadLock, Ready
<1>2. CASE ExecLock(t)
  BY <1>2 DEF ExecLock, Ready
<1>3. CASE Hold(t)
  BY <1>3 DEF Hold, HoldObject, Ready
<1>4. CASE Bind(t)
  BY <1>4 DEF Bind, Goto, Finish
<1>5. CASE Flush(t)
  BY <1>5 DEF Flush
<1>6. CASE WaitRendering(t)
  BY <1>6 DEF WaitRendering
<1>7. CASE Wake(t)
  BY <1>7 DEF Wake
<1>8. CASE Interrupt(t)
  BY <1>8 DEF Interrupt, Finish
<1>9. CASE Domain(t)
  BY <1>9 DEF Domain, LeaveGtt
<1>10. CASE PutFlush(t)
  BY <1>10 DEF PutFlush
<1>11. CASE PutWait(t)
  BY <1>11 DEF PutWait
<1>12. CASE PutNone(t)
  BY <1>12 DEF PutNone, PutDone
<1>13. CASE PutClear(t)
  BY <1>13 DEF PutClear, PutDone, LeaveGtt
<1>14. CASE GetOld(t)
  BY <1>14 DEF GetOld, Got, Goto, Finish
<1>15. CASE GetFree(t)
  BY <1>15 DEF GetFree, Search, Got, Goto, Finish
<1>16. CASE GetNone(t)
  BY <1>16 DEF GetNone, Search, Got, Goto, Finish
<1>17. CASE GetSteal(t)
  BY <1>17 DEF GetSteal, Search
<1>18. CASE GttDomain(t)
  BY <1>18 DEF GttDomain, Finish
<1>19. CASE Unbind(t)
  BY <1>19 DEF Unbind, Finish
<1>20. CASE SetTiling(t)
  BY <1>20 DEF SetTiling, Finish
<1>21. CASE Return(t)
  BY <1>21 DEF Return
<1>22. CASE ExecHold(t)
  BY <1>22 DEF ExecHold, Finish
<1>23. CASE ExecPin(t)
  BY <1>23 DEF ExecPin
<1>24. CASE ExecFlush(t)
  BY <1>24 DEF ExecFlush, Goto
<1>25. CASE ExecDispatch(t)
  BY <1>25 DEF ExecDispatch, Finish
<1> QED
  BY <1>1, <1>2, <1>3, <1>4, <1>5, <1>6, <1>7, <1>8, <1>9, <1>10, <1>11,
     <1>12, <1>13, <1>14, <1>15, <1>16, <1>17, <1>18, <1>19, <1>20, <1>21,
     <1>22, <1>23, <1>24, <1>25 DEF Step

\* Only the writer of dev_lock touches the batch.
LEMMA BatchKept ==
  ASSUME NEW t \in Client, Places, Step(t)
  PROVE  drmW \in Client \ {t} => batch' = batch /\ drmW' = drmW
<1>0. Place(t) /\ NoThread \notin Client
  BY NullAssumption DEF Places
<1>1. CASE ReadLock(t)
  BY <1>1, <1>0 DEF ReadLock, Ready, lockVars, Place
<1>2. CASE ExecLock(t)
  BY <1>2, <1>0 DEF ExecLock, Ready, lockVars, Place
<1>3. CASE Hold(t)
  BY <1>3, <1>0 DEF Hold, HoldObject, Ready, lockVars, Place
<1>4. CASE Bind(t)
  BY <1>4, <1>0 DEF Bind, Goto, Finish, lockVars, Place
<1>5. CASE Flush(t)
  BY <1>5, <1>0 DEF Flush, lockVars, Place
<1>6. CASE WaitRendering(t)
  BY <1>6, <1>0 DEF WaitRendering, lockVars, Place
<1>7. CASE Wake(t)
  BY <1>7, <1>0 DEF Wake, lockVars, Place
<1>8. CASE Interrupt(t)
  BY <1>8, <1>0 DEF Interrupt, Finish, lockVars, Place
<1>9. CASE Domain(t)
  BY <1>9, <1>0 DEF Domain, LeaveGtt, lockVars, Place
<1>10. CASE PutFlush(t)
  BY <1>10, <1>0 DEF PutFlush, lockVars, Place
<1>11. CASE PutWait(t)
  BY <1>11, <1>0 DEF PutWait, lockVars, Place
<1>12. CASE PutNone(t)
  BY <1>12, <1>0 DEF PutNone, PutDone, lockVars, Place
<1>13. CASE PutClear(t)
  BY <1>13, <1>0 DEF PutClear, PutDone, LeaveGtt, lockVars, Place
<1>14. CASE GetOld(t)
  BY <1>14, <1>0 DEF GetOld, Got, Goto, Finish, lockVars, Place
<1>15. CASE GetFree(t)
  BY <1>15, <1>0 DEF GetFree, Search, Got, Goto, Finish, lockVars, Place
<1>16. CASE GetNone(t)
  BY <1>16, <1>0 DEF GetNone, Search, Got, Goto, Finish, lockVars, Place
<1>17. CASE GetSteal(t)
  BY <1>17, <1>0 DEF GetSteal, Search, lockVars, Place
<1>18. CASE GttDomain(t)
  BY <1>18, <1>0 DEF GttDomain, Finish, lockVars, Place
<1>19. CASE Unbind(t)
  BY <1>19, <1>0 DEF Unbind, Finish, lockVars, Place
<1>20. CASE SetTiling(t)
  BY <1>20, <1>0 DEF SetTiling, Finish, lockVars, Place
<1>21. CASE Return(t)
  BY <1>21, <1>0 DEF Return, lockVars, Place
<1>22. CASE ExecHold(t)
  BY <1>22, <1>0 DEF ExecHold, Finish, lockVars, Place
<1>23. CASE ExecPin(t)
  BY <1>23, <1>0 DEF ExecPin, lockVars, Place
<1>24. CASE ExecFlush(t)
  BY <1>24, <1>0 DEF ExecFlush, Goto, lockVars, Place
<1>25. CASE ExecDispatch(t)
  BY <1>25, <1>0 DEF ExecDispatch, Finish, lockVars, Place
<1> QED
  BY <1>1, <1>2, <1>3, <1>4, <1>5, <1>6, <1>7, <1>8, <1>9, <1>10, <1>11,
     <1>12, <1>13, <1>14, <1>15, <1>16, <1>17, <1>18, <1>19, <1>20, <1>21,
     <1>22, <1>23, <1>24, <1>25 DEF Step

\* Only t itself takes the write lock for t, and only its writer gives it up.
LEMMA WriterMoves ==
  ASSUME NEW t \in Client, drmW \in Client \cup {NoThread}, Step(t)
  PROVE  drmW' \in {drmW, t} \/ (drmW = t /\ drmW' = NoThread)
<1>1. CASE ReadLock(t)
  BY <1>1 DEF ReadLock, Ready, lockVars
<1>2. CASE ExecLock(t)
  BY <1>2 DEF ExecLock, Ready, lockVars
<1>3. CASE Hold(t)
  BY <1>3 DEF Hold, HoldObject, Ready, lockVars
<1>4. CASE Bind(t)
  BY <1>4 DEF Bind, Goto, Finish, lockVars
<1>5. CASE Flush(t)
  BY <1>5 DEF Flush, lockVars
<1>6. CASE WaitRendering(t)
  BY <1>6 DEF WaitRendering, lockVars
<1>7. CASE Wake(t)
  BY <1>7 DEF Wake, lockVars
<1>8. CASE Interrupt(t)
  BY <1>8 DEF Interrupt, Finish, lockVars
<1>9. CASE Domain(t)
  BY <1>9 DEF Domain, LeaveGtt, lockVars
<1>10. CASE PutFlush(t)
  BY <1>10 DEF PutFlush, lockVars
<1>11. CASE PutWait(t)
  BY <1>11 DEF PutWait, lockVars
<1>12. CASE PutNone(t)
  BY <1>12 DEF PutNone, PutDone, lockVars
<1>13. CASE PutClear(t)
  BY <1>13 DEF PutClear, PutDone, LeaveGtt, lockVars
<1>14. CASE GetOld(t)
  BY <1>14 DEF GetOld, Got, Goto, Finish, lockVars
<1>15. CASE GetFree(t)
  BY <1>15 DEF GetFree, Search, Got, Goto, Finish, lockVars
<1>16. CASE GetNone(t)
  BY <1>16 DEF GetNone, Search, Got, Goto, Finish, lockVars
<1>17. CASE GetSteal(t)
  BY <1>17 DEF GetSteal, Search, lockVars
<1>18. CASE GttDomain(t)
  BY <1>18 DEF GttDomain, Finish, lockVars
<1>19. CASE Unbind(t)
  BY <1>19 DEF Unbind, Finish, lockVars
<1>20. CASE SetTiling(t)
  BY <1>20 DEF SetTiling, Finish, lockVars
<1>21. CASE Return(t)
  BY <1>21 DEF Return, lockVars
<1>22. CASE ExecHold(t)
  BY <1>22 DEF ExecHold, Finish, lockVars
<1>23. CASE ExecPin(t)
  BY <1>23 DEF ExecPin, lockVars
<1>24. CASE ExecFlush(t)
  BY <1>24 DEF ExecFlush, Goto, lockVars
<1>25. CASE ExecDispatch(t)
  BY <1>25 DEF ExecDispatch, Finish, lockVars
<1> QED
  BY <1>1, <1>2, <1>3, <1>4, <1>5, <1>6, <1>7, <1>8, <1>9, <1>10, <1>11,
     <1>12, <1>13, <1>14, <1>15, <1>16, <1>17, <1>18, <1>19, <1>20, <1>21,
     <1>22, <1>23, <1>24, <1>25 DEF Step

\* The rely condition of a hold: as long as a thread holds an object, a step of
\* any other thread leaves it its fence, its tiling and its flag, and starts no
\* rendering to it.
LEMMA Undisturbed ==
  ASSUME NEW t \in Client, StateTypes, ThreadObjects, Paired, Places,
     Holds, NEW o \in Obj, held[o] \in Client, held[o] # t, Step(t)
  PROVE  Same(o)
<1> USE DEF gttVars, domVars
<1>0. /\ StateTypes /\ Paired
      /\ held \in [Obj -> Client \cup {NoThread}]
      /\ wd \in [Obj -> {"none", "CPU", "GTT", "GPU"}]
      /\ fence \in [Obj -> Reg \cup {NoReg}]
      /\ tiling \in [Obj -> Tiling \cup {Linear}]
      /\ fence[o] \in Reg \cup {NoReg} /\ batch.pinned \subseteq Obj
      /\ batch.needs \subseteq Obj
      /\ fenced \subseteq Obj
      /\ held[o] # t /\ held[o] # NoThread /\ HoldsOwn(t) /\ Place(t)
      /\ th[t].pc \in AtWork => th[t].obj \in Obj
      /\ th[t].pc \in {"put", "clear"} => th[t].victim \in Obj
      /\ drmW = t => o \notin batch.pinned
      /\ t # NoThread
  BY NullAssumption DEF StateTypes, ThreadObjects, Holds, Places
<1>1. CASE ReadLock(t)
  BY <1>1, <1>0 DEF ReadLock, Ready, listVars, regVars, lockVars, Same,
     HoldsOwn, GivingBack, AtWork
<1>2. CASE ExecLock(t)
  BY <1>2, <1>0 DEF ExecLock, Ready, listVars, regVars, lockVars, Same,
     HoldsOwn, GivingBack, AtWork
<1>3. CASE Hold(t)
  BY <1>3, <1>0 DEF Hold, HoldObject, Ready, listVars, regVars, lockVars,
     Same, HoldsOwn, GivingBack, AtWork
<1>4. CASE Bind(t)
  BY <1>4, <1>0 DEF Bind, Goto, Finish, listVars, regVars, lockVars, Same,
     HoldsOwn, GivingBack, AtWork
<1>5. CASE Flush(t)
  <2>1. GpuFlush /\ UNCHANGED <<held, fence, tiling, invalid>>
    BY <1>5 DEF Flush, lockVars
  <2>2. FlushEffect
    BY <1>0, <2>1, Flushed
  <2>3. fence[o] # NoReg /\ ~(o \in fenced /\ wd[o] = "GPU") =>
          regSeq'[fence[o]] = regSeq[fence[o]]
    BY <1>0, <2>2 DEF FlushEffect, Paired
  <2> QED
    BY <2>1, <2>2, <2>3 DEF FlushEffect, Same
<1>6. CASE WaitRendering(t)
  BY <1>6, <1>0 DEF WaitRendering, listVars, regVars, lockVars, Same,
     HoldsOwn, GivingBack, AtWork
<1>7. CASE Wake(t)
  BY <1>7, <1>0 DEF Wake, listVars, regVars, lockVars, Same, HoldsOwn,
     GivingBack, AtWork
<1>8. CASE Interrupt(t)
  BY <1>8, <1>0 DEF Interrupt, Finish, listVars, regVars, lockVars, Same,
     HoldsOwn, GivingBack, AtWork
<1>9. CASE Domain(t)
  BY <1>9, <1>0 DEF Domain, LeaveGtt, listVars, regVars, lockVars, Same,
     HoldsOwn, GivingBack, AtWork
<1>10. CASE PutFlush(t)
  <2>1. GpuFlush /\ UNCHANGED <<held, fence, tiling, invalid>>
    BY <1>10 DEF PutFlush, lockVars
  <2>2. FlushEffect
    BY <1>0, <2>1, Flushed
  <2>3. fence[o] # NoReg /\ ~(o \in fenced /\ wd[o] = "GPU") =>
          regSeq'[fence[o]] = regSeq[fence[o]]
    BY <1>0, <2>2 DEF FlushEffect, Paired
  <2> QED
    BY <2>1, <2>2, <2>3 DEF FlushEffect, Same
<1>11. CASE PutWait(t)
  BY <1>11, <1>0 DEF PutWait, listVars, regVars, lockVars, Same, HoldsOwn,
     GivingBack, AtWork
<1>12. CASE PutNone(t)
  BY <1>12, <1>0 DEF PutNone, PutDone, listVars, regVars, lockVars, Same,
     HoldsOwn, GivingBack, AtWork
<1>13. CASE PutClear(t)
  BY <1>13, <1>0 DEF PutClear, PutDone, LeaveGtt, listVars, regVars,
     lockVars, Same, HoldsOwn, GivingBack, AtWork
<1>14. CASE GetOld(t)
  BY <1>14, <1>0 DEF GetOld, Got, Goto, Finish, listVars, regVars,
     lockVars, Same, HoldsOwn, GivingBack, AtWork
<1>15. CASE GetFree(t)
  BY <1>15, <1>0 DEF GetFree, Search, Got, Goto, Finish, listVars, regVars,
     lockVars, Same, HoldsOwn, GivingBack, AtWork
<1>16. CASE GetNone(t)
  BY <1>16, <1>0 DEF GetNone, Search, Got, Goto, Finish, listVars, regVars,
     lockVars, Same, HoldsOwn, GivingBack, AtWork
<1>17. CASE GetSteal(t)
  <2>1. PICK r \in Reg : /\ regObj[r] \in Obj /\ held[regObj[r]] = NoThread
                         /\ held' = [held EXCEPT ![regObj[r]] = t]
    BY <1>17, <1>0, NullAssumption DEF GetSteal, Oldest, MayTake, StateTypes
  <2>2. o # regObj[r]
    BY <1>0, <2>1
  <2> QED
    BY <1>17, <1>0, <2>1, <2>2 DEF GetSteal, listVars, regVars, Same
<1>18. CASE GttDomain(t)
  BY <1>18, <1>0 DEF GttDomain, Finish, listVars, regVars, lockVars, Same,
     HoldsOwn, GivingBack, AtWork
<1>19. CASE Unbind(t)
  BY <1>19, <1>0 DEF Unbind, Finish, listVars, regVars, lockVars, Same,
     HoldsOwn, GivingBack, AtWork
<1>20. CASE SetTiling(t)
  BY <1>20, <1>0 DEF SetTiling, Finish, listVars, regVars, lockVars, Same,
     HoldsOwn, GivingBack, AtWork
<1>21. CASE Return(t)
  BY <1>21, <1>0 DEF Return, listVars, regVars, lockVars, Same, HoldsOwn,
     GivingBack, AtWork
<1>22. CASE ExecHold(t)
  BY <1>22, <1>0 DEF ExecHold, Finish, listVars, regVars, lockVars, Same,
     HoldsOwn, GivingBack, AtWork
<1>23. CASE ExecPin(t)
  BY <1>23, <1>0 DEF ExecPin, listVars, regVars, lockVars, Same, HoldsOwn,
     GivingBack, AtWork
<1>24. CASE ExecFlush(t)
  <2>1. UNCHANGED <<held, fence, tiling, invalid>>
    BY <1>24 DEF ExecFlush, lockVars
  <2>2. CASE GpuFlush
    <3>1. FlushEffect
      BY <1>0, <2>2, Flushed
    <3>2. fence[o] # NoReg /\ ~(o \in fenced /\ wd[o] = "GPU") =>
            regSeq'[fence[o]] = regSeq[fence[o]]
      BY <1>0, <3>1 DEF FlushEffect, Paired
    <3> QED
      BY <2>1, <3>1, <3>2 DEF FlushEffect, Same
  <2>3. CASE UNCHANGED <<wd, listVars, regSeq>>
    BY <2>1, <2>3 DEF listVars, Same
  <2> QED
    BY <1>24, <2>2, <2>3 DEF ExecFlush
<1>25. CASE ExecDispatch(t)
  <2>1. UNCHANGED <<held, fence, tiling, invalid>>
    BY <1>25 DEF ExecDispatch, lockVars, regVars
  <2>2. DispatchEffect
    BY <1>0, <1>25, Dispatched
  <2>3. o \notin batch.pinned
    BY <1>0, <1>25 DEF ExecDispatch, Place
  <2>4. fence[o] # NoReg => regSeq'[fence[o]] = regSeq[fence[o]]
    BY <1>0, <2>2, <2>3 DEF DispatchEffect, Paired
  <2> QED
    BY <2>1, <2>2, <2>3, <2>4 DEF DispatchEffect, Same
<1> QED
  BY <1>1, <1>2, <1>3, <1>4, <1>5, <1>6, <1>7, <1>8, <1>9, <1>10, <1>11,
     <1>12, <1>13, <1>14, <1>15, <1>16, <1>17, <1>18, <1>19, <1>20, <1>21,
     <1>22, <1>23, <1>24, <1>25 DEF Step

\* No step of a thread is one of the GPU.
LEMMA HwStays ==
  ASSUME NEW t \in Client, Step(t)
  PROVE  hwSeqno' = hwSeqno
<1>1. CASE ReadLock(t)
  BY <1>1 DEF ReadLock, Ready
<1>2. CASE ExecLock(t)
  BY <1>2 DEF ExecLock, Ready
<1>3. CASE Hold(t)
  BY <1>3 DEF Hold, HoldObject, Ready
<1>4. CASE Bind(t)
  BY <1>4 DEF Bind, Goto, Finish
<1>5. CASE Flush(t)
  BY <1>5 DEF Flush
<1>6. CASE WaitRendering(t)
  BY <1>6 DEF WaitRendering
<1>7. CASE Wake(t)
  BY <1>7 DEF Wake
<1>8. CASE Interrupt(t)
  BY <1>8 DEF Interrupt, Finish
<1>9. CASE Domain(t)
  BY <1>9 DEF Domain, LeaveGtt
<1>10. CASE PutFlush(t)
  BY <1>10 DEF PutFlush
<1>11. CASE PutWait(t)
  BY <1>11 DEF PutWait
<1>12. CASE PutNone(t)
  BY <1>12 DEF PutNone, PutDone
<1>13. CASE PutClear(t)
  BY <1>13 DEF PutClear, PutDone, LeaveGtt
<1>14. CASE GetOld(t)
  BY <1>14 DEF GetOld, Got, Goto, Finish
<1>15. CASE GetFree(t)
  BY <1>15 DEF GetFree, Search, Got, Goto, Finish
<1>16. CASE GetNone(t)
  BY <1>16 DEF GetNone, Search, Got, Goto, Finish
<1>17. CASE GetSteal(t)
  BY <1>17 DEF GetSteal, Search
<1>18. CASE GttDomain(t)
  BY <1>18 DEF GttDomain, Finish
<1>19. CASE Unbind(t)
  BY <1>19 DEF Unbind, Finish
<1>20. CASE SetTiling(t)
  BY <1>20 DEF SetTiling, Finish
<1>21. CASE Return(t)
  BY <1>21 DEF Return
<1>22. CASE ExecHold(t)
  BY <1>22 DEF ExecHold, Finish
<1>23. CASE ExecPin(t)
  BY <1>23 DEF ExecPin
<1>24. CASE ExecFlush(t)
  BY <1>24 DEF ExecFlush, Goto
<1>25. CASE ExecDispatch(t)
  BY <1>25 DEF ExecDispatch, Finish
<1> QED
  BY <1>1, <1>2, <1>3, <1>4, <1>5, <1>6, <1>7, <1>8, <1>9, <1>10, <1>11,
     <1>12, <1>13, <1>14, <1>15, <1>16, <1>17, <1>18, <1>19, <1>20, <1>21,
     <1>22, <1>23, <1>24, <1>25 DEF Step

\* So what is true of a thread by its place stays true when another one moves.
LEMMA Others ==
  ASSUME StateTypes, ThreadObjects, Paired, Places, Holds,
         NEW t \in Client, Step(t), NEW s \in Client, s # t
  PROVE  /\ Place(s)'
         /\ HoldsOwn(s)'
         /\ Quiet(s) => Quiet(s)'
         /\ GivesBack(s) => GivesBack(s)'
         /\ Valid(s) => Valid(s)'
         /\ Covers(s) => Covers(s)'
<1>1. /\ th \in [Client -> ThreadState] /\ th'[s] = th[s]
      /\ hwSeqno' = hwSeqno
  <2>1. th \in [Client -> ThreadState]
    BY DEF StateTypes
  <2>2. th'[s] = th[s]
    BY <2>1, OnlyOneMoves
  <2>3. hwSeqno' = hwSeqno
    BY HwStays
  <2> QED
    BY <2>1, <2>2, <2>3
<1>2. ASSUME NEW o \in Obj, held[o] = s PROVE Same(o)
  <2>1. held[o] \in Client /\ held[o] # t
    BY <1>2
  <2> QED
    BY <2>1, Undisturbed
<1>3. /\ Place(s) /\ HoldsOwn(s)
      /\ th[s].pc \in AtWork => th[s].obj \in Obj
      /\ GivingBack(s) => th[s].victim \in Obj
  BY <1>1, NullAssumption
  DEF Places, Holds, ThreadObjects, GivingBack, ThreadState
<1>4. drmW' = s <=> drmW = s
  BY WriterMoves, BatchKept, NullAssumption DEF StateTypes
<1>5. Executes(s) => drmW = s /\ batch' = batch
  BY <1>3, BatchKept DEF Place
<1>6. Place(s)'
  BY <1>1, <1>3, <1>4 DEF Place, Executes
<1>7. HoldsOwn(s)'
  BY <1>1, <1>2, <1>3, <1>5
  DEF HoldsOwn, GivingBack, Executes, InBatch, AtWork, Same
<1>8. Quiet(s) => Quiet(s)'
  <2>0. SUFFICES ASSUME Quiet(s), ~Executes(s), th[s].pc \in AfterFlush
                 PROVE  Quiet(s)'
    BY <1>1 DEF Quiet, Executes
  <2>1. th[s].obj \in Obj /\ Same(th[s].obj)
    BY <1>2, <1>3, <2>0 DEF AfterFlush, AtWork, HoldsOwn
  <2>2. lrs[th[s].obj] \in Nat /\ th[s].seq \in Nat
    BY <1>1, <2>1 DEF StateTypes, ThreadState
  <2> QED
    BY <1>1, <2>0, <2>1, <2>2 DEF Quiet, Same, Executes, Waits, AfterFlush
<1>9. GivesBack(s) => GivesBack(s)'
  <2>0. SUFFICES ASSUME GivesBack(s), GivingBack(s), th[s].pc # "put"
                 PROVE  GivesBack(s)'
    BY <1>1 DEF GivesBack, GivingBack
  <2>1. th[s].victim \in Obj /\ Same(th[s].victim)
    BY <1>2, <1>3, <2>0 DEF HoldsOwn
  <2>2. /\ fence[th[s].victim] # NoReg => regSeq[fence[th[s].victim]] \in Nat
        /\ th[s].seq \in Nat /\ hwSeqno \in Nat
    BY <1>1, <2>1 DEF StateTypes, ThreadState
  <2> QED
    BY <1>1, <2>0, <2>1, <2>2 DEF GivesBack, GivingBack, Same
<1>10. Valid(s) => Valid(s)'
  <2>0. SUFFICES ASSUME Valid(s), th[s].pc \in AtWork \ {"hold"}
                 PROVE  Valid(s)'
    BY <1>1, <1>3 DEF Valid, GivingBack, InBatch, Place, Executes, AtWork
  <2>1. th[s].obj \in Obj /\ Same(th[s].obj)
    BY <1>2, <1>3, <2>0 DEF HoldsOwn
  <2>2. InBatch(s) => batch' = batch
    BY <1>5 DEF InBatch
  <2>3. th[s].pc = "pin" => InBatch(s)
    BY <1>3 DEF InBatch, Place
  <2> QED
    BY <1>1, <2>0, <2>1, <2>2, <2>3
    DEF Valid, GivingBack, InBatch, Executes, Same
<1>11. Covers(s) => Covers(s)'
  BY <1>1, <1>5 DEF Covers, InBatch, Executes
<1> QED
  BY <1>6, <1>7, <1>8, <1>9, <1>10, <1>11

-----------------------------------------------------------------------------
\* The holds.

\* A step of a thread takes it to such a place.
LEMMA OwnPlace ==
  ASSUME NEW t \in Client, StateTypes, ThreadObjects, Paired, Places,
     Holds, Step(t)
  PROVE  Place(t)'
<1> USE DEF lockVars, gttVars, domVars, listVars, regVars, reqVars
<1>0. /\ th \in [Client -> ThreadState] /\ th[t] \in ThreadState
      /\ held \in [Obj -> Client \cup {NoThread}]
      /\ drmW \in Client \cup {NoThread}
      /\ batch \in [todo : SUBSET Obj, pinned : SUBSET Obj,
                    needs : SUBSET Obj, write : SUBSET Obj]
      /\ regObj \in [Reg -> Obj \cup {NoObj}]
      /\ Place(t) /\ HoldsOwn(t) /\ t # NoThread
      /\ th[t].pc \in AtWork => th[t].obj \in Obj
      /\ th[t].pc \in {"put", "clear"} => th[t].victim \in Obj
      /\ \A o \in batch.pinned : drmW \in Client /\ held[o] = drmW
      /\ NoObj \notin Obj /\ NoThread \notin Client
  BY NullAssumption DEF StateTypes, ThreadObjects, Holds, Places
<1>1. CASE ReadLock(t)
  BY <1>1, <1>0 DEF ReadLock, Ready, Place, Executes, ThreadState, Idle,
     AtWork, SharedOps, FaultOps
<1>2. CASE ExecLock(t)
  BY <1>2, <1>0 DEF ExecLock, Ready, Place, Executes, ThreadState, Idle,
     AtWork
<1>3. CASE Hold(t)
  <2>1. PICK op \in Ops \cup {"none"}, o \in Obj :
          op # "exec" /\ HoldObject(t, op, o)
    BY <1>3, <1>0 DEF Hold, Place, Executes, ThreadState, AtWork
  <2>2. drmW # t
    BY <1>3, <1>0 DEF Hold, Ready, Place, Executes
  <2>3. /\ th'[t].op = op /\ th'[t].obj = o /\ th'[t].victim = NoObj
        /\ th'[t].pc \in {"tile", "bind", "flush", "out"}
        /\ held[o] = NoThread /\ held' = [held EXCEPT ![o] = t]
        /\ batch' = batch /\ drmW' = drmW
    BY <2>1, <1>0 DEF HoldObject, Idle
  <2>4. held'[o] = t
    BY <1>0, <2>3
  <2> QED
    BY <1>0, <2>1, <2>2, <2>3, <2>4 DEF Place, Executes, HoldsOwn, GivingBack,
       InBatch, AtWork
<1>4. CASE Bind(t)
  BY <1>4, <1>0 DEF Bind, Goto, Finish, Place, Executes, ThreadState, Idle,
     AtWork
<1>5. CASE Flush(t)
  BY <1>5, <1>0 DEF Flush, Place, Executes, ThreadState, Idle, AtWork
<1>6. CASE WaitRendering(t)
  BY <1>6, <1>0 DEF WaitRendering, Place, Executes, ThreadState, Idle, AtWork
<1>7. CASE Wake(t)
  BY <1>7, <1>0 DEF Wake, Place, Executes, ThreadState, Idle, AtWork
<1>8. CASE Interrupt(t)
  BY <1>8, <1>0 DEF Interrupt, Finish, Place, Executes, ThreadState, Idle,
     AtWork
<1>9. CASE Domain(t)
  BY <1>9, <1>0 DEF Domain, LeaveGtt, Place, Executes, ThreadState, Idle,
     AtWork, FenceStep
<1>10. CASE PutFlush(t)
  BY <1>10, <1>0 DEF PutFlush, Place, Executes, ThreadState, Idle, AtWork
<1>11. CASE PutWait(t)
  BY <1>11, <1>0 DEF PutWait, Place, Executes, ThreadState, Idle, AtWork
<1>12. CASE PutNone(t)
  BY <1>12, <1>0 DEF PutNone, PutDone, Place, Executes, ThreadState, Idle,
     AtWork
<1>13. CASE PutClear(t)
  BY <1>13, <1>0 DEF PutClear, PutDone, LeaveGtt, Place, Executes,
     ThreadState, Idle, AtWork
<1>14. CASE GetOld(t)
  <2>1. UNCHANGED <<batch, drmW, held>> /\ th[t].pc = "get" /\ Got(t, FALSE)
    BY <1>14 DEF GetOld
  <2> QED
    BY <1>0, <2>1
    DEF Got, Goto, Place, Executes, ThreadState, HoldsOwn, GivingBack,
       InBatch, AtWork
<1>15. CASE GetFree(t)
  BY <1>15, <1>0 DEF GetFree, Search, Got, Goto, Finish, Place, Executes,
     ThreadState, Idle, AtWork
<1>16. CASE GetNone(t)
  BY <1>16, <1>0 DEF GetNone, Search, Got, Goto, Finish, Place, Executes,
     ThreadState, Idle, AtWork
<1>17. CASE GetSteal(t)
  <2>1. PICK r \in Reg : /\ regObj[r] # NoObj /\ held[regObj[r]] = NoThread
                         /\ held' = [held EXCEPT ![regObj[r]] = t]
                         /\ th' = [th EXCEPT ![t].pc = "put",
                                             ![t].victim = regObj[r]]
    BY <1>17 DEF GetSteal, Oldest, MayTake
  <2>2. UNCHANGED <<batch, drmW>> /\ th[t].pc = "get"
    BY <1>17 DEF GetSteal, Search
  <2> QED
    BY <1>0, <2>1, <2>2
    DEF Place, Executes, ThreadState, HoldsOwn, GivingBack,
       InBatch, AtWork
<1>18. CASE GttDomain(t)
  BY <1>18, <1>0 DEF GttDomain, Finish, Place, Executes, ThreadState, Idle,
     AtWork
<1>19. CASE Unbind(t)
  BY <1>19, <1>0 DEF Unbind, Finish, Place, Executes, ThreadState, Idle,
     AtWork
<1>20. CASE SetTiling(t)
  BY <1>20, <1>0 DEF SetTiling, Finish, Place, Executes, ThreadState, Idle,
     AtWork
<1>21. CASE Return(t)
  BY <1>21, <1>0 DEF Return, Place, Executes, ThreadState, Idle, AtWork
<1>22. CASE ExecHold(t)
  BY <1>22, <1>0 DEF ExecHold, Finish, Place, Executes, ThreadState, Idle,
     AtWork, FenceStep
<1>23. CASE ExecPin(t)
  BY <1>23, <1>0 DEF ExecPin, Place, Executes, ThreadState, Idle, AtWork
<1>24. CASE ExecFlush(t)
  BY <1>24, <1>0 DEF ExecFlush, Goto, Place, Executes, ThreadState, Idle,
     AtWork
<1>25. CASE ExecDispatch(t)
  BY <1>25, <1>0 DEF ExecDispatch, Finish, Place, Executes, ThreadState,
     Idle, AtWork
<1> QED
  BY <1>1, <1>2, <1>3, <1>4, <1>5, <1>6, <1>7, <1>8, <1>9, <1>10, <1>11,
     <1>12, <1>13, <1>14, <1>15, <1>16, <1>17, <1>18, <1>19, <1>20, <1>21,
     <1>22, <1>23, <1>24, <1>25 DEF Step

\* It still holds what it works on.
LEMMA OwnHolds ==
  ASSUME NEW t \in Client, StateTypes, ThreadObjects, Paired, Places,
     Holds, Step(t)
  PROVE  HoldsOwn(t)'
<1> USE DEF lockVars, gttVars, domVars, listVars, regVars, reqVars
<1>0. /\ th \in [Client -> ThreadState] /\ th[t] \in ThreadState
      /\ held \in [Obj -> Client \cup {NoThread}]
      /\ drmW \in Client \cup {NoThread}
      /\ batch \in [todo : SUBSET Obj, pinned : SUBSET Obj,
                    needs : SUBSET Obj, write : SUBSET Obj]
      /\ regObj \in [Reg -> Obj \cup {NoObj}]
      /\ Place(t) /\ HoldsOwn(t) /\ t # NoThread
      /\ th[t].pc \in AtWork => th[t].obj \in Obj
      /\ th[t].pc \in {"put", "clear"} => th[t].victim \in Obj
      /\ \A o \in batch.pinned : drmW \in Client /\ held[o] = drmW
      /\ NoObj \notin Obj /\ NoThread \notin Client
  BY NullAssumption DEF StateTypes, ThreadObjects, Holds, Places
<1>1. CASE ReadLock(t)
  BY <1>1, <1>0 DEF ReadLock, Ready, Place, Executes, ThreadState, Idle,
     AtWork, HoldsOwn, GivingBack, InBatch, SharedOps, FaultOps
<1>2. CASE ExecLock(t)
  BY <1>2, <1>0 DEF ExecLock, Ready, Place, Executes, ThreadState, Idle,
     AtWork, HoldsOwn, GivingBack, InBatch
<1>3. CASE Hold(t)
  <2>1. PICK op \in Ops \cup {"none"}, o \in Obj :
          op # "exec" /\ HoldObject(t, op, o)
    BY <1>3, <1>0 DEF Hold, Place, Executes, ThreadState, AtWork
  <2>2. drmW # t
    BY <1>3, <1>0 DEF Hold, Ready, Place, Executes
  <2>3. /\ th'[t].op = op /\ th'[t].obj = o /\ th'[t].victim = NoObj
        /\ th'[t].pc \in {"tile", "bind", "flush", "out"}
        /\ held[o] = NoThread /\ held' = [held EXCEPT ![o] = t]
        /\ batch' = batch /\ drmW' = drmW
    BY <2>1, <1>0 DEF HoldObject, Idle
  <2>4. held'[o] = t
    BY <1>0, <2>3
  <2> QED
    BY <1>0, <2>1, <2>2, <2>3, <2>4 DEF Place, Executes, HoldsOwn, GivingBack,
       InBatch, AtWork
<1>4. CASE Bind(t)
  BY <1>4, <1>0 DEF Bind, Goto, Finish, Place, Executes, ThreadState, Idle,
     AtWork, HoldsOwn, GivingBack, InBatch
<1>5. CASE Flush(t)
  BY <1>5, <1>0 DEF Flush, Place, Executes, ThreadState, Idle, AtWork,
     HoldsOwn, GivingBack, InBatch
<1>6. CASE WaitRendering(t)
  BY <1>6, <1>0 DEF WaitRendering, Place, Executes, ThreadState, Idle,
     AtWork, HoldsOwn, GivingBack, InBatch
<1>7. CASE Wake(t)
  BY <1>7, <1>0 DEF Wake, Place, Executes, ThreadState, Idle, AtWork,
     HoldsOwn, GivingBack, InBatch
<1>8. CASE Interrupt(t)
  BY <1>8, <1>0 DEF Interrupt, Finish, Place, Executes, ThreadState, Idle,
     AtWork, HoldsOwn, GivingBack, InBatch
<1>9. CASE Domain(t)
  BY <1>9, <1>0 DEF Domain, LeaveGtt, Place, Executes, ThreadState, Idle,
     AtWork, HoldsOwn, GivingBack, InBatch, FenceStep
<1>10. CASE PutFlush(t)
  BY <1>10, <1>0 DEF PutFlush, Place, Executes, ThreadState, Idle, AtWork,
     HoldsOwn, GivingBack, InBatch
<1>11. CASE PutWait(t)
  BY <1>11, <1>0 DEF PutWait, Place, Executes, ThreadState, Idle, AtWork,
     HoldsOwn, GivingBack, InBatch
<1>12. CASE PutNone(t)
  BY <1>12, <1>0 DEF PutNone, PutDone, Place, Executes, ThreadState, Idle,
     AtWork, HoldsOwn, GivingBack, InBatch
<1>13. CASE PutClear(t)
  BY <1>13, <1>0 DEF PutClear, PutDone, LeaveGtt, Place, Executes,
     ThreadState, Idle, AtWork, HoldsOwn, GivingBack, InBatch
<1>14. CASE GetOld(t)
  <2>1. UNCHANGED <<batch, drmW, held>> /\ th[t].pc = "get" /\ Got(t, FALSE)
    BY <1>14 DEF GetOld
  <2> QED
    BY <1>0, <2>1
    DEF Got, Goto, Place, Executes, ThreadState, HoldsOwn, GivingBack,
       InBatch, AtWork
<1>15. CASE GetFree(t)
  BY <1>15, <1>0 DEF GetFree, Search, Got, Goto, Finish, Place, Executes,
     ThreadState, Idle, AtWork, HoldsOwn, GivingBack, InBatch
<1>16. CASE GetNone(t)
  BY <1>16, <1>0 DEF GetNone, Search, Got, Goto, Finish, Place, Executes,
     ThreadState, Idle, AtWork, HoldsOwn, GivingBack, InBatch
<1>17. CASE GetSteal(t)
  <2>1. PICK r \in Reg : /\ regObj[r] # NoObj /\ held[regObj[r]] = NoThread
                         /\ held' = [held EXCEPT ![regObj[r]] = t]
                         /\ th' = [th EXCEPT ![t].pc = "put",
                                             ![t].victim = regObj[r]]
    BY <1>17 DEF GetSteal, Oldest, MayTake
  <2>2. UNCHANGED <<batch, drmW>> /\ th[t].pc = "get"
    BY <1>17 DEF GetSteal, Search
  <2> QED
    BY <1>0, <2>1, <2>2
    DEF Place, Executes, ThreadState, HoldsOwn, GivingBack,
       InBatch, AtWork
<1>18. CASE GttDomain(t)
  BY <1>18, <1>0 DEF GttDomain, Finish, Place, Executes, ThreadState, Idle,
     AtWork, HoldsOwn, GivingBack, InBatch
<1>19. CASE Unbind(t)
  BY <1>19, <1>0 DEF Unbind, Finish, Place, Executes, ThreadState, Idle,
     AtWork, HoldsOwn, GivingBack, InBatch
<1>20. CASE SetTiling(t)
  BY <1>20, <1>0 DEF SetTiling, Finish, Place, Executes, ThreadState, Idle,
     AtWork, HoldsOwn, GivingBack, InBatch
<1>21. CASE Return(t)
  BY <1>21, <1>0 DEF Return, Place, Executes, ThreadState, Idle, AtWork,
     HoldsOwn, GivingBack, InBatch
<1>22. CASE ExecHold(t)
  BY <1>22, <1>0 DEF ExecHold, Finish, Place, Executes, ThreadState, Idle,
     AtWork, HoldsOwn, GivingBack, InBatch, FenceStep
<1>23. CASE ExecPin(t)
  BY <1>23, <1>0 DEF ExecPin, Place, Executes, ThreadState, Idle, AtWork,
     HoldsOwn, GivingBack, InBatch
<1>24. CASE ExecFlush(t)
  BY <1>24, <1>0 DEF ExecFlush, Goto, Place, Executes, ThreadState, Idle,
     AtWork, HoldsOwn, GivingBack, InBatch
<1>25. CASE ExecDispatch(t)
  BY <1>25, <1>0 DEF ExecDispatch, Finish, Place, Executes, ThreadState,
     Idle, AtWork, HoldsOwn, GivingBack, InBatch
<1> QED
  BY <1>1, <1>2, <1>3, <1>4, <1>5, <1>6, <1>7, <1>8, <1>9, <1>10, <1>11,
     <1>12, <1>13, <1>14, <1>15, <1>16, <1>17, <1>18, <1>19, <1>20, <1>21,
     <1>22, <1>23, <1>24, <1>25 DEF Step

\* The writer still holds everything that is pinned.
LEMMA PinnedHeld ==
  ASSUME NEW t \in Client, StateTypes, ThreadObjects, Paired, Places,
     Holds, Step(t)
  PROVE  \A o \in batch'.pinned : drmW' \in Client /\ held'[o] = drmW'
<1> USE DEF lockVars, gttVars, domVars, listVars, regVars, reqVars
<1>0. /\ th \in [Client -> ThreadState] /\ th[t] \in ThreadState
      /\ held \in [Obj -> Client \cup {NoThread}]
      /\ drmW \in Client \cup {NoThread}
      /\ batch \in [todo : SUBSET Obj, pinned : SUBSET Obj,
                    needs : SUBSET Obj, write : SUBSET Obj]
      /\ regObj \in [Reg -> Obj \cup {NoObj}]
      /\ Place(t) /\ HoldsOwn(t) /\ t # NoThread
      /\ th[t].pc \in AtWork => th[t].obj \in Obj
      /\ th[t].pc \in {"put", "clear"} => th[t].victim \in Obj
      /\ \A o \in batch.pinned : drmW \in Client /\ held[o] = drmW
      /\ NoObj \notin Obj /\ NoThread \notin Client
  BY NullAssumption DEF StateTypes, ThreadObjects, Holds, Places
<1>1. CASE ReadLock(t)
  BY <1>1, <1>0 DEF ReadLock, Ready, Place, Executes, ThreadState, Idle,
     AtWork, HoldsOwn, GivingBack, InBatch, NoBatch
<1>2. CASE ExecLock(t)
  BY <1>2, <1>0 DEF ExecLock, Ready, Place, Executes, ThreadState, Idle,
     AtWork, HoldsOwn, GivingBack, InBatch, NoBatch
<1>3. CASE Hold(t)
  <2>1. PICK op \in Ops \cup {"none"}, o \in Obj :
          op # "exec" /\ HoldObject(t, op, o)
    BY <1>3, <1>0 DEF Hold, Place, Executes, ThreadState, AtWork
  <2>2. /\ held[o] = NoThread /\ held' = [held EXCEPT ![o] = t]
        /\ batch' = batch /\ drmW' = drmW
    BY <2>1 DEF HoldObject
  <2>3. ASSUME NEW p \in batch.pinned PROVE held'[p] = held[p]
    BY <1>0, <2>2
  <2> QED
    BY <1>0, <2>2, <2>3
<1>4. CASE Bind(t)
  BY <1>4, <1>0 DEF Bind, Goto, Finish, Place, Executes, ThreadState, Idle,
     AtWork, HoldsOwn, GivingBack, InBatch, NoBatch
<1>5. CASE Flush(t)
  BY <1>5, <1>0 DEF Flush, Place, Executes, ThreadState, Idle, AtWork,
     HoldsOwn, GivingBack, InBatch, NoBatch
<1>6. CASE WaitRendering(t)
  BY <1>6, <1>0 DEF WaitRendering, Place, Executes, ThreadState, Idle,
     AtWork, HoldsOwn, GivingBack, InBatch, NoBatch
<1>7. CASE Wake(t)
  BY <1>7, <1>0 DEF Wake, Place, Executes, ThreadState, Idle, AtWork,
     HoldsOwn, GivingBack, InBatch, NoBatch
<1>8. CASE Interrupt(t)
  BY <1>8, <1>0 DEF Interrupt, Finish, Place, Executes, ThreadState, Idle,
     AtWork, HoldsOwn, GivingBack, InBatch, NoBatch
<1>9. CASE Domain(t)
  BY <1>9, <1>0 DEF Domain, LeaveGtt, Place, Executes, ThreadState, Idle,
     AtWork, HoldsOwn, GivingBack, InBatch, NoBatch
<1>10. CASE PutFlush(t)
  BY <1>10, <1>0 DEF PutFlush, Place, Executes, ThreadState, Idle, AtWork,
     HoldsOwn, GivingBack, InBatch, NoBatch
<1>11. CASE PutWait(t)
  BY <1>11, <1>0 DEF PutWait, Place, Executes, ThreadState, Idle, AtWork,
     HoldsOwn, GivingBack, InBatch, NoBatch
<1>12. CASE PutNone(t)
  BY <1>12, <1>0 DEF PutNone, PutDone, Place, Executes, ThreadState, Idle,
     AtWork, HoldsOwn, GivingBack, InBatch, NoBatch
<1>13. CASE PutClear(t)
  BY <1>13, <1>0 DEF PutClear, PutDone, LeaveGtt, Place, Executes,
     ThreadState, Idle, AtWork, HoldsOwn, GivingBack, InBatch, NoBatch
<1>14. CASE GetOld(t)
  BY <1>14, <1>0 DEF GetOld, Got, Goto, Finish, Place, Executes,
     ThreadState, Idle, AtWork, HoldsOwn, GivingBack, InBatch, NoBatch
<1>15. CASE GetFree(t)
  BY <1>15, <1>0 DEF GetFree, Search, Got, Goto, Finish, Place, Executes,
     ThreadState, Idle, AtWork, HoldsOwn, GivingBack, InBatch, NoBatch
<1>16. CASE GetNone(t)
  BY <1>16, <1>0 DEF GetNone, Search, Got, Goto, Finish, Place, Executes,
     ThreadState, Idle, AtWork, HoldsOwn, GivingBack, InBatch, NoBatch
<1>17. CASE GetSteal(t)
  <2>1. PICK r \in Reg : /\ held[regObj[r]] = NoThread
                         /\ held' = [held EXCEPT ![regObj[r]] = t]
    BY <1>17 DEF GetSteal, Oldest, MayTake
  <2>2. UNCHANGED <<batch, drmW>>
    BY <1>17 DEF GetSteal
  <2>3. ASSUME NEW p \in batch.pinned PROVE held'[p] = held[p]
    BY <1>0, <2>1
  <2> QED
    BY <1>0, <2>2, <2>3
<1>18. CASE GttDomain(t)
  BY <1>18, <1>0 DEF GttDomain, Finish, Place, Executes, ThreadState, Idle,
     AtWork, HoldsOwn, GivingBack, InBatch, NoBatch
<1>19. CASE Unbind(t)
  BY <1>19, <1>0 DEF Unbind, Finish, Place, Executes, ThreadState, Idle,
     AtWork, HoldsOwn, GivingBack, InBatch, NoBatch
<1>20. CASE SetTiling(t)
  BY <1>20, <1>0 DEF SetTiling, Finish, Place, Executes, ThreadState, Idle,
     AtWork, HoldsOwn, GivingBack, InBatch, NoBatch
<1>21. CASE Return(t)
  BY <1>21, <1>0 DEF Return, Place, Executes, ThreadState, Idle, AtWork,
     HoldsOwn, GivingBack, InBatch, NoBatch
<1>22. CASE ExecHold(t)
  BY <1>22, <1>0 DEF ExecHold, Finish, Place, Executes, ThreadState, Idle,
     AtWork, HoldsOwn, GivingBack, InBatch, NoBatch
<1>23. CASE ExecPin(t)
  BY <1>23, <1>0 DEF ExecPin, Place, Executes, ThreadState, Idle, AtWork,
     HoldsOwn, GivingBack, InBatch, NoBatch
<1>24. CASE ExecFlush(t)
  BY <1>24, <1>0 DEF ExecFlush, Goto, Place, Executes, ThreadState, Idle,
     AtWork, HoldsOwn, GivingBack, InBatch, NoBatch
<1>25. CASE ExecDispatch(t)
  BY <1>25, <1>0 DEF ExecDispatch, Finish, Place, Executes, ThreadState,
     Idle, AtWork, HoldsOwn, GivingBack, InBatch, NoBatch
<1> QED
  BY <1>1, <1>2, <1>3, <1>4, <1>5, <1>6, <1>7, <1>8, <1>9, <1>10, <1>11,
     <1>12, <1>13, <1>14, <1>15, <1>16, <1>17, <1>18, <1>19, <1>20, <1>21,
     <1>22, <1>23, <1>24, <1>25 DEF Step

-----------------------------------------------------------------------------
\* The registers and the books.

\* Objects and registers still point at each other, on every chip.
LEMMA PairedStep ==
  ASSUME StateTypes, ThreadObjects, Paired, [Next]_vars
  PROVE  Paired'
<1>1. ASSUME NEW t \in Client, GetFree(t) PROVE Paired'
  <2>1. th[t].obj \in Obj /\ fence[th[t].obj] = NoReg
    BY <1>1 DEF GetFree, Search, ThreadObjects, AtWork
  <2>2. PICK r \in Reg :
          /\ regObj[r] = NoObj
          /\ regObj' = [regObj EXCEPT ![r] = th[t].obj]
          /\ fence' = [fence EXCEPT ![th[t].obj] = r]
    BY <1>1 DEF GetFree
  <2> QED
    BY <2>1, <2>2, NullAssumption DEF Paired, StateTypes
<1>2. ASSUME NEW t \in Client, PutClear(t) PROVE Paired'
  <2>1. /\ th[t].victim \in Obj /\ fence[th[t].victim] \in Reg \cup {NoReg}
        /\ regObj' = [regObj EXCEPT ![fence[th[t].victim]] = NoObj]
        /\ fence' = [fence EXCEPT ![th[t].victim] = NoReg]
    BY <1>2 DEF PutClear, ThreadObjects, StateTypes
  <2> QED
    BY <2>1, NullAssumption DEF Paired, StateTypes
<1>3. CASE UNCHANGED <<fence, regObj>>
  BY <1>3 DEF Paired
<1>4. ASSUME NEW t \in Client, Step(t), ~GetFree(t), ~PutClear(t)
      PROVE  UNCHANGED <<fence, regObj>>
  BY <1>4
  DEF Step, ReadLock, ExecLock, Hold, Bind, Flush, WaitRendering,
          Wake, Interrupt, Domain, PutFlush, PutWait, PutNone, GetOld,
          GetNone, GetSteal, GttDomain, Unbind, Return, ExecHold,
          ExecPin, ExecFlush, ExecDispatch, HoldObject, regVars, SetTiling
<1> QED
  BY <1>1, <1>2, <1>3, <1>4 DEF Next, Retire, GpuProgress, vars, regVars

\* A register still shows its object: it was set up for the tiling of the time,
\* and set_tiling marks what it changes.
LEMMA ShownStep ==
  ASSUME StateTypes, ThreadObjects, Paired, Shown,
         \A t \in Client : Valid(t), [Next]_vars
  PROVE  Shown'
<1>0. /\ fence \in [Obj -> Reg \cup {NoReg}]
      /\ regObj \in [Reg -> Obj \cup {NoObj}]
      /\ tiling \in [Obj -> Tiling \cup {Linear}] /\ NoObj \notin Obj
      /\ NoReg \notin Reg
      /\ hw \in [Reg -> [obj : Obj \cup {NoObj},
                         tiling : Tiling \cup {Linear}]]
  BY NullAssumption DEF StateTypes
<1>1. ASSUME NEW t \in Client, GetFree(t) PROVE Shown'
  <2>1. /\ th[t].obj \in Obj /\ fence[th[t].obj] = NoReg
        /\ th[t].obj \notin invalid /\ tiling[th[t].obj] # Linear
    BY <1>1 DEF GetFree, Search, ThreadObjects, AtWork, Valid, NeedsFence
  <2>2. PICK r \in Reg :
          /\ regObj[r] = NoObj
          /\ regObj' = [regObj EXCEPT ![r] = th[t].obj]
          /\ fence' = [fence EXCEPT ![th[t].obj] = r]
          /\ hw' = [hw EXCEPT ![r] = [obj |-> th[t].obj,
                                      tiling |-> tiling[th[t].obj]]]
    BY <1>1 DEF GetFree
  <2>3. UNCHANGED <<tiling, invalid>>
    BY <1>1 DEF GetFree
  <2>4. ASSUME NEW q \in Reg, regObj'[q] \in Obj
        PROVE  /\ hw'[q].obj = regObj'[q]
               /\ regObj'[q] \notin invalid' =>
                    hw'[q].tiling = tiling'[regObj'[q]]
    <3>1. CASE q = r
      BY <1>0, <2>2, <2>3, <3>1
    <3>2. CASE q # r
      BY <1>0, <2>2, <2>3, <2>4, <3>2 DEF Shown
    <3> QED
      BY <3>1, <3>2
  <2>5. ASSUME NEW o \in Obj
        PROVE  /\ o \in invalid' => fence'[o] # NoReg
               /\ fence'[o] # NoReg /\ tiling'[o] = Linear => o \in invalid'
    BY <1>0, <2>1, <2>2, <2>3 DEF Shown
  <2> QED
    BY <2>4, <2>5 DEF Shown
<1>2. ASSUME NEW t \in Client, PutClear(t) PROVE Shown'
  <2> DEFINE v == th[t].victim
             r == fence[v]
  <2>1. /\ v \in Obj /\ r \in Reg \cup {NoReg}
        /\ hw' = hw \/ hw' = [hw EXCEPT ![r] = Off]
        /\ regObj' = [regObj EXCEPT ![r] = NoObj]
        /\ fence' = [fence EXCEPT ![v] = NoReg]
        /\ invalid' = invalid \ {v} /\ tiling' = tiling
    BY <1>2, <1>0 DEF PutClear, Cleared, ThreadObjects
  <2>4. ASSUME NEW q \in Reg, regObj'[q] \in Obj
        PROVE  /\ hw'[q].obj = regObj'[q]
               /\ regObj'[q] \notin invalid' =>
                    hw'[q].tiling = tiling'[regObj'[q]]
    <3>1. q # r
      BY <1>0, <2>1, <2>4
    <3>2. hw'[q] = hw[q] /\ regObj'[q] = regObj[q]
      BY <1>0, <2>1, <3>1
    <3>3. regObj[q] # v
      BY <2>1, <3>1 DEF Paired
    <3> QED
      BY <2>1, <2>4, <3>2, <3>3 DEF Shown
  <2>5. ASSUME NEW o \in Obj
        PROVE  /\ o \in invalid' => fence'[o] # NoReg
               /\ fence'[o] # NoReg /\ tiling'[o] = Linear => o \in invalid'
    BY <1>0, <2>1 DEF Shown
  <2> QED
    BY <2>4, <2>5 DEF Shown
<1>3. ASSUME NEW t \in Client, SetTiling(t) PROVE Shown'
  <2> DEFINE o == th[t].obj
  <2>1. o \in Obj /\ UNCHANGED <<fence, regObj, hw>>
    BY <1>3 DEF SetTiling, ThreadObjects, AtWork, regVars
  <2>2. CASE UNCHANGED <<tiling, invalid>>
    BY <2>1, <2>2 DEF Shown
  <2>3. ASSUME NEW m \in Tiling \cup {Linear},
               tiling' = [tiling EXCEPT ![o] = m],
               invalid' = IF fence[o] = NoReg THEN invalid
                          ELSE invalid \cup {o}
        PROVE  Shown'
    <3>1. ASSUME NEW q \in Reg, regObj'[q] \in Obj
          PROVE  /\ hw'[q].obj = regObj'[q]
                 /\ regObj'[q] \notin invalid' =>
                      hw'[q].tiling = tiling'[regObj'[q]]
      <4>1. regObj[q] = o => o \in invalid'
        BY <1>0, <2>1, <2>3 DEF Paired
      <4> QED
        BY <1>0, <2>1, <2>3, <3>1, <4>1 DEF Shown
    <3>2. ASSUME NEW p \in Obj
          PROVE  /\ p \in invalid' => fence'[p] # NoReg
                 /\ fence'[p] # NoReg /\ tiling'[p] = Linear => p \in invalid'
      BY <1>0, <2>1, <2>3 DEF Shown
    <3> QED
      BY <3>1, <3>2 DEF Shown
  <2> QED
    BY <1>3, <2>2, <2>3 DEF SetTiling
<1>4. CASE UNCHANGED <<tiling, invalid, fence, regObj, hw>>
  BY <1>4 DEF Shown
<1>5. ASSUME NEW t \in Client, Step(t), ~GetFree(t), ~PutClear(t),
             ~SetTiling(t)
      PROVE  UNCHANGED <<tiling, invalid, fence, regObj, hw>>
  BY <1>5
  DEF Step, ReadLock, ExecLock, Hold, Bind, Flush, WaitRendering,
          Wake, Interrupt, Domain, PutFlush, PutWait, PutNone, GetOld,
          GetNone, GetSteal, GttDomain, Unbind, Return, ExecHold,
          ExecPin, ExecFlush, ExecDispatch, HoldObject, regVars
<1> QED
  BY <1>1, <1>2, <1>3, <1>4, <1>5 DEF Next, Retire, GpuProgress, vars, regVars

\* Steps other than the flushes and the end of an execbuffer leave the lists
\* alone.
LEMMA Quiets ==
  ASSUME NEW t \in Client, Step(t), ~Flush(t), ~PutFlush(t), ~ExecFlush(t),
         ~ExecDispatch(t)
  PROVE  UNCHANGED <<nextSeqno, requests, active, lrs, lws, fenced, regSeq>>
BY DEF Step, ReadLock, ExecLock, Hold, Bind, WaitRendering,
          Wake, Interrupt, Domain, PutWait, PutNone, PutClear, GetOld,
          GetFree,
          GetNone, GetSteal, GttDomain, Unbind, SetTiling, Return, ExecHold,
          ExecPin, HoldObject, listVars, reqVars

\* Seqnos are given out in order.
LEMMA NumbersStep ==
  ASSUME StateTypes, Numbers, [Next]_vars
  PROVE  Numbers'
<1>0. /\ hwSeqno \in Nat /\ nextSeqno \in Nat /\ regSeq \in [Reg -> Nat]
      /\ requests \subseteq Nat
  BY DEF StateTypes
<1>1. ASSUME FlushEffect, hwSeqno' = hwSeqno PROVE Numbers'
  <2>1. ASSUME NEW r \in Reg PROVE regSeq'[r] \in {nextSeqno, regSeq[r]}
    BY <1>1 DEF FlushEffect
  <2>2. nextSeqno' = nextSeqno + 1 /\ requests' = requests \cup {nextSeqno}
    BY <1>1 DEF FlushEffect
  <2>3. ASSUME NEW r \in Reg PROVE regSeq'[r] < nextSeqno'
    BY <1>0, <2>1, <2>2 DEF Numbers
  <2> QED
    BY <1>0, <1>1, <2>2, <2>3 DEF Numbers
<1>2. ASSUME NEW t \in Client, Step(t) PROVE Numbers'
  <2>1. hwSeqno' = hwSeqno
    BY <1>2, HwStays
  <2>2. CASE GpuFlush
    BY <1>1, <2>1, <2>2, Flushed
  <2>3. CASE ExecDispatch(t)
    <3>1. DispatchEffect
      BY <2>3, Dispatched
    <3> QED
      BY <1>0, <2>1, <3>1 DEF Numbers, DispatchEffect
  <2>4. CASE UNCHANGED <<nextSeqno, requests, regSeq>>
    BY <2>1, <2>4 DEF Numbers
  <2> QED
    BY <1>2, <2>2, <2>3, <2>4, Quiets
    DEF Flush, PutFlush, ExecFlush, listVars, reqVars
<1>3. CASE Retire
  <2>1. PICK n \in requests : RetireEffect(n)
    BY <1>3, Retired
  <2>2. hwSeqno' = hwSeqno
    BY <1>3 DEF Retire
  <2>3. nextSeqno' = nextSeqno /\ requests' = requests \ {n}
    BY <2>1 DEF RetireEffect
  <2>4. ASSUME NEW r \in Reg PROVE regSeq'[r] \in {0, regSeq[r]}
    BY <2>1 DEF RetireEffect
  <2>5. ASSUME NEW r \in Reg PROVE regSeq'[r] < nextSeqno'
    BY <1>0, <2>3, <2>4 DEF Numbers
  <2> QED
    BY <1>0, <2>2, <2>3, <2>5 DEF Numbers
<1>4. CASE GpuProgress
  BY <1>0, <1>4 DEF Numbers, GpuProgress, reqVars
<1>5. CASE UNCHANGED vars
  BY <1>5 DEF vars, reqVars, Numbers
<1> QED
  BY <1>2, <1>3, <1>4, <1>5 DEF Next

\* The books still agree: an object moves to a new seqno together with its
\* register, if its batch used that.
LEMMA OnBooksStep ==
  ASSUME StateTypes, ThreadObjects, Paired, Places, Holds, Numbers, OnBooks,
         FreeIdle, Pinned, \A t \in Client : Quiet(t) /\ GivesBack(t),
         [Next]_vars
  PROVE  OnBooks'
<1>0. /\ hwSeqno \in Nat /\ nextSeqno \in Nat /\ regSeq \in [Reg -> Nat]
      /\ lrs \in [Obj -> Nat] /\ fence \in [Obj -> Reg \cup {NoReg}]
      /\ wd \in [Obj -> {"none", "CPU", "GTT", "GPU"}]
      /\ fenced \subseteq Obj /\ batch.needs \subseteq Obj /\ NoReg \notin Reg
      /\ hwSeqno < nextSeqno /\ \A r \in Reg : regSeq[r] < nextSeqno
      /\ \A s \in requests : 0 < s
  BY NullAssumption DEF StateTypes, Numbers
<1>1. ASSUME NEW o \in Obj PROVE OnBook(o)
  BY <1>1 DEF OnBooks
<1>2. \A o, p \in Obj : fence[o] = fence[p] /\ fence[o] # NoReg => o = p
  BY <1>0 DEF Paired
<1>3. SUFFICES ASSUME NEW o \in Obj PROVE OnBook(o)'
  BY DEF OnBooks
<1>4. /\ OnBook(o) /\ fence[o] \in Reg \cup {NoReg} /\ lrs[o] \in Nat
      /\ fence[o] # NoReg => regSeq[fence[o]] \in Nat
      /\ wd[o] \in {"none", "CPU", "GTT", "GPU"}
  BY <1>0, <1>1
<1>5. ASSUME FlushEffect, hwSeqno' = hwSeqno, fence' = fence PROVE OnBook(o)'
  <2>1. CASE wd[o] = "GPU"
    <3>1. /\ lrs'[o] = nextSeqno /\ wd'[o] = "none" /\ o \in active'
          /\ fenced' = fenced /\ nextSeqno \in requests'
      BY <1>5, <2>1 DEF FlushEffect
    <3>2. o \in fenced => fence[o] # NoReg /\ regSeq'[fence[o]] = nextSeqno
      BY <1>4, <1>5, <2>1 DEF FlushEffect, OnBook
    <3>3. fence[o] # NoReg => regSeq'[fence[o]] <= nextSeqno
      <4>1. fence[o] # NoReg =>
              regSeq'[fence[o]] \in {nextSeqno, regSeq[fence[o]]}
        BY <1>4, <1>5 DEF FlushEffect
      <4> QED
        BY <1>0, <1>4, <4>1
    <3>4. nextSeqno # 0
      BY <1>0
    <3> QED
      BY <1>5, <3>1, <3>2, <3>3, <3>4 DEF OnBook
  <2>2. CASE wd[o] # "GPU"
    <3>1. /\ lrs'[o] = lrs[o] /\ wd'[o] = wd[o]
          /\ (o \in active => o \in active')
          /\ fenced' = fenced /\ requests \subseteq requests'
      BY <1>5, <2>2 DEF FlushEffect
    <3>2. fence[o] # NoReg => regSeq'[fence[o]] = regSeq[fence[o]]
      BY <1>0, <1>2, <1>4, <1>5, <2>2 DEF FlushEffect
    <3> QED
      BY <1>4, <1>5, <2>2, <3>1, <3>2 DEF OnBook
  <2> QED
    BY <2>1, <2>2
<1>6. ASSUME NEW t \in Client, ExecDispatch(t) PROVE OnBook(o)'
  <2>0. DispatchEffect /\ hwSeqno' = hwSeqno /\ fence' = fence
    BY <1>6, Dispatched DEF ExecDispatch, regVars
  <2>1. CASE o \in batch.pinned
    <3>1. /\ lrs'[o] = nextSeqno /\ wd'[o] \in {"none", "GPU"}
          /\ o \in active'
          /\ o \in fenced' <=> o \in batch.needs
          /\ nextSeqno \in requests'
      BY <2>0, <2>1 DEF DispatchEffect
    <3>2. o \in batch.needs =>
            fence[o] # NoReg /\ regSeq'[fence[o]] = nextSeqno
      BY <1>4, <2>0, <2>1 DEF DispatchEffect, Pinned
    <3>3. fence[o] # NoReg => regSeq'[fence[o]] <= nextSeqno
      <4>1. fence[o] # NoReg =>
              regSeq'[fence[o]] \in {nextSeqno, regSeq[fence[o]]}
        BY <1>4, <2>0 DEF DispatchEffect
      <4> QED
        BY <1>0, <1>4, <4>1
    <3>4. nextSeqno # 0
      BY <1>0
    <3> QED
      BY <2>0, <3>1, <3>2, <3>3, <3>4 DEF OnBook
  <2>2. CASE o \notin batch.pinned
    <3>1. /\ lrs'[o] = lrs[o] /\ wd'[o] = wd[o]
          /\ (o \in active => o \in active')
          /\ o \in fenced' <=> o \in fenced
          /\ requests \subseteq requests'
      BY <2>0, <2>2 DEF DispatchEffect
    <3>2. fence[o] # NoReg => regSeq'[fence[o]] = regSeq[fence[o]]
      BY <1>0, <1>2, <1>4, <2>0, <2>2 DEF DispatchEffect
    <3> QED
      BY <1>4, <2>0, <3>1, <3>2 DEF OnBook
  <2> QED
    BY <2>1, <2>2
<1>7. CASE Retire
  <2>0. PICK n \in requests : RetireEffect(n)
    BY <1>7, Retired
  <2>a. /\ hwSeqno' = hwSeqno /\ fence' = fence /\ wd' = wd /\ n # 0
        /\ requests' = requests \ {n}
    BY <1>0, <1>7, <2>0 DEF Retire, regVars, RetireEffect
  <2>1. CASE lrs[o] = n
    <3>1. lrs'[o] = 0 /\ (o \in fenced' <=> o \in fenced /\ wd[o] # "none")
      BY <2>0, <2>1 DEF RetireEffect
    <3>2. fence[o] # NoReg => regSeq'[fence[o]] = 0
      BY <1>4, <2>0, <2>1 DEF RetireEffect
    <3> QED
      BY <1>0, <1>4, <2>a, <2>1, <3>1, <3>2 DEF OnBook
  <2>2. CASE lrs[o] # n
    <3>1. /\ lrs'[o] = lrs[o] /\ (o \in fenced' <=> o \in fenced)
          /\ o \in active => o \in active'
      BY <2>0, <2>2 DEF RetireEffect
    <3>2. fence[o] # NoReg => regSeq'[fence[o]] = regSeq[fence[o]]
      BY <1>0, <1>2, <1>4, <2>0, <2>2 DEF RetireEffect
    <3> QED
      BY <1>4, <2>a, <2>2, <3>1, <3>2 DEF OnBook
  <2> QED
    BY <2>1, <2>2
<1>8. CASE GpuProgress
  <2>1. hwSeqno < hwSeqno' /\ hwSeqno' \in Nat
    BY <1>0, <1>8 DEF GpuProgress
  <2>2. UNCHANGED <<wd, listVars, fence, regSeq, requests>>
    BY <1>8 DEF GpuProgress, domVars, regVars, reqVars
  <2> QED
    BY <1>0, <1>4, <2>1, <2>2 DEF OnBook, listVars
<1>9. ASSUME UNCHANGED <<listVars, fence, regSeq, requests, hwSeqno>>,
             \/ wd'[o] = wd[o]
             \/ wd[o] \in {"CPU", "GTT"} /\ (wd'[o] = "none" \/ lrs[o] = 0)
             \/ wd[o] # "GPU" /\ lrs[o] = 0
      PROVE  OnBook(o)'
  BY <1>4, <1>9 DEF OnBook, listVars
<1>10. ASSUME NEW t \in Client, Domain(t) PROVE OnBook(o)'
  <2>1. UNCHANGED <<listVars, fence, regSeq, requests, hwSeqno>>
    BY <1>10 DEF Domain, regVars, reqVars
  <2>2. wd'[o] = wd[o] \/ (wd[o] \in {"CPU", "GTT"} /\ wd'[o] = "none")
    BY <1>0, <1>10 DEF Domain, LeaveGtt
  <2> QED
    BY <1>9, <2>1, <2>2
<1>11. ASSUME NEW t \in Client, PutClear(t) PROVE OnBook(o)'
  <2>1. /\ UNCHANGED <<listVars, regSeq, requests, hwSeqno>>
        /\ wd'[o] = wd[o] \/ (wd[o] = "GTT" /\ wd'[o] = "none")
        /\ fence'[o] = IF o = th[t].victim THEN NoReg ELSE fence[o]
    BY <1>0, <1>11 DEF PutClear, LeaveGtt, reqVars
  <2>2. o = th[t].victim => o \notin fenced
    BY <1>11 DEF PutClear, GivesBack, GivingBack
  <2> QED
    BY <1>0, <1>4, <2>1, <2>2 DEF OnBook, listVars
<1>12. ASSUME NEW t \in Client, GetFree(t) PROVE OnBook(o)'
  <2>1. PICK r \in Reg : /\ regObj[r] = NoObj
                         /\ fence' = [fence EXCEPT ![th[t].obj] = r]
    BY <1>12 DEF GetFree
  <2>2. /\ UNCHANGED <<wd, listVars, regSeq, requests, hwSeqno>>
        /\ fence[th[t].obj] = NoReg
    BY <1>12 DEF GetFree, Search, domVars, reqVars
  <2>3. fence'[o] = IF o = th[t].obj THEN r ELSE fence[o]
    BY <1>0, <2>1
  <2>4. regSeq[r] <= hwSeqno /\ regSeq[r] \in Nat
    BY <1>0, <2>1 DEF FreeIdle
  <2> QED
    BY <1>0, <1>4, <2>2, <2>3, <2>4 DEF OnBook, listVars
<1>13. ASSUME NEW t \in Client, GttDomain(t) PROVE OnBook(o)'
  <2>1. UNCHANGED <<listVars, fence, regSeq, requests, hwSeqno>>
    BY <1>13 DEF GttDomain, regVars, reqVars
  <2>2. o # th[t].obj \/ th[t].op \notin GttWriteOps => wd'[o] = wd[o]
    BY <1>0, <1>13 DEF GttDomain
  <2>3. ~Executes(t) /\ th[t].pc \in AfterFlush /\ ~Waits(t)
    BY <1>13 DEF GttDomain, Places, Place, AfterFlush, Waits
  <2>4. GttWriteOps \cap GttReadOps = {}
    BY DEF GttWriteOps, GttReadOps
  <2>5. th[t].op \in GttWriteOps =>
          lrs[th[t].obj] = 0 /\ wd[th[t].obj] # "GPU"
    BY <2>3, <2>4 DEF Quiet
  <2> QED
    BY <1>9, <2>1, <2>2, <2>5
<1>14. ASSUME NEW t \in Client, Unbind(t) PROVE OnBook(o)'
  <2>1. UNCHANGED <<listVars, fence, regSeq, requests, hwSeqno>>
    BY <1>14 DEF Unbind, regVars, reqVars
  <2>2. o # th[t].obj => wd'[o] = wd[o]
    BY <1>0, <1>14 DEF Unbind
  <2>3. /\ ~Executes(t) /\ th[t].pc \in AfterFlush /\ ~Waits(t)
        /\ th[t].op \notin GttReadOps
    BY <1>14
    DEF Unbind, Places, Place, AfterFlush, Waits, Executes, GttReadOps
  <2>5. lrs[th[t].obj] = 0 /\ wd[th[t].obj] # "GPU"
    BY <2>3 DEF Quiet
  <2> QED
    BY <1>9, <2>1, <2>2, <2>5
<1>15. ASSUME NEW t \in Client, Step(t) PROVE OnBook(o)'
  <2>1. hwSeqno' = hwSeqno
    BY <1>15, HwStays
  <2>2. CASE Flush(t) \/ PutFlush(t) \/ ExecFlush(t)
    <3>1. fence' = fence
      BY <2>2 DEF Flush, PutFlush, ExecFlush
    <3>2. CASE GpuFlush
      BY <1>5, <2>1, <3>1, <3>2, Flushed
    <3>3. CASE ~GpuFlush
      BY <1>9, <2>1, <2>2, <3>1, <3>3 DEF Flush, PutFlush, ExecFlush, reqVars
    <3> QED
      BY <3>2, <3>3
  <2>3. CASE ~Flush(t) /\ ~PutFlush(t) /\ ~ExecFlush(t) /\ ~ExecDispatch(t)
             /\ ~Domain(t) /\ ~PutClear(t) /\ ~GetFree(t) /\ ~GttDomain(t)
             /\ ~Unbind(t)
    <3>1. UNCHANGED <<wd, listVars, fence, regSeq, requests>>
      BY <1>15, <2>3
      DEF Step, ReadLock, ExecLock, Hold, Bind, WaitRendering,
          Wake, Interrupt, PutWait, PutNone, GetOld,
          GetNone, GetSteal, SetTiling, Return, ExecHold,
          ExecPin, HoldObject, listVars, reqVars, domVars, regVars
    <3> QED
      BY <1>9, <2>1, <3>1
  <2> QED
    BY <1>6, <1>10, <1>11, <1>12, <1>13, <1>14, <1>15, <2>2, <2>3
<1>16. CASE UNCHANGED vars
  BY <1>9, <1>16 DEF vars, domVars, regVars, reqVars
<1> QED
  BY <1>7, <1>8, <1>15, <1>16 DEF Next

\* A register is given back only once the GPU is past it.
LEMMA FreeIdleStep ==
  ASSUME StateTypes, ThreadObjects, Paired, FreeIdle, 
         \A t \in Client : GivesBack(t), [Next]_vars
  PROVE  FreeIdle'
<1>0. /\ hwSeqno \in Nat /\ regSeq \in [Reg -> Nat]
      /\ regObj \in [Reg -> Obj \cup {NoObj}]
      /\ fence \in [Obj -> Reg \cup {NoReg}]
      /\ NoObj \notin Obj /\ fenced \subseteq Obj
      /\ batch.pinned \subseteq Obj
  BY NullAssumption DEF StateTypes
<1>1. ASSUME regObj' = regObj, hwSeqno' = hwSeqno,
             \A r \in Reg : \/ regSeq'[r] \in {0, regSeq[r]}
                            \/ \E o \in Obj : fence[o] = r
      PROVE  FreeIdle'
  BY <1>0, <1>1 DEF FreeIdle, Paired
<1>2. ASSUME NEW t \in Client, PutClear(t) PROVE FreeIdle'
  <2>1. /\ th[t].victim \in Obj /\ UNCHANGED <<regSeq, hwSeqno>>
        /\ regObj' = [regObj EXCEPT ![fence[th[t].victim]] = NoObj]
        /\ regSeq[fence[th[t].victim]] <= hwSeqno
    BY <1>2 DEF PutClear, ThreadObjects, GivesBack, GivingBack
  <2> QED
    BY <1>0, <2>1 DEF FreeIdle
<1>3. ASSUME NEW t \in Client, GetFree(t) PROVE FreeIdle'
  <2>1. /\ th[t].obj \in Obj /\ UNCHANGED <<regSeq, hwSeqno>>
        /\ \E r \in Reg : regObj' = [regObj EXCEPT ![r] = th[t].obj]
    BY <1>3 DEF GetFree, Search, ThreadObjects, AtWork
  <2> QED
    BY <1>0, <2>1 DEF FreeIdle
<1>4. ASSUME NEW t \in Client, Step(t), ~PutClear(t), ~GetFree(t)
      PROVE  FreeIdle'
  <2>1. hwSeqno' = hwSeqno
    BY <1>4, HwStays
  <2>2. regObj' = regObj
    BY <1>4 DEF Step, ReadLock, ExecLock, Hold, Bind, Flush, WaitRendering,
          Wake, Interrupt, Domain, PutFlush, PutWait, PutNone, GetOld,
          GetNone, GetSteal, GttDomain, Unbind, SetTiling, Return, ExecHold,
          ExecPin, ExecFlush, ExecDispatch, HoldObject, regVars
  <2>3. CASE GpuFlush
    <3>1. FlushEffect
      BY <2>3, Flushed
    <3>2. \A r \in Reg : \/ regSeq'[r] \in {0, regSeq[r]}
                         \/ \E o \in Obj : fence[o] = r
      BY <1>0, <3>1 DEF FlushEffect
    <3> QED
      BY <1>1, <2>1, <2>2, <3>2
  <2>4. CASE ExecDispatch(t)
    <3>1. DispatchEffect
      BY <2>4, Dispatched
    <3>2. \A r \in Reg : \/ regSeq'[r] \in {0, regSeq[r]}
                         \/ \E o \in Obj : fence[o] = r
      BY <1>0, <3>1 DEF DispatchEffect
    <3> QED
      BY <1>1, <2>1, <2>2, <3>2
  <2>5. CASE regSeq' = regSeq
    BY <1>1, <2>1, <2>2, <2>5
  <2> QED
    BY <1>4, <2>3, <2>4, <2>5, Quiets DEF Flush, PutFlush, ExecFlush
<1>5. CASE Retire
  <2>1. PICK n \in requests : RetireEffect(n)
    BY <1>5, Retired
  <2>2. \A r \in Reg : regSeq'[r] \in {0, regSeq[r]}
    BY <2>1 DEF RetireEffect
  <2> QED
    BY <1>1, <1>5, <2>2 DEF Retire, regVars
<1>6. CASE GpuProgress
  <2>1. hwSeqno < hwSeqno' /\ hwSeqno' \in Nat /\ UNCHANGED <<regSeq, regObj>>
    BY <1>0, <1>6 DEF GpuProgress, regVars
  <2> QED
    BY <1>0, <2>1 DEF FreeIdle
<1>7. CASE UNCHANGED vars
  BY <1>1, <1>7 DEF vars, regVars
<1> QED
  BY <1>2, <1>3, <1>4, <1>5, <1>6, <1>7 DEF Next

-----------------------------------------------------------------------------
\* The threads.

\* A step of a thread keeps its object quiet.
LEMMA OwnQuiet ==
  ASSUME NEW t \in Client, StateTypes, ThreadObjects, Paired, Places,
     Holds, OnBooks, Shown, Quiet(t), GivesBack(t), Valid(t), Covers(t),
     Step(t)
  PROVE  Quiet(t)'
<1> USE DEF lockVars, gttVars, domVars, listVars, regVars, reqVars
<1>0. /\ th \in [Client -> ThreadState] /\ th[t] \in ThreadState
      /\ batch \in [todo : SUBSET Obj, pinned : SUBSET Obj,
                    needs : SUBSET Obj, write : SUBSET Obj]
      /\ wd \in [Obj -> {"none", "CPU", "GTT", "GPU"}] /\ lrs \in [Obj -> Nat]
      /\ fence \in [Obj -> Reg \cup {NoReg}] /\ regSeq \in [Reg -> Nat]
      /\ hwSeqno \in Nat
      /\ Place(t) /\ HoldsOwn(t)
      /\ th[t].pc \in AtWork => th[t].obj \in Obj
      /\ th[t].pc \in {"put", "clear"} => th[t].victim \in Obj
      /\ \A o \in Obj : OnBook(o)
      /\ NoObj \notin Obj /\ NoReg \notin Reg
  BY NullAssumption DEF StateTypes, ThreadObjects, Holds, Places, OnBooks
<1> USE DEF Quiet, AfterFlush, Waits
<1>1. CASE ReadLock(t)
  BY <1>1, <1>0 DEF ReadLock, Ready, Place, Executes, ThreadState, Idle,
     AtWork, SharedOps, FaultOps
<1>2. CASE ExecLock(t)
  BY <1>2, <1>0 DEF ExecLock, Ready, Place, Executes, ThreadState, Idle,
     AtWork
<1>3. CASE Hold(t)
  <2>1. PICK op \in Ops \cup {"none"}, o \in Obj :
          op # "exec" /\ HoldObject(t, op, o)
    BY <1>3, <1>0 DEF Hold, Place, Executes, ThreadState, AtWork
  <2>2. /\ th'[t].op # "exec" /\ th'[t].victim = NoObj
        /\ th'[t].pc \in {"tile", "bind", "flush", "out"}
    BY <2>1, <1>0 DEF HoldObject, Idle
  <2> QED
    BY <2>2 DEF Executes
<1>4. CASE Bind(t)
  BY <1>4, <1>0 DEF Bind, Goto, Finish, Place, Executes, ThreadState, Idle,
     AtWork
<1>5. CASE Flush(t)
  BY <1>5, <1>0 DEF Flush, Place, Executes, ThreadState, Idle, AtWork
<1>6. CASE WaitRendering(t)
  BY <1>6, <1>0 DEF WaitRendering, Place, Executes, ThreadState, Idle,
     AtWork, OnBook, WaitSeqno
<1>7. CASE Wake(t)
  BY <1>7, <1>0 DEF Wake, Place, Executes, ThreadState, Idle, AtWork, OnBook
<1>8. CASE Interrupt(t)
  BY <1>8, <1>0 DEF Interrupt, Finish, Place, Executes, ThreadState, Idle,
     AtWork
<1>9. CASE Domain(t)
  BY <1>9, <1>0 DEF Domain, LeaveGtt, Place, Executes, ThreadState, Idle,
     AtWork, FenceStep
<1>10. CASE PutFlush(t)
  <2>1. FlushEffect /\ th' = th /\ th[t].pc = "put"
    BY <1>10, Flushed DEF PutFlush
  <2>2. th[t].obj \in Obj
    BY <1>0, <2>1 DEF AtWork
  <2>3. wd[th[t].obj] # "GPU" =>
          wd'[th[t].obj] = wd[th[t].obj] /\ lrs'[th[t].obj] = lrs[th[t].obj]
    BY <2>1, <2>2 DEF FlushEffect
  <2> QED
    BY <2>1, <2>3 DEF Executes
<1>11. CASE PutWait(t)
  BY <1>11, <1>0 DEF PutWait, Place, Executes, ThreadState, Idle, AtWork
<1>12. CASE PutNone(t)
  BY <1>12, <1>0 DEF PutNone, PutDone, Place, Executes, ThreadState, Idle,
     AtWork
<1>13. CASE PutClear(t)
  BY <1>13, <1>0 DEF PutClear, PutDone, LeaveGtt, Place, Executes,
     ThreadState, Idle, AtWork
<1>14. CASE GetOld(t)
  <2>1. /\ UNCHANGED <<wd, lrs>> /\ th[t].pc = "get" /\ Got(t, FALSE)
    BY <1>14 DEF GetOld
  <2> QED
    BY <1>0, <2>1 DEF Got, Goto, Executes, ThreadState, AtWork
<1>15. CASE GetFree(t)
  <2>1. /\ UNCHANGED <<wd, lrs>> /\ th[t].pc = "get" /\ Got(t, FALSE)
    BY <1>15 DEF GetFree, Search
  <2> QED
    BY <1>0, <2>1 DEF Got, Goto, Executes, ThreadState, AtWork
<1>16. CASE GetNone(t)
  BY <1>16, <1>0 DEF GetNone, Search, Got, Goto, Finish, Place, Executes,
     ThreadState, Idle, AtWork
<1>17. CASE GetSteal(t)
  BY <1>17, <1>0 DEF GetSteal, Search, Place, Executes, ThreadState, Idle,
     AtWork
<1>18. CASE GttDomain(t)
  BY <1>18, <1>0 DEF GttDomain, Finish, Place, Executes, ThreadState, Idle,
     AtWork
<1>19. CASE Unbind(t)
  BY <1>19, <1>0 DEF Unbind, Finish, Place, Executes, ThreadState, Idle,
     AtWork
<1>20. CASE SetTiling(t)
  BY <1>20, <1>0 DEF SetTiling, Finish, Place, Executes, ThreadState, Idle,
     AtWork
<1>21. CASE Return(t)
  BY <1>21, <1>0 DEF Return, Place, Executes, ThreadState, Idle, AtWork
<1>22. CASE ExecHold(t)
  BY <1>22, <1>0 DEF ExecHold, Finish, Place, Executes, ThreadState, Idle,
     AtWork, FenceStep
<1>23. CASE ExecPin(t)
  BY <1>23, <1>0 DEF ExecPin, Place, Executes, ThreadState, Idle, AtWork
<1>24. CASE ExecFlush(t)
  BY <1>24, <1>0 DEF ExecFlush, Goto, Place, Executes, ThreadState, Idle,
     AtWork
<1>25. CASE ExecDispatch(t)
  BY <1>25, <1>0 DEF ExecDispatch, Finish, Place, Executes, ThreadState,
     Idle, AtWork
<1> QED
  BY <1>1, <1>2, <1>3, <1>4, <1>5, <1>6, <1>7, <1>8, <1>9, <1>10, <1>11,
     <1>12, <1>13, <1>14, <1>15, <1>16, <1>17, <1>18, <1>19, <1>20, <1>21,
     <1>22, <1>23, <1>24, <1>25 DEF Step

\* The same of the fence it gives back.
LEMMA OwnGives ==
  ASSUME NEW t \in Client, StateTypes, ThreadObjects, Paired, Places,
     Holds, OnBooks, Shown, Quiet(t), GivesBack(t), Valid(t), Covers(t),
     Step(t)
  PROVE  GivesBack(t)'
<1> USE DEF lockVars, gttVars, domVars, listVars, regVars, reqVars
<1>0. /\ th \in [Client -> ThreadState] /\ th[t] \in ThreadState
      /\ batch \in [todo : SUBSET Obj, pinned : SUBSET Obj,
                    needs : SUBSET Obj, write : SUBSET Obj]
      /\ wd \in [Obj -> {"none", "CPU", "GTT", "GPU"}] /\ lrs \in [Obj -> Nat]
      /\ fence \in [Obj -> Reg \cup {NoReg}] /\ regSeq \in [Reg -> Nat]
      /\ hwSeqno \in Nat
      /\ Place(t) /\ HoldsOwn(t)
      /\ th[t].pc \in AtWork => th[t].obj \in Obj
      /\ th[t].pc \in {"put", "clear"} => th[t].victim \in Obj
      /\ \A o \in Obj : OnBook(o)
      /\ NoObj \notin Obj /\ NoReg \notin Reg
  BY NullAssumption DEF StateTypes, ThreadObjects, Holds, Places, OnBooks
<1> USE DEF GivesBack, GivingBack
<1>1. CASE ReadLock(t)
  BY <1>1, <1>0 DEF ReadLock, Ready, Place, Executes, ThreadState, Idle,
     AtWork, SharedOps, FaultOps
<1>2. CASE ExecLock(t)
  BY <1>2, <1>0 DEF ExecLock, Ready, Place, Executes, ThreadState, Idle,
     AtWork
<1>3. CASE Hold(t)
  <2>1. PICK op \in Ops \cup {"none"}, o \in Obj :
          op # "exec" /\ HoldObject(t, op, o)
    BY <1>3, <1>0 DEF Hold, Place, Executes, ThreadState, AtWork
  <2>2. /\ th'[t].op # "exec" /\ th'[t].victim = NoObj
        /\ th'[t].pc \in {"tile", "bind", "flush", "out"}
    BY <2>1, <1>0 DEF HoldObject, Idle
  <2> QED
    BY <2>2 DEF Executes
<1>4. CASE Bind(t)
  BY <1>4, <1>0 DEF Bind, Goto, Finish, Place, Executes, ThreadState, Idle,
     AtWork
<1>5. CASE Flush(t)
  BY <1>5, <1>0 DEF Flush, Place, Executes, ThreadState, Idle, AtWork
<1>6. CASE WaitRendering(t)
  BY <1>6, <1>0 DEF WaitRendering, Place, Executes, ThreadState, Idle, AtWork
<1>7. CASE Wake(t)
  BY <1>7, <1>0 DEF Wake, Place, Executes, ThreadState, Idle, AtWork, OnBook
<1>8. CASE Interrupt(t)
  BY <1>8, <1>0 DEF Interrupt, Finish, Place, Executes, ThreadState, Idle,
     AtWork
<1>9. CASE Domain(t)
  BY <1>9, <1>0 DEF Domain, LeaveGtt, Place, Executes, ThreadState, Idle,
     AtWork, FenceStep
<1>10. CASE PutFlush(t)
  BY <1>10, <1>0 DEF PutFlush, Place, Executes, ThreadState, Idle, AtWork
<1>11. CASE PutWait(t)
  BY <1>11, <1>0 DEF PutWait, Place, Executes, ThreadState, Idle, AtWork
<1>12. CASE PutNone(t)
  BY <1>12, <1>0 DEF PutNone, PutDone, Place, Executes, ThreadState, Idle,
     AtWork
<1>13. CASE PutClear(t)
  BY <1>13, <1>0 DEF PutClear, PutDone, LeaveGtt, Place, Executes,
     ThreadState, Idle, AtWork
<1>14. CASE GetOld(t)
  BY <1>14, <1>0 DEF GetOld, Got, Goto, Finish, Place, Executes,
     ThreadState, Idle, AtWork
<1>15. CASE GetFree(t)
  BY <1>15, <1>0 DEF GetFree, Search, Got, Goto, Finish, Place, Executes,
     ThreadState, Idle, AtWork
<1>16. CASE GetNone(t)
  BY <1>16, <1>0 DEF GetNone, Search, Got, Goto, Finish, Place, Executes,
     ThreadState, Idle, AtWork
<1>17. CASE GetSteal(t)
  BY <1>17, <1>0 DEF GetSteal, Search, Place, Executes, ThreadState, Idle,
     AtWork
<1>18. CASE GttDomain(t)
  BY <1>18, <1>0 DEF GttDomain, Finish, Place, Executes, ThreadState, Idle,
     AtWork
<1>19. CASE Unbind(t)
  BY <1>19, <1>0 DEF Unbind, Finish, Place, Executes, ThreadState, Idle,
     AtWork
<1>20. CASE SetTiling(t)
  BY <1>20, <1>0 DEF SetTiling, Finish, Place, Executes, ThreadState, Idle,
     AtWork
<1>21. CASE Return(t)
  BY <1>21, <1>0 DEF Return, Place, Executes, ThreadState, Idle, AtWork
<1>22. CASE ExecHold(t)
  BY <1>22, <1>0 DEF ExecHold, Finish, Place, Executes, ThreadState, Idle,
     AtWork, FenceStep
<1>23. CASE ExecPin(t)
  BY <1>23, <1>0 DEF ExecPin, Place, Executes, ThreadState, Idle, AtWork
<1>24. CASE ExecFlush(t)
  BY <1>24, <1>0 DEF ExecFlush, Goto, Place, Executes, ThreadState, Idle,
     AtWork
<1>25. CASE ExecDispatch(t)
  BY <1>25, <1>0 DEF ExecDispatch, Finish, Place, Executes, ThreadState,
     Idle, AtWork
<1> QED
  BY <1>1, <1>2, <1>3, <1>4, <1>5, <1>6, <1>7, <1>8, <1>9, <1>10, <1>11,
     <1>12, <1>13, <1>14, <1>15, <1>16, <1>17, <1>18, <1>19, <1>20, <1>21,
     <1>22, <1>23, <1>24, <1>25 DEF Step

\* The same of the validity of the fence of its object.
LEMMA OwnValid ==
  ASSUME NEW t \in Client, StateTypes, ThreadObjects, Paired, Places,
     Holds, OnBooks, Shown, Quiet(t), GivesBack(t), Valid(t), Covers(t),
     Step(t)
  PROVE  Valid(t)'
<1> USE DEF lockVars, gttVars, domVars, listVars, regVars, reqVars
<1>0. /\ th \in [Client -> ThreadState] /\ th[t] \in ThreadState
      /\ batch \in [todo : SUBSET Obj, pinned : SUBSET Obj,
                    needs : SUBSET Obj, write : SUBSET Obj]
      /\ wd \in [Obj -> {"none", "CPU", "GTT", "GPU"}] /\ lrs \in [Obj -> Nat]
      /\ fence \in [Obj -> Reg \cup {NoReg}] /\ regSeq \in [Reg -> Nat]
      /\ hwSeqno \in Nat
      /\ Place(t) /\ HoldsOwn(t)
      /\ th[t].pc \in AtWork => th[t].obj \in Obj
      /\ th[t].pc \in {"put", "clear"} => th[t].victim \in Obj
      /\ \A o \in Obj : OnBook(o)
      /\ NoObj \notin Obj /\ NoReg \notin Reg
  BY NullAssumption DEF StateTypes, ThreadObjects, Holds, Places, OnBooks
<1> USE DEF Valid, GivingBack, InBatch
<1>1. CASE ReadLock(t)
  BY <1>1, <1>0 DEF ReadLock, Ready, Place, Executes, ThreadState, Idle,
     AtWork, SharedOps, FaultOps
<1>2. CASE ExecLock(t)
  BY <1>2, <1>0 DEF ExecLock, Ready, Place, Executes, ThreadState, Idle,
     AtWork
<1>3. CASE Hold(t)
  <2>1. PICK op \in Ops \cup {"none"}, o \in Obj :
          op # "exec" /\ HoldObject(t, op, o)
    BY <1>3, <1>0 DEF Hold, Place, Executes, ThreadState, AtWork
  <2>2. /\ th'[t].op # "exec" /\ th'[t].victim = NoObj
        /\ th'[t].pc \in {"tile", "bind", "flush", "out"}
    BY <2>1, <1>0 DEF HoldObject, Idle
  <2> QED
    BY <2>2 DEF Executes
<1>4. CASE Bind(t)
  BY <1>4, <1>0 DEF Bind, Goto, Finish, Place, Executes, ThreadState, Idle,
     AtWork
<1>5. CASE Flush(t)
  BY <1>5, <1>0 DEF Flush, Place, Executes, ThreadState, Idle, AtWork
<1>6. CASE WaitRendering(t)
  BY <1>6, <1>0 DEF WaitRendering, Place, Executes, ThreadState, Idle, AtWork
<1>7. CASE Wake(t)
  BY <1>7, <1>0 DEF Wake, Place, Executes, ThreadState, Idle, AtWork
<1>8. CASE Interrupt(t)
  BY <1>8, <1>0 DEF Interrupt, Finish, Place, Executes, ThreadState, Idle,
     AtWork
<1>9. CASE Domain(t)
  BY <1>9, <1>0 DEF Domain, LeaveGtt, Place, Executes, ThreadState, Idle,
     AtWork, FenceStep
<1>10. CASE PutFlush(t)
  BY <1>10, <1>0 DEF PutFlush, Place, Executes, ThreadState, Idle, AtWork
<1>11. CASE PutWait(t)
  BY <1>11, <1>0 DEF PutWait, Place, Executes, ThreadState, Idle, AtWork
<1>12. CASE PutNone(t)
  BY <1>12, <1>0 DEF PutNone, PutDone, Place, Executes, ThreadState, Idle,
     AtWork, Shown
<1>13. CASE PutClear(t)
  BY <1>13, <1>0 DEF PutClear, PutDone, LeaveGtt, Place, Executes,
     ThreadState, Idle, AtWork
<1>14. CASE GetOld(t)
  BY <1>14, <1>0 DEF GetOld, Got, Goto, Finish, Place, Executes,
     ThreadState, Idle, AtWork, NeedsFence
<1>15. CASE GetFree(t)
  BY <1>15, <1>0 DEF GetFree, Search, Got, Goto, Finish, Place, Executes,
     ThreadState, Idle, AtWork, NeedsFence
<1>16. CASE GetNone(t)
  BY <1>16, <1>0 DEF GetNone, Search, Got, Goto, Finish, Place, Executes,
     ThreadState, Idle, AtWork
<1>17. CASE GetSteal(t)
  BY <1>17, <1>0 DEF GetSteal, Search, Place, Executes, ThreadState, Idle,
     AtWork
<1>18. CASE GttDomain(t)
  BY <1>18, <1>0 DEF GttDomain, Finish, Place, Executes, ThreadState, Idle,
     AtWork
<1>19. CASE Unbind(t)
  BY <1>19, <1>0 DEF Unbind, Finish, Place, Executes, ThreadState, Idle,
     AtWork
<1>20. CASE SetTiling(t)
  BY <1>20, <1>0 DEF SetTiling, Finish, Place, Executes, ThreadState, Idle,
     AtWork
<1>21. CASE Return(t)
  BY <1>21, <1>0 DEF Return, Place, Executes, ThreadState, Idle, AtWork
<1>22. CASE ExecHold(t)
  BY <1>22, <1>0 DEF ExecHold, Finish, Place, Executes, ThreadState, Idle,
     AtWork, FenceStep
<1>23. CASE ExecPin(t)
  BY <1>23, <1>0 DEF ExecPin, Place, Executes, ThreadState, Idle, AtWork
<1>24. CASE ExecFlush(t)
  BY <1>24, <1>0 DEF ExecFlush, Goto, Place, Executes, ThreadState, Idle,
     AtWork
<1>25. CASE ExecDispatch(t)
  BY <1>25, <1>0 DEF ExecDispatch, Finish, Place, Executes, ThreadState,
     Idle, AtWork
<1> QED
  BY <1>1, <1>2, <1>3, <1>4, <1>5, <1>6, <1>7, <1>8, <1>9, <1>10, <1>11,
     <1>12, <1>13, <1>14, <1>15, <1>16, <1>17, <1>18, <1>19, <1>20, <1>21,
     <1>22, <1>23, <1>24, <1>25 DEF Step

\* The same of the fences its batch asks for.
LEMMA OwnCovers ==
  ASSUME NEW t \in Client, StateTypes, ThreadObjects, Paired, Places,
     Holds, OnBooks, Shown, Quiet(t), GivesBack(t), Valid(t), Covers(t),
     Step(t)
  PROVE  Covers(t)'
<1> USE DEF lockVars, gttVars, domVars, listVars, regVars, reqVars
<1>0. /\ th \in [Client -> ThreadState] /\ th[t] \in ThreadState
      /\ batch \in [todo : SUBSET Obj, pinned : SUBSET Obj,
                    needs : SUBSET Obj, write : SUBSET Obj]
      /\ wd \in [Obj -> {"none", "CPU", "GTT", "GPU"}] /\ lrs \in [Obj -> Nat]
      /\ fence \in [Obj -> Reg \cup {NoReg}] /\ regSeq \in [Reg -> Nat]
      /\ hwSeqno \in Nat
      /\ Place(t) /\ HoldsOwn(t)
      /\ th[t].pc \in AtWork => th[t].obj \in Obj
      /\ th[t].pc \in {"put", "clear"} => th[t].victim \in Obj
      /\ \A o \in Obj : OnBook(o)
      /\ NoObj \notin Obj /\ NoReg \notin Reg
  BY NullAssumption DEF StateTypes, ThreadObjects, Holds, Places, OnBooks
<1> USE DEF Covers, InBatch
<1>1. CASE ReadLock(t)
  BY <1>1, <1>0 DEF ReadLock, Ready, Place, Executes, ThreadState, Idle,
     AtWork, SharedOps, FaultOps
<1>2. CASE ExecLock(t)
  BY <1>2, <1>0 DEF ExecLock, Ready, Place, Executes, ThreadState, Idle,
     AtWork
<1>3. CASE Hold(t)
  <2>1. PICK op \in Ops \cup {"none"}, o \in Obj :
          op # "exec" /\ HoldObject(t, op, o)
    BY <1>3, <1>0 DEF Hold, Place, Executes, ThreadState, AtWork
  <2>2. /\ th'[t].op # "exec" /\ th'[t].victim = NoObj
        /\ th'[t].pc \in {"tile", "bind", "flush", "out"}
    BY <2>1, <1>0 DEF HoldObject, Idle
  <2> QED
    BY <2>2 DEF Executes
<1>4. CASE Bind(t)
  BY <1>4, <1>0 DEF Bind, Goto, Finish, Place, Executes, ThreadState, Idle,
     AtWork
<1>5. CASE Flush(t)
  BY <1>5, <1>0 DEF Flush, Place, Executes, ThreadState, Idle, AtWork
<1>6. CASE WaitRendering(t)
  BY <1>6, <1>0 DEF WaitRendering, Place, Executes, ThreadState, Idle, AtWork
<1>7. CASE Wake(t)
  BY <1>7, <1>0 DEF Wake, Place, Executes, ThreadState, Idle, AtWork
<1>8. CASE Interrupt(t)
  BY <1>8, <1>0 DEF Interrupt, Finish, Place, Executes, ThreadState, Idle,
     AtWork
<1>9. CASE Domain(t)
  BY <1>9, <1>0 DEF Domain, LeaveGtt, Place, Executes, ThreadState, Idle,
     AtWork, FenceStep
<1>10. CASE PutFlush(t)
  BY <1>10, <1>0 DEF PutFlush, Place, Executes, ThreadState, Idle, AtWork
<1>11. CASE PutWait(t)
  BY <1>11, <1>0 DEF PutWait, Place, Executes, ThreadState, Idle, AtWork
<1>12. CASE PutNone(t)
  BY <1>12, <1>0 DEF PutNone, PutDone, Place, Executes, ThreadState, Idle,
     AtWork
<1>13. CASE PutClear(t)
  BY <1>13, <1>0 DEF PutClear, PutDone, LeaveGtt, Place, Executes,
     ThreadState, Idle, AtWork
<1>14. CASE GetOld(t)
  BY <1>14, <1>0 DEF GetOld, Got, Goto, Finish, Place, Executes,
     ThreadState, Idle, AtWork
<1>15. CASE GetFree(t)
  BY <1>15, <1>0 DEF GetFree, Search, Got, Goto, Finish, Place, Executes,
     ThreadState, Idle, AtWork
<1>16. CASE GetNone(t)
  BY <1>16, <1>0 DEF GetNone, Search, Got, Goto, Finish, Place, Executes,
     ThreadState, Idle, AtWork
<1>17. CASE GetSteal(t)
  BY <1>17, <1>0 DEF GetSteal, Search, Place, Executes, ThreadState, Idle,
     AtWork
<1>18. CASE GttDomain(t)
  BY <1>18, <1>0 DEF GttDomain, Finish, Place, Executes, ThreadState, Idle,
     AtWork
<1>19. CASE Unbind(t)
  BY <1>19, <1>0 DEF Unbind, Finish, Place, Executes, ThreadState, Idle,
     AtWork
<1>20. CASE SetTiling(t)
  BY <1>20, <1>0 DEF SetTiling, Finish, Place, Executes, ThreadState, Idle,
     AtWork
<1>21. CASE Return(t)
  BY <1>21, <1>0 DEF Return, Place, Executes, ThreadState, Idle, AtWork
<1>22. CASE ExecHold(t)
  BY <1>22, <1>0 DEF ExecHold, Finish, Place, Executes, ThreadState, Idle,
     AtWork, FenceStep
<1>23. CASE ExecPin(t)
  BY <1>23, <1>0 DEF ExecPin, Place, Executes, ThreadState, Idle, AtWork
<1>24. CASE ExecFlush(t)
  BY <1>24, <1>0 DEF ExecFlush, Goto, Place, Executes, ThreadState, Idle,
     AtWork
<1>25. CASE ExecDispatch(t)
  BY <1>25, <1>0 DEF ExecDispatch, Finish, Place, Executes, ThreadState,
     Idle, AtWork
<1> QED
  BY <1>1, <1>2, <1>3, <1>4, <1>5, <1>6, <1>7, <1>8, <1>9, <1>10, <1>11,
     <1>12, <1>13, <1>14, <1>15, <1>16, <1>17, <1>18, <1>19, <1>20, <1>21,
     <1>22, <1>23, <1>24, <1>25 DEF Step

\* Retirement and the progress of the GPU keep all of this.
LEMMA ThreadsQuiet ==
  ASSUME StateTypes, ThreadObjects, Paired, NEW s \in Client,
         Retire \/ GpuProgress \/ UNCHANGED vars
  PROVE  /\ Place(s) => Place(s)'
         /\ HoldsOwn(s) => HoldsOwn(s)'
         /\ Quiet(s) => Quiet(s)'
         /\ GivesBack(s) => GivesBack(s)'
         /\ Valid(s) => Valid(s)'
         /\ Covers(s) => Covers(s)'
<1>0. /\ th' = th /\ batch' = batch /\ drmW' = drmW /\ held' = held
      /\ wd' = wd
      /\ tiling' = tiling /\ invalid' = invalid /\ fence' = fence
  BY DEF Retire, GpuProgress, vars, lockVars, regVars, domVars
<1>1. \A o \in Obj : /\ lrs'[o] \in {lrs[o], 0}
                     /\ o \in fenced' => o \in fenced
                     /\ fence[o] # NoReg =>
                          regSeq'[fence[o]] \in {regSeq[fence[o]], 0}
  <2>1. CASE Retire
    <3>1. PICK n \in requests : RetireEffect(n)
      BY <2>1, Retired
    <3>2. ASSUME NEW o \in Obj, fence[o] # NoReg PROVE fence[o] \in Reg
      BY <3>2 DEF StateTypes
    <3>3. ASSUME NEW r \in Reg PROVE regSeq'[r] \in {regSeq[r], 0}
      BY <3>1 DEF RetireEffect
    <3>4. ASSUME NEW o \in Obj
          PROVE  lrs'[o] \in {lrs[o], 0} /\ (o \in fenced' => o \in fenced)
      BY <3>1 DEF RetireEffect
    <3> QED
      BY <3>2, <3>3, <3>4
  <2>2. CASE UNCHANGED <<listVars, regSeq>>
    BY <2>2 DEF listVars
  <2> QED
    BY <2>1, <2>2 DEF GpuProgress, vars
<1>2. hwSeqno <= hwSeqno' /\ hwSeqno' \in Nat /\ hwSeqno \in Nat
  BY DEF Retire, GpuProgress, vars, StateTypes
<1>3. /\ th[s] \in ThreadState /\ lrs \in [Obj -> Nat]
      /\ regSeq \in [Reg -> Nat]
      /\ fence \in [Obj -> Reg \cup {NoReg}]
      /\ th[s].pc \in AtWork => th[s].obj \in Obj
      /\ GivingBack(s) => th[s].victim \in Obj
  BY NullAssumption DEF StateTypes, ThreadObjects, GivingBack, ThreadState
<1>4. Place(s) => Place(s)'
  BY <1>0 DEF Place, Executes
<1>5. HoldsOwn(s) => HoldsOwn(s)'
  BY <1>0 DEF HoldsOwn, GivingBack, InBatch, Executes
<1>6. Quiet(s) => Quiet(s)'
  <2>0. SUFFICES ASSUME Quiet(s), ~Executes(s), th[s].pc \in AfterFlush
                 PROVE  Quiet(s)'
    BY <1>0 DEF Quiet, Executes
  <2>1. th[s].obj \in Obj
    BY <1>3, <2>0 DEF AfterFlush, AtWork
  <2>2. lrs'[th[s].obj] \in {lrs[th[s].obj], 0} /\ th[s].seq \in Nat
    BY <1>1, <1>3, <2>1 DEF ThreadState
  <2> QED
    BY <1>0, <2>0, <2>2 DEF Quiet, Executes, Waits
<1>7. GivesBack(s) => GivesBack(s)'
  <2>0. SUFFICES ASSUME GivesBack(s), GivingBack(s), th[s].pc # "put"
                 PROVE  GivesBack(s)'
    BY <1>0 DEF GivesBack, GivingBack
  <2> DEFINE v == th[s].victim
  <2>1. /\ v \in Obj /\ fence[v] \in Reg /\ th[s].seq \in Nat
        /\ regSeq[fence[v]] \in Nat
    BY <1>3, <2>0 DEF GivesBack, ThreadState
  <2>2. /\ regSeq'[fence[v]] \in {regSeq[fence[v]], 0}
        /\ v \in fenced' => v \in fenced
    BY <1>1, <2>0, <2>1 DEF GivesBack
  <2> QED
    BY <1>0, <1>2, <2>0, <2>1, <2>2 DEF GivesBack, GivingBack
<1>8. Valid(s) => Valid(s)'
  BY <1>0 DEF Valid, GivingBack, InBatch, Executes
<1>9. Covers(s) => Covers(s)'
  BY <1>0 DEF Covers, InBatch, Executes
<1> QED
  BY <1>4, <1>5, <1>6, <1>7, <1>8, <1>9

-----------------------------------------------------------------------------
\* The pinned objects and the queued batches.

\* Nothing that is pinned loses its fence or is retiled.
LEMMA PinnedStep ==
  ASSUME StateTypes, ThreadObjects, Places, Holds, Pinned,
         \A t \in Client : Valid(t), [Next]_vars
  PROVE  Pinned'
<1>0. /\ fence \in [Obj -> Reg \cup {NoReg}] /\ NoReg \notin Reg
      /\ NoThread \notin Client
      /\ batch \in [todo : SUBSET Obj, pinned : SUBSET Obj,
                    needs : SUBSET Obj, write : SUBSET Obj]
  BY NullAssumption DEF StateTypes
<1>1. ASSUME \A o \in batch.pinned : /\ o \in invalid' => o \in invalid
                                     /\ fence[o] # NoReg => fence'[o] # NoReg,
             batch'.pinned \subseteq batch.pinned,
             batch'.needs \subseteq batch.needs \/ batch'.pinned = {}
      PROVE  Pinned'
  BY <1>1 DEF Pinned
<1>2. ASSUME NEW t \in Client, PutClear(t) PROVE Pinned'
  <2>1. th[t].victim \notin batch.pinned
    BY <1>2 DEF PutClear, Places, Place, Holds, HoldsOwn, GivingBack
  <2>2. ASSUME NEW o \in batch.pinned
        PROVE  /\ o \in invalid' => o \in invalid
               /\ fence[o] # NoReg => fence'[o] # NoReg
    BY <1>0, <1>2, <2>1, <2>2 DEF PutClear
  <2> QED
    BY <1>1, <1>2, <2>2 DEF PutClear
<1>3. ASSUME NEW t \in Client, GetFree(t) PROVE Pinned'
  <2>1. PICK r \in Reg : fence' = [fence EXCEPT ![th[t].obj] = r]
    BY <1>3 DEF GetFree
  <2> QED
    BY <1>0, <1>1, <1>3, <2>1 DEF GetFree
<1>4. ASSUME NEW t \in Client, SetTiling(t) PROVE Pinned'
  <2>1. UNCHANGED <<batch, fence>>
    BY <1>4 DEF SetTiling, regVars
  <2>2. \A o \in Obj : o \in invalid' =>
          o \in invalid \/ o \notin batch.pinned
    BY <1>4 DEF SetTiling
  <2> QED
    BY <1>0, <1>1, <2>1, <2>2
<1>5. ASSUME NEW t \in Client, ExecPin(t) PROVE Pinned'
  <2>1. /\ UNCHANGED <<fence, invalid>>
        /\ batch' = [batch EXCEPT !.pinned = @ \cup {th[t].obj}]
        /\ th[t].pc = "pin"
    BY <1>5 DEF ExecPin, regVars
  <2>2. /\ th[t].obj \notin invalid
        /\ th[t].obj \in batch.needs => fence[th[t].obj] # NoReg
    BY <2>1 DEF Valid
  <2>3. /\ batch'.pinned = batch.pinned \cup {th[t].obj}
        /\ batch'.needs = batch.needs
    BY <1>0, <2>1
  <2> QED
    BY <2>1, <2>2, <2>3 DEF Pinned
<1>6. ASSUME NEW t \in Client, ExecHold(t) PROVE Pinned'
  <2>1. UNCHANGED <<fence, invalid>>
    BY <1>6 DEF ExecHold, regVars
  <2>2. PICK o \in batch.todo :
          batch' = [batch EXCEPT !.todo = @ \ {o},
                      !.needs = IF tiling[o] = Linear THEN @ \ {o} ELSE @]
    BY <1>6 DEF ExecHold
  <2>3. batch'.pinned = batch.pinned /\ batch'.needs \subseteq batch.needs
    BY <1>0, <2>2
  <2> QED
    BY <1>1, <2>1, <2>3
<1>7. ASSUME NEW t \in Client, ExecLock(t) \/ Return(t) PROVE Pinned'
  <2>1. UNCHANGED <<fence, invalid>>
    BY <1>7 DEF ExecLock, Return, regVars
  <2>2. batch' = batch \/ batch'.pinned = {}
    BY <1>7 DEF ExecLock, Return, NoBatch
  <2> QED
    BY <1>1, <2>1, <2>2
<1>8. CASE UNCHANGED <<fence, invalid, batch>>
  BY <1>1, <1>8
<1>9. ASSUME NEW t \in Client, Step(t), ~PutClear(t), ~GetFree(t),
             ~SetTiling(t),
             ~ExecPin(t), ~ExecHold(t), ~ExecLock(t), ~Return(t)
      PROVE  UNCHANGED <<fence, invalid, batch>>
  BY <1>9 DEF Step, ReadLock, Hold, Bind, Flush, WaitRendering,
          Wake, Interrupt, Domain, PutFlush, PutWait, PutNone, GetOld,
          GetNone, GetSteal, GttDomain, Unbind,
          ExecFlush, ExecDispatch, HoldObject, regVars
<1> QED
  BY <1>2, <1>3, <1>4, <1>5, <1>6, <1>7, <1>8, <1>9
  DEF Next, Retire, GpuProgress, vars, regVars

\* No register on which a queued batch relies changes hands.
LEMMA UsedStep ==
  ASSUME StateTypes, ThreadObjects, Paired, Places, Numbers, OnBooks, Pinned,
         Used, \A t \in Client : GivesBack(t) /\ Covers(t), [Next]_vars
  PROVE  Used'
<1>0. /\ hwSeqno \in Nat /\ nextSeqno \in Nat /\ regSeq \in [Reg -> Nat]
      /\ lrs \in [Obj -> Nat] /\ fence \in [Obj -> Reg \cup {NoReg}]
      /\ regObj \in [Reg -> Obj \cup {NoObj}] /\ NoObj \notin Obj
      /\ NoReg \notin Reg /\ tiling \in [Obj -> Tiling \cup {Linear}]
      /\ hwSeqno < nextSeqno /\ \A r \in Reg : regSeq[r] < nextSeqno
      /\ batch.needs \subseteq Obj
  BY NullAssumption DEF StateTypes, Numbers
<1> DEFINE Good(u) == /\ u.reg \in Reg /\ u.obj \in Obj
                      /\ u.seq \in Nat /\ u.tiling \in Tiling \cup {Linear}
                      /\ hwSeqno < u.seq /\ u.seq <= regSeq[u.reg]
                      /\ regObj[u.reg] = u.obj
<1>1. \A u \in uses : Good(u)
  BY DEF Used
<1>2. ASSUME uses' \subseteq uses, hwSeqno' = hwSeqno,
             \A u \in uses : /\ regObj'[u.reg] = u.obj
                             /\ regSeq'[u.reg] \in {regSeq[u.reg], nextSeqno}
      PROVE  Used'
  <2>1. ASSUME NEW u \in uses' PROVE Good(u)'
    <3>1. /\ u \in uses /\ Good(u) /\ regSeq[u.reg] \in Nat
          /\ regSeq[u.reg] < nextSeqno
      BY <1>0, <1>1, <1>2, <2>1
    <3> QED
      BY <1>0, <1>2, <3>1
  <2> QED
    BY <2>1 DEF Used
<1>3. ASSUME NEW t \in Client, PutClear(t) PROVE Used'
  <2>1. /\ UNCHANGED <<regSeq, hwSeqno, uses>>
        /\ regObj' = [regObj EXCEPT ![fence[th[t].victim]] = NoObj]
        /\ regSeq[fence[th[t].victim]] <= hwSeqno
    BY <1>3 DEF PutClear, GivesBack, GivingBack
  <2>2. ASSUME NEW u \in uses PROVE regObj'[u.reg] = u.obj
    <3>1. u.reg # fence[th[t].victim]
      BY <1>0, <1>1, <2>1
    <3> QED
      BY <1>0, <1>1, <2>1, <3>1
  <2> QED
    BY <1>2, <2>1, <2>2
<1>4. ASSUME NEW t \in Client, GetFree(t) PROVE Used'
  <2>1. PICK r \in Reg : /\ regObj[r] = NoObj
                         /\ regObj' = [regObj EXCEPT ![r] = th[t].obj]
    BY <1>4 DEF GetFree
  <2>2. UNCHANGED <<regSeq, hwSeqno, uses>>
    BY <1>4 DEF GetFree
  <2>3. ASSUME NEW u \in uses PROVE regObj'[u.reg] = u.obj
    BY <1>0, <1>1, <2>1
  <2> QED
    BY <1>2, <2>2, <2>3
<1>5. ASSUME NEW t \in Client, ExecDispatch(t) PROVE Used'
  <2>0. DispatchEffect /\ UNCHANGED <<hwSeqno, regObj>>
    BY <1>5, Dispatched DEF ExecDispatch, regVars
  <2>1. uses' = uses \cup {[reg |-> fence[o], obj |-> o, tiling |-> tiling[o],
                            seq |-> nextSeqno] : o \in batch.needs}
    BY <1>5 DEF ExecDispatch
  <2>2. ASSUME NEW u \in uses PROVE Good(u)'
    <3>1. regSeq'[u.reg] \in {regSeq[u.reg], nextSeqno}
      BY <1>1, <2>0 DEF DispatchEffect
    <3>2. Good(u) /\ regSeq[u.reg] \in Nat /\ regSeq[u.reg] < nextSeqno
      BY <1>0, <1>1
    <3> QED
      BY <1>0, <2>0, <3>1, <3>2
  <2>3. ASSUME NEW o \in batch.needs, NEW u,
               u = [reg |-> fence[o], obj |-> o, tiling |-> tiling[o],
                    seq |-> nextSeqno]
        PROVE  Good(u)'
    <3>1. o \in Obj /\ o \in batch.pinned
      BY <1>0, <1>5 DEF ExecDispatch, Places, Place, Covers, InBatch
    <3>2. fence[o] \in Reg
      BY <1>0, <3>1 DEF Pinned
    <3>3. regSeq'[fence[o]] = nextSeqno
      BY <2>0, <3>1, <3>2 DEF DispatchEffect
    <3>4. regObj[fence[o]] = o
      BY <3>1, <3>2 DEF Paired
    <3> QED
      BY <1>0, <2>0, <2>3, <3>1, <3>2, <3>3, <3>4
  <2>4. ASSUME NEW u \in uses' PROVE Good(u)'
    BY <2>1, <2>2, <2>3
  <2> QED
    BY <2>4 DEF Used
<1>6. ASSUME NEW t \in Client, Step(t), ~PutClear(t), ~GetFree(t),
             ~ExecDispatch(t)
      PROVE  Used'
  <2>1. hwSeqno' = hwSeqno
    BY <1>6, HwStays
  <2>2. regObj' = regObj /\ uses' = uses
    BY <1>6 DEF Step, ReadLock, ExecLock, Hold, Bind, Flush, WaitRendering,
          Wake, Interrupt, Domain, PutFlush, PutWait, PutNone, GetOld,
          GetNone, GetSteal, GttDomain, Unbind, SetTiling, Return, ExecHold,
          ExecPin, ExecFlush, HoldObject, regVars
  <2>3. CASE GpuFlush
    <3>1. FlushEffect
      BY <2>3, Flushed
    <3>2. \A u \in uses : regSeq'[u.reg] \in {regSeq[u.reg], nextSeqno}
      BY <1>1, <3>1 DEF FlushEffect
    <3> QED
      BY <1>1, <1>2, <2>1, <2>2, <3>2
  <2>4. CASE regSeq' = regSeq
    BY <1>1, <1>2, <2>1, <2>2, <2>4
  <2> QED
    BY <1>6, <2>3, <2>4, Quiets DEF Flush, PutFlush, ExecFlush
<1>7. CASE Retire
  <2>1. PICK n \in requests : RetireEffect(n)
    BY <1>7, Retired
  <2>2. UNCHANGED <<hwSeqno, uses, regObj>>
    BY <1>7 DEF Retire, regVars
  <2>3. ASSUME NEW u \in uses PROVE regSeq'[u.reg] = regSeq[u.reg]
    <3>1. Good(u) /\ regSeq[u.reg] \in Nat /\ lrs[u.obj] \in Nat
      BY <1>0, <1>1
    <3>2. fence[u.obj] = u.reg
      BY <3>1 DEF Paired
    <3>3. regSeq[u.reg] <= lrs[u.obj]
      BY <1>0, <3>1, <3>2 DEF OnBooks, OnBook
    <3>4. n <= hwSeqno /\ n \in Nat
      BY <2>1 DEF RetireEffect, StateTypes
    <3>5. lrs[u.obj] # n
      BY <1>0, <3>1, <3>3, <3>4
    <3>6. \A o \in Obj : fence[o] = u.reg => o = u.obj
      BY <3>1 DEF Paired
    <3> QED
      BY <2>1, <3>1, <3>5, <3>6 DEF RetireEffect
  <2> QED
    BY <1>1, <1>2, <2>2, <2>3
<1>8. CASE GpuProgress
  <2>1. PICK s \in (hwSeqno + 1)..(nextSeqno - 1) :
          hwSeqno' = s /\ uses' = {u \in uses : u.seq > s}
    BY <1>8 DEF GpuProgress
  <2>2. UNCHANGED <<regSeq, regObj>>
    BY <1>8 DEF GpuProgress, regVars
  <2>3. ASSUME NEW u \in uses' PROVE Good(u)'
    BY <1>0, <1>1, <2>1, <2>2
  <2> QED
    BY <2>3 DEF Used
<1>9. CASE UNCHANGED vars
  BY <1>1, <1>2, <1>9 DEF vars, regVars
<1> QED
  BY <1>3, <1>4, <1>5, <1>6, <1>7, <1>8, <1>9 DEF Next

\* So what the hardware shows of it stays as it was.
LEMMA StableStep ==
  ASSUME StateTypes, ThreadObjects, Paired, Places, Shown, Pinned, Used,
         FenceStable, \A t \in Client : GivesBack(t) /\ Covers(t), [Next]_vars
  PROVE  FenceStable'
<1>0. /\ hwSeqno \in Nat /\ regSeq \in [Reg -> Nat]
      /\ fence \in [Obj -> Reg \cup {NoReg}]
      /\ regObj \in [Reg -> Obj \cup {NoObj}] /\ NoObj \notin Obj
      /\ NoReg \notin Reg /\ batch.needs \subseteq Obj
      /\ hw \in [Reg -> [obj : Obj \cup {NoObj},
                         tiling : Tiling \cup {Linear}]]
  BY NullAssumption DEF StateTypes
<1>1. \A u \in uses : /\ u.reg \in Reg /\ u.obj \in Obj /\ u.seq \in Nat
                      /\ hwSeqno < u.seq /\ u.seq <= regSeq[u.reg]
                      /\ regObj[u.reg] = u.obj
  BY DEF Used
<1>2. ASSUME uses' \subseteq uses, \A u \in uses : hw'[u.reg] = hw[u.reg]
      PROVE  FenceStable'
  BY <1>2 DEF FenceStable
<1>3. ASSUME NEW t \in Client, PutClear(t) PROVE FenceStable'
  <2> DEFINE r == fence[th[t].victim]
  <2>1. uses' = uses /\ hw' \in {hw, [hw EXCEPT ![r] = Off]}
    BY <1>3 DEF PutClear, Cleared
  <2>2. regSeq[r] <= hwSeqno
    BY <1>3 DEF PutClear, GivesBack, GivingBack
  <2>3. ASSUME NEW u \in uses PROVE hw'[u.reg] = hw[u.reg]
    <3>1. u.reg # r
      BY <1>0, <1>1, <2>2
    <3> QED
      BY <1>0, <1>1, <2>1, <3>1
  <2> QED
    BY <1>2, <2>1, <2>3
<1>4. ASSUME NEW t \in Client, GetFree(t) PROVE FenceStable'
  <2>1. PICK r \in Reg :
          /\ regObj[r] = NoObj
          /\ hw' = [hw EXCEPT ![r] = [obj |-> th[t].obj,
                                      tiling |-> tiling[th[t].obj]]]
    BY <1>4 DEF GetFree
  <2>2. uses' = uses
    BY <1>4 DEF GetFree
  <2>3. ASSUME NEW u \in uses PROVE hw'[u.reg] = hw[u.reg]
    BY <1>0, <1>1, <2>1
  <2> QED
    BY <1>2, <2>2, <2>3
<1>5. ASSUME NEW t \in Client, ExecDispatch(t) PROVE FenceStable'
  <2>1. /\ hw' = hw
        /\ uses' = uses \cup {[reg |-> fence[o], obj |-> o,
             tiling |-> tiling[o], seq |-> nextSeqno] : o \in batch.needs}
    BY <1>5 DEF ExecDispatch, regVars
  <2>2. ASSUME NEW o \in batch.needs
        PROVE  hw[fence[o]] = [obj |-> o, tiling |-> tiling[o]]
    <3>1. o \in Obj /\ o \in batch.pinned
      BY <1>0, <1>5 DEF ExecDispatch, Places, Place, Covers, InBatch
    <3>2. fence[o] \in Reg /\ o \notin invalid
      BY <1>0, <3>1 DEF Pinned
    <3>3. regObj[fence[o]] = o
      BY <3>1, <3>2 DEF Paired
    <3>4. hw[fence[o]].obj = o /\ hw[fence[o]].tiling = tiling[o]
      BY <3>1, <3>2, <3>3 DEF Shown
    <3>5. hw[fence[o]] \in [obj : Obj \cup {NoObj},
                           tiling : Tiling \cup {Linear}]
      BY <1>0, <3>2
    <3> QED
      BY <3>4, <3>5
  <2>3. ASSUME NEW u \in uses'
        PROVE  hw'[u.reg] = [obj |-> u.obj, tiling |-> u.tiling]
    <3>1. CASE u \in uses
      BY <2>1, <3>1 DEF FenceStable
    <3>2. ASSUME NEW o \in batch.needs,
                 u = [reg |-> fence[o], obj |-> o, tiling |-> tiling[o],
                      seq |-> nextSeqno]
          PROVE  hw'[u.reg] = [obj |-> u.obj, tiling |-> u.tiling]
      <4>1. u.reg = fence[o] /\ u.obj = o /\ u.tiling = tiling[o]
        BY <3>2
      <4> QED
        BY <2>1, <2>2, <4>1
    <3> QED
      BY <2>1, <3>1, <3>2
  <2> QED
    BY <2>3 DEF FenceStable
<1>6. ASSUME NEW t \in Client, Step(t), ~PutClear(t), ~GetFree(t),
             ~ExecDispatch(t)
      PROVE  FenceStable'
  <2>1. hw' = hw /\ uses' = uses
    BY <1>6 DEF Step, ReadLock, ExecLock, Hold, Bind, Flush, WaitRendering,
          Wake, Interrupt, Domain, PutFlush, PutWait, PutNone, GetOld,
          GetNone, GetSteal, GttDomain, Unbind, SetTiling, Return, ExecHold,
          ExecPin, ExecFlush, HoldObject, regVars
  <2> QED
    BY <1>2, <2>1
<1>7. CASE Retire \/ GpuProgress \/ UNCHANGED vars
  <2>1. hw' = hw /\ uses' \subseteq uses
    BY <1>7 DEF Retire, GpuProgress, vars, regVars
  <2> QED
    BY <1>2, <2>1
<1> QED
  BY <1>3, <1>4, <1>5, <1>6, <1>7 DEF Next

\* The fences batches rely on are records of them.
UseRecords ==
    uses \subseteq [reg : Reg \cup {NoReg}, obj : Obj, seq : Nat,
                    tiling : Tiling \cup {Linear}]

\* They stay so.
LEMMA UseRecordsStep ==
  ASSUME StateTypes, UseRecords, [Next]_vars
  PROVE  UseRecords'
<1>1. CASE uses' \subseteq uses
  BY <1>1 DEF UseRecords
<1>2. ASSUME NEW t \in Client, ExecDispatch(t) PROVE UseRecords'
  <2>1. /\ batch.needs \subseteq Obj /\ nextSeqno \in Nat
        /\ fence \in [Obj -> Reg \cup {NoReg}]
        /\ tiling \in [Obj -> Tiling \cup {Linear}]
    BY DEF StateTypes
  <2>2. uses' = uses \cup {[reg |-> fence[o], obj |-> o,
             tiling |-> tiling[o], seq |-> nextSeqno] : o \in batch.needs}
    BY <1>2 DEF ExecDispatch
  <2> QED
    BY <2>1, <2>2 DEF UseRecords
<1>3. ASSUME NEW t \in Client, Step(t), ~ExecDispatch(t) PROVE uses' = uses
  BY <1>3 DEF Step, ReadLock, ExecLock, Hold, Bind, Flush, WaitRendering,
          Wake, Interrupt, Domain, PutFlush, PutWait, PutNone, PutClear,
          GetOld,
          GetFree, GetNone, GetSteal, GttDomain, Unbind, SetTiling, Return,
          ExecHold, ExecPin, ExecFlush, HoldObject
<1> QED
  BY <1>1, <1>2, <1>3 DEF Next, Retire, GpuProgress, vars

-----------------------------------------------------------------------------
\* The LRU list.

\* The LRU list names each register in use, once.
ListExact ==
    /\ lru \in Seq(Reg) /\ Once(lru)
    /\ \A r \in Reg : Named(lru, r) <=> regObj[r] # NoObj

\* A flush only reorders it: every register it moves is listed.
LEMMA FlushList ==
  ASSUME StateTypes, Paired, OnBooks, ListExact, GpuFlush, regObj' = regObj
  PROVE  ListExact'
<1> DEFINE moved == {fence[o] : o \in Rendered \cap fenced}
<1>1. moved \subseteq ToSet(lru)
  <2>1. ASSUME NEW o \in Rendered \cap fenced PROVE fence[o] \in ToSet(lru)
    <3>1. o \in Obj /\ fence[o] \in Reg
      BY DEF Rendered, OnBooks, OnBook, StateTypes
    <3>2. regObj[fence[o]] # NoObj
      BY <3>1, NullAssumption DEF Paired
    <3> QED
      BY <3>1, <3>2 DEF ListExact, Named, ToSet
  <2> QED
    BY <2>1
<1>2. lru' \in SetToSeqs(ToSet(lru) \cup moved)
  BY DEF GpuFlush, MovedBack
<1>3. lru' \in SetToSeqs(ToSet(lru))
  <2>1. ToSet(lru) \cup moved = ToSet(lru)
    BY <1>1
  <2> HIDE DEF moved
  <2> QED
    BY <1>2, <2>1
<1>4. lru' \in Seq(Reg) /\ Once(lru') /\ \A r :
        Named(lru', r) <=> Named(lru, r)
  BY <1>3, Reordered DEF ListExact
<1> QED
  BY <1>4 DEF ListExact, Once, Named

\* Every step keeps it exact.
LEMMA ListStep ==
  ASSUME StateTypes, ThreadObjects, Paired, OnBooks, ListExact,
         \A t \in Client : GivesBack(t), [Next]_vars
  PROVE  ListExact'
<1>0. /\ regObj \in [Reg -> Obj \cup {NoObj}] /\ NoObj \notin Obj
      /\ fence \in [Obj -> Reg \cup {NoReg}] /\ NoReg \notin Reg
      /\ lru \in Seq(Reg) /\ Once(lru) /\ DOMAIN lru = 1..Len(lru)
      /\ \A r \in Reg : Named(lru, r) <=> regObj[r] # NoObj
  BY NullAssumption DEF StateTypes, ListExact
<1>1. ASSUME NEW s, lru' = s, s \in Seq(Reg), Once(s),
             \A r \in Reg : Named(s, r) <=> regObj'[r] # NoObj
      PROVE  ListExact'
  BY <1>1 DEF ListExact, Once, Named
<1>2. ASSUME NEW r \in Reg, Named(lru, r)
      PROVE  /\ RemoveFirst(lru, r) \in Seq(Reg) /\ Once(RemoveFirst(lru, r))
             /\ \A q :
                  Named(RemoveFirst(lru, r), q) <=> Named(lru, q) /\ q # r
  <2>1. PICK i \in 1..Len(lru) : lru[i] = r
    BY <1>0, <1>2 DEF Named
  <2>2. RemoveFirst(lru, r) = RemoveAt(lru, i)
    BY <1>0, <2>1, FirstPlace
  <2> QED
    BY <1>0, <2>1, <2>2, Dropped
<1>3. ASSUME NEW t \in Client, PutClear(t) PROVE ListExact'
  <2> DEFINE v == th[t].victim
             r == fence[v]
  <2>1. /\ regObj' = [regObj EXCEPT ![r] = NoObj]
        /\ lru' = RemoveFirst(lru, r)
    BY <1>3 DEF PutClear, Unlisted
  <2>2. v \in Obj /\ r \in Reg
    BY <1>0, <1>3 DEF PutClear, ThreadObjects, GivesBack, GivingBack
  <2>3. regObj[r] # NoObj
    BY <1>0, <2>2 DEF Paired
  <2> HIDE DEF r
  <2>4. /\ RemoveFirst(lru, r) \in Seq(Reg) /\ Once(RemoveFirst(lru, r))
        /\ \A q : Named(RemoveFirst(lru, r), q) <=> Named(lru, q) /\ q # r
    BY <1>0, <1>2, <2>2, <2>3
  <2>5. \A q \in Reg : Named(RemoveFirst(lru, r), q) <=> regObj'[q] # NoObj
    BY <1>0, <2>1, <2>2, <2>4
  <2> QED
    BY <1>1, <2>1, <2>4, <2>5
<1>4. ASSUME NEW t \in Client, GetOld(t) PROVE ListExact'
  <2> DEFINE r == fence[th[t].obj]
  <2>0. regObj' = regObj
    BY <1>4 DEF GetOld
  <2>1. CASE lru' = lru
    BY <1>0, <1>1, <2>0, <2>1
  <2>2. CASE NeedsFence(t)
    <3>1. lru' = Append(RemoveFirst(lru, r), r)
      BY <1>4, <2>2 DEF GetOld
    <3>2. th[t].obj \in Obj /\ r \in Reg
      BY <1>0, <1>4, <2>2 DEF GetOld, ThreadObjects, AtWork
    <3>3. regObj[r] # NoObj
      BY <1>0, <3>2 DEF Paired
    <3> HIDE DEF r
    <3>4. /\ RemoveFirst(lru, r) \in Seq(Reg) /\ Once(RemoveFirst(lru, r))
          /\ \A q : Named(RemoveFirst(lru, r), q) <=> Named(lru, q) /\ q # r
      BY <1>0, <1>2, <3>2, <3>3
    <3>5. /\ lru' \in Seq(Reg) /\ Once(lru')
          /\ \A q : Named(lru', q) <=> (Named(lru, q) /\ q # r) \/ q = r
      BY <3>1, <3>2, <3>4, Added
    <3>6. \A q \in Reg : Named(lru', q) <=> regObj'[q] # NoObj
      BY <1>0, <2>0, <3>3, <3>5
    <3> QED
      BY <1>1, <3>5, <3>6
  <2> QED
    BY <1>4, <2>1, <2>2 DEF GetOld
<1>5. ASSUME NEW t \in Client, GetFree(t) PROVE ListExact'
  <2>1. PICK r \in Reg : /\ regObj[r] = NoObj
                         /\ regObj' = [regObj EXCEPT ![r] = th[t].obj]
                         /\ lru' = Append(lru, r)
    BY <1>5 DEF GetFree
  <2>2. th[t].obj \in Obj
    BY <1>5 DEF GetFree, Search, ThreadObjects, AtWork
  <2>3. /\ lru' \in Seq(Reg) /\ Once(lru')
        /\ \A q : Named(lru', q) <=> Named(lru, q) \/ q = r
    BY <1>0, <2>1, Added
  <2>4. \A q \in Reg : Named(lru', q) <=> regObj'[q] # NoObj
    BY <1>0, <2>1, <2>2, <2>3
  <2> QED
    BY <1>1, <2>3, <2>4
<1>6. ASSUME UNCHANGED <<lru, regObj>> PROVE ListExact'
  BY <1>0, <1>1, <1>6
<1>7. ASSUME NEW t \in Client, Step(t), ~PutClear(t), ~GetOld(t), ~GetFree(t)
      PROVE  ListExact'
  <2>1. regObj' = regObj /\ (GpuFlush \/ lru' = lru)
    BY <1>7 DEF Step, ReadLock, ExecLock, Hold, Bind, Flush, WaitRendering,
          Wake, Interrupt, Domain, PutFlush, PutWait, PutNone,
          GetNone, GetSteal, GttDomain, Unbind, SetTiling, Return, ExecHold,
          ExecPin, ExecFlush, ExecDispatch, HoldObject, regVars
  <2> QED
    BY <1>6, <2>1, FlushList
<1> QED
  BY <1>3, <1>4, <1>5, <1>6, <1>7 DEF Next, Retire, GpuProgress, vars, regVars

-----------------------------------------------------------------------------
\* The theorems.

\* The inductive invariant.
FenceSafe ==
    /\ StateTypes /\ ThreadObjects /\ Paired /\ Places /\ Holds
    /\ \A t \in Client : Quiet(t) /\ GivesBack(t) /\ Valid(t) /\ Covers(t)
    /\ Pinned /\ Shown /\ Numbers /\ OnBooks /\ FreeIdle
    /\ Used /\ UseRecords /\ FenceStable /\ ListExact

\* It holds at first.
LEMMA SafeInit == Init => FenceSafe
<1>1. SUFFICES ASSUME Init PROVE FenceSafe
  OBVIOUS
<1>2. \A t \in Client : th[t].pc = "idle" /\ th[t].op = "none"
  BY <1>1 DEF Init, Idle
<1>3. StateTypes /\ Paired
  BY <1>1, TypesInit, NullAssumption DEF Init, Paired
<1>4. ThreadObjects
  BY <1>2 DEF ThreadObjects, AtWork
<1>5. Places
  BY <1>1, <1>2, NullAssumption DEF Init, Places, Place, Executes
<1>6. Holds
  BY <1>1, <1>2 DEF Init, Holds, HoldsOwn, GivingBack, InBatch, Executes,
                    AtWork, NoBatch
<1>7. ASSUME NEW t \in Client
      PROVE  Quiet(t) /\ GivesBack(t) /\ Valid(t) /\ Covers(t)
  BY <1>2 DEF Quiet, GivesBack, Valid, Covers, GivingBack, InBatch,
                     Executes, AfterFlush
<1>8. Pinned
  BY <1>1 DEF Init, Pinned, NoBatch
<1>9. Shown
  BY <1>1, NullAssumption DEF Init, Shown
<1>10. Numbers
  BY <1>1 DEF Init, Numbers
<1>11. OnBooks /\ FreeIdle
  BY <1>1 DEF Init, OnBooks, OnBook, FreeIdle
<1>12. Used /\ UseRecords /\ FenceStable
  BY <1>1 DEF Init, Used, UseRecords, FenceStable
<1>13. ListExact
  BY <1>1 DEF Init, ListExact, Once, Named
<1> QED
  BY <1>3, <1>4, <1>5, <1>6, <1>7, <1>8, <1>9, <1>10, <1>11, <1>12, <1>13
  DEF FenceSafe

\* Every step keeps the holds.
LEMMA HoldsStep ==
  ASSUME StateTypes, ThreadObjects, Paired, Places, Holds, [Next]_vars
  PROVE  Places' /\ Holds'
<1>1. ASSUME NEW t \in Client, Step(t) PROVE Places' /\ Holds'
  <2>1. ASSUME NEW s \in Client PROVE Place(s)' /\ HoldsOwn(s)'
    BY <1>1, OwnPlace, OwnHolds, Others
  <2>2. \A o \in batch'.pinned : drmW' \in Client /\ held'[o] = drmW'
    BY <1>1, PinnedHeld
  <2> QED
    BY <2>1, <2>2 DEF Places, Holds
<1>2. CASE Retire \/ GpuProgress \/ UNCHANGED vars
  <2>1. ASSUME NEW s \in Client PROVE Place(s)' /\ HoldsOwn(s)'
    BY <1>2, ThreadsQuiet DEF Places, Holds
  <2>2. UNCHANGED <<batch, drmW, held>>
    BY <1>2 DEF Retire, GpuProgress, vars, lockVars
  <2>3. \A o \in batch'.pinned : drmW' \in Client /\ held'[o] = drmW'
    BY <2>2 DEF Holds
  <2> QED
    BY <2>1, <2>3 DEF Places, Holds
<1> QED
  BY <1>1, <1>2 DEF Next

\* Every step keeps what is true of each thread by its place.
LEMMA ThreadsStep ==
  ASSUME FenceSafe, [Next]_vars
  PROVE  \A s \in Client :
           (Quiet(s) /\ GivesBack(s) /\ Valid(s) /\ Covers(s))'
<1> USE DEF FenceSafe
<1>1. ASSUME NEW t \in Client, Step(t), NEW s \in Client
      PROVE  (Quiet(s) /\ GivesBack(s) /\ Valid(s) /\ Covers(s))'
  BY <1>1, OwnQuiet, OwnGives, OwnValid, OwnCovers, Others
<1>2. ASSUME Retire \/ GpuProgress \/ UNCHANGED vars, NEW s \in Client
      PROVE  (Quiet(s) /\ GivesBack(s) /\ Valid(s) /\ Covers(s))'
  BY <1>2, ThreadsQuiet
<1> QED
  BY <1>1, <1>2 DEF Next

\* Every step keeps it.
LEMMA SafeStep == FenceSafe /\ [Next]_vars => FenceSafe'
<1>1. SUFFICES ASSUME FenceSafe, [Next]_vars PROVE FenceSafe'
  OBVIOUS
<1>2. StateTypes' /\ ThreadObjects' /\ Paired'
  BY <1>1, TypesStep, ObjectsStep, PairedStep DEF FenceSafe
<1>3. Places' /\ Holds'
  BY <1>1, HoldsStep DEF FenceSafe
<1>4. \A s \in Client : (Quiet(s) /\ GivesBack(s) /\ Valid(s) /\ Covers(s))'
  BY <1>1, ThreadsStep
<1>5. Pinned' /\ Shown'
  BY <1>1, PinnedStep, ShownStep DEF FenceSafe
<1>6. Numbers' /\ OnBooks' /\ FreeIdle'
  BY <1>1, NumbersStep, OnBooksStep, FreeIdleStep DEF FenceSafe
<1>7. Used' /\ UseRecords' /\ FenceStable'
  BY <1>1, UsedStep, UseRecordsStep, StableStep DEF FenceSafe
<1>8. ListExact'
  BY <1>1, ListStep DEF FenceSafe
<1> QED
  BY <1>2, <1>3, <1>4, <1>5, <1>6, <1>7, <1>8 DEF FenceSafe

\* The invariant holds in every state that can be reached, whatever the chip.
THEOREM Safe == Spec => []FenceSafe
BY SafeInit, SafeStep, PTL DEF Spec

\* Every variable keeps its type; in particular the LRU list names registers
\* only, and a batch that asked for a fence was submitted with one
\* (i915_gem_execbuffer2 ends its list with a fence per object that needs it).
THEOREM TypeCorrect == Spec => []TypeOK
<1>1. FenceSafe => TypeOK
  <2>1. SUFFICES ASSUME FenceSafe PROVE TypeOK
    OBVIOUS
  <2>2. uses \subseteq [reg : Reg, obj : Obj, seq : Nat,
                        tiling : Tiling \cup {Linear}]
    BY <2>1 DEF FenceSafe, Used, UseRecords
  <2> QED
    BY <2>1, <2>2 DEF FenceSafe, TypeOK, ListExact
<1> QED
  BY <1>1, Safe, PTL

\* A batch the GPU has not finished finds every fence register it was submitted
\* with as it was at that moment, whatever is stolen, retiled, unbound or
\* faulted in meanwhile: put_fence_reg waits for the seqno that move_to_active
\* left in the register.
THEOREM QueuedFencesStand == Spec => []FenceStable
<1>1. FenceSafe => FenceStable
  BY DEF FenceSafe
<1> QED
  BY <1>1, Safe, PTL

\* The KASSERT of inteldrm_process_flushing and the index of move_to_active: an
\* object whose last batch used a fence has a register.
THEOREM FencedObjectsHaveRegister == Spec => []FencedHasReg
<1>1. FenceSafe => FencedHasReg
  BY DEF FenceSafe, FencedHasReg, OnBooks, OnBook, StateTypes
<1> QED
  BY <1>1, Safe, PTL

\* mm.fence_list holds each register in use once and no other, so get_fence_reg
\* finds its victim whenever no register is free.
THEOREM ListedOnce == Spec => []LruExact
<1>1. FenceSafe => LruExact
  BY DEF FenceSafe, LruExact, ListExact, Named, Once
<1> QED
  BY <1>1, Safe, PTL

\* What a page fault maps is seen through its tiling.
LEMMA FaultStep ==
  ASSUME FenceSafe, HwAgrees, [Next]_vars, NEW o \in mapped' \ mapped
  PROVE  {hw[r].tiling : r \in {q \in Reg : hw[q].obj = o}}
            = {tiling[o]} \ {Linear}
<1>1. PICK t \in Client : GttDomain(t)
  <2>1. ASSUME NEW t \in Client, Step(t), ~GttDomain(t)
        PROVE  mapped' \subseteq mapped
    BY <2>1 DEF Step, ReadLock, ExecLock, Hold, Bind, Flush, WaitRendering,
          Wake, Interrupt, Domain, LeaveGtt, PutFlush, PutWait, PutNone,
          PutClear,
          GetOld, GetFree, GetNone, GetSteal, Unbind, SetTiling, Return,
          ExecHold, ExecPin, ExecFlush, ExecDispatch, HoldObject, gttVars
  <2> QED
    BY <2>1 DEF Next, Retire, GpuProgress, vars, gttVars
<1>2. o = th[t].obj /\ th[t].pc = "gtt"
  BY <1>1 DEF GttDomain
<1>3. o \in Obj /\ NoReg \notin Reg
  BY <1>2, NullAssumption DEF FenceSafe, ThreadObjects, AtWork
<1>4. /\ o \notin invalid /\ (tiling[o] # Linear => fence[o] # NoReg)
      /\ fence[o] \in Reg \cup {NoReg}
  BY <1>2, <1>3 DEF FenceSafe, Valid, StateTypes
<1>5. tiling[o] = Linear => fence[o] = NoReg
  BY <1>3, <1>4 DEF FenceSafe, Shown
<1>6. ASSUME NEW q \in Reg PROVE hw[q].obj = o <=> fence[o] = q
  BY <1>3 DEF FenceSafe, Paired, HwAgrees
<1>7. ASSUME fence[o] # NoReg PROVE hw[fence[o]].tiling = tiling[o]
  <2>1. fence[o] \in Reg /\ regObj[fence[o]] = o
    BY <1>3, <1>4, <1>7 DEF FenceSafe, Paired
  <2> QED
    BY <1>3, <1>4, <2>1 DEF HwAgrees
<1>8. CASE tiling[o] = Linear
  <2>1. {q \in Reg : hw[q].obj = o} = {}
    BY <1>3, <1>5, <1>6, <1>8
  <2> QED
    BY <1>8, <2>1
<1>9. CASE tiling[o] # Linear
  <2>1. {q \in Reg : hw[q].obj = o} = {fence[o]}
    BY <1>4, <1>6, <1>9
  <2> QED
    BY <1>4, <1>7, <1>9, <2>1
<1> QED
  BY <1>8, <1>9

\* A page fault maps a tiled object only when a register shows it with its
\* tiling, and a linear one only when none does (inteldrm_fault,
\* set_to_gtt_domain), on every chip whose registers put_fence_reg clears.
THEOREM FaultsDetile == ASSUME ~Gen6 PROVE Spec => FaultDetiled
<1>1. FenceSafe /\ RegsConsistent /\ [Next]_vars =>
        [\A o \in mapped' \ mapped :
           {hw[r].tiling : r \in {q \in Reg : hw[q].obj = o}}
             = {tiling[o]} \ {Linear}]_vars
  BY FaultStep DEF RegsConsistent
<1> QED
  BY <1>1, Safe, RegistersAgree, PTL DEF Spec, FaultDetiled

=============================================================================
