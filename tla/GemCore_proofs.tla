--------------------------- MODULE GemCore_proofs ---------------------------
(***************************************************************************)
(* Proofs about GemCore, for every set of objects, processes and GPU       *)
(* domains and every value of the bounds.  First the types; then SafeInv,  *)
(* the inductive invariant, which relates where every thread is to the     *)
(* locks, the lists, the request numbers and what the GPU still has to do  *)
(* with each object, its preservation conjunct by conjunct, and the safety *)
(* properties that follow from it, under GpuAccesses; then, that the pin   *)
(* counts are exact while no bind of the pin ioctl fails (PinKept), and    *)
(* that nobody sleeps on a seqno the GPU will not store (Sleepers); last,  *)
(* that the engine may keep its seqnos in words.                           *)
(***************************************************************************)
EXTENDS GemCore, TLAPS

USE DEF Thread, Domain, WriteDomain, NoDomain, Idle, Goto, hwVars, reqVars,
        listVars, domVars, pendVars, pinVars, lockVars, execVars, workVars,
        ghostVars

(* Who may be where, and which threads are at work on an object.            *)
WorkerPcs == {"idle", "lock", "retire", "hung_reset", "relock", "hung_clear",
              "hung_evict"}
ObjectPcs == {"hold", "bind", "flush", "sleep", "retire", "domain", "access",
              "unpin", "out", "busy", "reloc_err"}
NoObjectPcs == {"idle", "lock", "exec_pin", "exec_dispatch", "exec_err"}

ThreadInv ==
    /\ th[Worker].op \in {"none", "retire", "hung"}
    /\ th[Worker].pc \in WorkerPcs
    /\ th[Worker].op = "none" => th[Worker].pc = "idle"
    /\ \A t \in Client :
         /\ th[t].op \notin {"retire", "hung"}
         /\ th[t].pc \in ObjectPcs \cup NoObjectPcs
         /\ th[t].op = "none" => th[t].pc = "idle"
         /\ \/ th[t].op \in {"none", "exec"} /\ th[t].pc \in NoObjectPcs
            \/ th[t].obj \in Obj

TypeInv == TypeOK /\ ThreadInv

(* What the engine's operators leave behind.                                *)
ReqOK ==
    /\ nextSeqno \in Nat \ {0} /\ requests \subseteq Nat
    /\ ring \subseteq Nat /\ retireTimer \in BOOLEAN
FlushOK ==
    /\ list \in [Obj -> {"none", "active", "flushing", "inactive"}]
    /\ active \subseteq Obj /\ gpuWrite \subseteq Obj
    /\ lrs \in [Obj -> Nat] /\ lws \in [Obj -> Nat]
    /\ wd \in [Obj -> WriteDomain]
    /\ gpuDirty \in [Obj -> SUBSET GpuDomain] /\ flushAt \in [Obj -> Nat]
LEMMA AddRequestType ==
  ASSUME ReqOK, NEW ok \in BOOLEAN, AddRequest(ok)
  PROVE  ReqOK'
<1>1. retireTimer' \in BOOLEAN
  BY DEF AddRequest, ReqOK
<1>2. \/ /\ nextSeqno' = nextSeqno + 1
         /\ requests' = requests \cup {nextSeqno}
         /\ ring' = ring \cup {nextSeqno}
      \/ nextSeqno' = nextSeqno /\ requests' = requests /\ ring' = ring
  BY Zenon DEF AddRequest
<1>3. nextSeqno \in Nat /\ nextSeqno # 0
  BY DEF ReqOK
<1>4. nextSeqno' \in Nat \ {0}
  BY <1>2, <1>3
<1>5. requests' \subseteq Nat /\ ring' \subseteq Nat
  BY <1>2, <1>3 DEF ReqOK
<1> QED
  BY <1>1, <1>4, <1>5 DEF ReqOK

LEMMA GemFlushType ==
  ASSUME ReqOK, FlushOK, NEW doms, NEW ok \in BOOLEAN, GemFlush(doms, ok)
  PROVE  ReqOK' /\ FlushOK'
<1>1. CASE doms \cap GpuDomain = {}
  BY <1>1 DEF GemFlush, ReqOK, FlushOK
<1>2. CASE doms \cap GpuDomain # {}
  <2>1. AddRequest(ok)
    BY <1>2 DEF GemFlush
  <2>2. ReqOK'
    BY <2>1, AddRequestType
  <2>3. Flushed(doms) \subseteq Obj
    BY DEF Flushed, FlushOK
  <2>4. FlushOK'
    BY <1>2, <2>3 DEF GemFlush, MoveToActive, FlushOK, ReqOK
  <2> QED
    BY <2>2, <2>4
<1> QED
  BY <1>1, <1>2

LEMMA MoveToActiveType ==
  ASSUME ReqOK, FlushOK, NEW S \in SUBSET Obj, NEW w, MoveToActive(S, w)
  PROVE  /\ list' \in [Obj -> {"none", "active", "flushing", "inactive"}]
         /\ active' \subseteq Obj
         /\ lrs' \in [Obj -> Nat] /\ lws' \in [Obj -> Nat]
  BY DEF MoveToActive, ReqOK, FlushOK

LEMMA PinObjectType ==
  ASSUME DataOK, NEW o \in Obj, PinObject(o)
  PROVE  /\ pin' \in [Obj -> Int]
         /\ list' \in [Obj -> {"none", "active", "flushing", "inactive"}]
  BY DEF DataOK, PinObject

LEMMA UnpinObjectsType ==
  ASSUME DataOK, NEW S, UnpinObjects(S)
  PROVE  /\ pin' \in [Obj -> Int]
         /\ list' \in [Obj -> {"none", "active", "flushing", "inactive"}]
         /\ lrs' \in [Obj -> Nat] /\ lws' \in [Obj -> Nat]
         /\ active' = active /\ gpuWrite' = gpuWrite
  BY DEF DataOK, UnpinObjects

LEMMA RetireRequestType ==
  ASSUME DataOK, NEW r, RetireRequest(r)
  PROVE  /\ requests' \subseteq Nat
         /\ list' \in [Obj -> {"none", "active", "flushing", "inactive"}]
         /\ active' \subseteq Obj
         /\ lrs' \in [Obj -> Nat] /\ lws' \in [Obj -> Nat]
         /\ UNCHANGED <<nextSeqno, retireTimer, gpuWrite>>
  BY DEF DataOK, RetireRequest, InactiveList

LEMMA ErrorPcType ==
  ASSUME NEW op
  PROVE  ErrorPc(op) \in {"unpin", "reloc_err", "out"}
  BY DEF ErrorPc

LEMMA InitTypeInv == Init => TypeInv
<1> SUFFICES ASSUME Init PROVE TypeInv
  OBVIOUS
<1>1. ThreadOK
  BY DEF Init, ThreadOK, Pcs
<1>2. DataOK
  <2>1. retireTimer \in BOOLEAN /\ wedged \in BOOLEAN
    BY DEF Init
  <2>2. /\ hwSeqno \in Nat /\ ring \subseteq Nat
        /\ nextSeqno \in Nat \ {0} /\ requests \subseteq Nat
        /\ workq \subseteq {"retire", "hung"}
    BY DEF Init
  <2>3. /\ list \in [Obj -> {"none", "active", "flushing", "inactive"}]
        /\ active \subseteq Obj /\ gpuWrite \subseteq Obj
        /\ lrs \in [Obj -> Nat] /\ lws \in [Obj -> Nat]
        /\ wd \in [Obj -> WriteDomain] /\ rd \in [Obj -> SUBSET Domain]
        /\ prd \in [Obj -> SUBSET Domain] /\ pwd \in [Obj -> WriteDomain]
    BY DEF Init
  <2>4. /\ pin \in [Obj -> Int] /\ upin \in [Obj -> Nat]
        /\ bound \subseteq Obj /\ mapped \in [Obj -> {"none", "r", "w"}]
        /\ held \in [Obj -> Thread \cup {NoThread}]
        /\ drmW \in Thread \cup {NoThread} /\ drmR \subseteq Thread
        /\ inExec \subseteq Obj /\ todo \subseteq inExec
    BY DEF Init
  <2>5. /\ gpuUse \in [Obj -> Nat] /\ gpuDirty \in [Obj -> SUBSET GpuDomain]
        /\ flushAt \in [Obj -> Nat]
    BY DEF Init
  <2> QED
    BY <2>1, <2>2, <2>3, <2>4, <2>5 DEF DataOK
<1>3. ThreadInv
  BY ThreadAssumption DEF Init, ThreadInv, WorkerPcs, NoObjectPcs
<1> QED
  BY <1>1, <1>2, <1>3 DEF TypeInv, TypeOK

LEMMA DataStep == TypeInv /\ [Next]_vars => DataOK'
<1> SUFFICES ASSUME DataOK, ThreadInv, [Next]_vars PROVE DataOK'
  BY DEF TypeInv, TypeOK
<1> USE DEF DataOK, ReqOK, FlushOK
<1>1. ASSUME NEW t \in Client, \E op \in ClientOps, o \in Obj : Call(t, op, o)
      PROVE  DataOK'
  BY <1>1, OpsAssumption DEF Call
<1>2. ASSUME NEW t \in Client, ReadLock(t)
      PROVE  DataOK'
  BY <1>2 DEF ReadLock
<1>3. ASSUME NEW t \in Client, WriteLock(t)
      PROVE  DataOK'
  BY <1>3 DEF WriteLock
<1>4. ASSUME NEW t \in Client, ExecLockAny(t)
      PROVE  DataOK'
  <2>1. PICK batch \in SUBSET Obj :
          \E acc \in [batch -> Accesses] : ExecLock(t, batch, acc)
    BY <1>4 DEF ExecLockAny
  <2>2. PICK acc \in [batch -> Accesses] : ExecLock(t, batch, acc)
    BY <2>1
  <2>3. \A o \in batch : acc[o].r \subseteq Domain /\ acc[o].w \in WriteDomain
    BY <2>2, OpsAssumption
  <2> QED
    BY <2>2, <2>3, SMTT(60) DEF ExecLock
<1>5. ASSUME NEW t \in Client, AccessHold(t)
      PROVE  DataOK'
  BY <1>5 DEF AccessHold, Hold
<1>6. ASSUME NEW t \in Client, SetDomainHold(t)
      PROVE  DataOK'
  BY <1>6 DEF SetDomainHold, Hold
<1>7. ASSUME NEW t \in Client, UnbindHold(t)
      PROVE  DataOK'
  BY <1>7 DEF UnbindHold, Hold
<1>8. ASSUME NEW t \in Client, PinHold(t)
      PROVE  DataOK'
  <2>0. th[t].obj \in Obj
    BY <1>8 DEF PinHold, Hold, ThreadInv, NoObjectPcs
  <2>1. upin' \in [Obj -> Nat] /\ held' \in [Obj -> Thread \cup {NoThread}]
    BY <1>8, <2>0 DEF PinHold, Hold
  <2> QED
    BY <1>8, <2>1 DEF PinHold, Hold
<1>9. ASSUME NEW t \in Client, UnpinHold(t)
      PROVE  DataOK'
  <2>0. th[t].obj \in Obj
    BY <1>9 DEF UnpinHold, Hold, ThreadInv, NoObjectPcs
  <2>1. \/ UnpinObjects({th[t].obj})
        \/ UNCHANGED <<listVars, pin>>
    BY <1>9 DEF UnpinHold
  <2>2. /\ upin' \in [Obj -> Nat]
        /\ held' \in [Obj -> Thread \cup {NoThread}]
    BY <1>9, <2>0 DEF UnpinHold, Hold
  <2>3. CASE UnpinObjects({th[t].obj})
    BY <1>9, <2>2, <2>3, UnpinObjectsType DEF UnpinHold, Hold
  <2>4. CASE UNCHANGED <<listVars, pin>>
    BY <1>9, <2>2, <2>4 DEF UnpinHold, Hold
  <2> QED
    BY <2>1, <2>3, <2>4
<1>10. ASSUME NEW t \in Client, Bind(t)
      PROVE  DataOK'
  <2> DEFINE o == th[t].obj
  <2>0. th[t].obj \in Obj
    BY <1>10 DEF Bind, ThreadInv, NoObjectPcs
  <2>1. /\ bound' \subseteq Obj /\ pin' \in [Obj -> Int]
        /\ list' \in [Obj -> {"none", "active", "flushing", "inactive"}]
        /\ lrs' \in [Obj -> Nat] /\ lws' \in [Obj -> Nat]
        /\ UNCHANGED <<active, gpuWrite, upin, mapped>>
    <3>1. CASE UNCHANGED <<listVars, pinVars>>
      BY <3>1
    <3>2. CASE PinObject(o) /\ UNCHANGED <<lrs, lws>>
      BY <1>10, <2>0, <3>2, PinObjectType DEF Bind
    <3>3. CASE ~(PinObject(o) /\ UNCHANGED <<lrs, lws>>)
      BY <1>10, <2>0, <3>3 DEF Bind, InactiveList
    <3> QED
      BY <3>2, <3>3
  <2> QED
    BY <1>10, <2>1 DEF Bind
<1>11. ASSUME NEW t \in Client, Flush(t)
      PROVE  DataOK'
  <2>1. PICK ok \in BOOLEAN : GemFlush({wd[th[t].obj]}, ok)
    BY <1>11 DEF Flush, AllocOutcome
  <2>2. ReqOK' /\ FlushOK'
    BY <2>1, GemFlushType
  <2> QED
    BY <1>11, <2>2 DEF Flush
<1>12. ASSUME NEW t \in Client, Wait(t)
      PROVE  DataOK'
  <2>1. \/ \E ok \in AllocOutcome : AddRequest(ok)
        \/ UNCHANGED <<nextSeqno, requests, ring, retireTimer>>
    BY <1>12 DEF Wait
  <2>2. ReqOK'
    BY <2>1, AddRequestType DEF AllocOutcome
  <2> QED
    BY <1>12, <2>2 DEF Wait
<1>13. ASSUME NEW t \in Client, Wake(t)
      PROVE  DataOK'
  BY <1>13 DEF Wake, ErrorPc
<1>14. ASSUME NEW t \in Client, Interrupt(t)
      PROVE  DataOK'
  BY <1>14 DEF Interrupt, ErrorPc
<1>15. ASSUME NEW t \in Client, Retire(t)
      PROVE  DataOK'
  BY <1>15, RetireRequestType DEF Retire
<1>16. ASSUME NEW t \in Client, RetireEnd(t)
      PROVE  DataOK'
  <2>1. retireTimer' \in BOOLEAN
    BY <1>16 DEF RetireEnd, Rearm
  <2> QED
    BY <1>16, <2>1 DEF RetireEnd
<1>17. ASSUME NEW t \in Client, GttDomain(t)
      PROVE  DataOK'
  BY <1>17 DEF GttDomain
<1>18. ASSUME NEW t \in Client, Unbind(t)
      PROVE  DataOK'
  BY <1>18 DEF Unbind, UnbindObject
<1>19. ASSUME NEW t \in Client, Unpin(t)
      PROVE  DataOK'
  BY <1>19, UnpinObjectsType DEF Unpin
<1>20. ASSUME NEW t \in Client, Return(t)
      PROVE  DataOK'
  BY <1>20 DEF Return
<1>21. ASSUME NEW t \in Client, Busy(t)
      PROVE  DataOK'
  <2>1. \/ \E ok \in AllocOutcome : GemFlush({wd[th[t].obj]}, ok)
        \/ UNCHANGED <<listVars, wd, reqVars, ring, gpuDirty, flushAt>>
    BY <1>21 DEF Busy
  <2>2. ReqOK' /\ FlushOK'
    <3>1. CASE \E ok \in AllocOutcome : GemFlush({wd[th[t].obj]}, ok)
      <4>1. PICK ok \in BOOLEAN : GemFlush({wd[th[t].obj]}, ok)
        BY <3>1 DEF AllocOutcome
      <4> QED
        BY <4>1, GemFlushType
    <3>2. CASE UNCHANGED <<listVars, wd, reqVars, ring, gpuDirty, flushAt>>
      BY <3>2
    <3> QED
      BY <2>1, <3>1, <3>2
  <2> QED
    BY <1>21, <2>2 DEF Busy
<1>22. ASSUME NEW t \in Client, \E o \in Obj : ExecPin(t, o)
      PROVE  DataOK'
  BY <1>22 DEF ExecPin, PinObject
<1>23. ASSUME NEW t \in Client, ExecRelocError(t)
      PROVE  DataOK'
  <2>1. held' \in [Obj -> Thread \cup {NoThread}]
    BY <1>23 DEF ExecRelocError
  <2> QED
    BY <1>23, <2>1, UnpinObjectsType DEF ExecRelocError
<1>24. ASSUME NEW t \in Client, ExecFlush(t)
      PROVE  DataOK'
  <2>1. PICK ok \in BOOLEAN : GemFlush(UNION {FlushOf(o) : o \in inExec}, ok)
    BY <1>24 DEF ExecFlush, AllocOutcome
  <2>2. ReqOK' /\ FlushOK'
    BY <2>1, GemFlushType
  <2> QED
    BY <1>24, <2>2 DEF ExecFlush, NewReads
<1>25. ASSUME NEW t \in Client, ExecDispatch(t)
      PROVE  DataOK'
  <2>1. ReqOK'
    BY <1>25, AddRequestType DEF ExecDispatch, AllocOutcome
  <2>2. /\ list' \in [Obj -> {"none", "active", "flushing", "inactive"}]
        /\ active' \subseteq Obj
        /\ lrs' \in [Obj -> Nat] /\ lws' \in [Obj -> Nat]
    BY <1>25, MoveToActiveType DEF ExecDispatch
  <2> QED
    BY <1>25, <2>1, <2>2 DEF ExecDispatch
<1>26. ASSUME NEW t \in Client, ExecExit(t)
      PROVE  DataOK'
  <2>1. held' \in [Obj -> Thread \cup {NoThread}]
    BY <1>26 DEF ExecExit
  <2> QED
    BY <1>26, <2>1, UnpinObjectsType DEF ExecExit
<1>27. CASE \E task \in {"retire", "hung"} : RunTask(task)
  BY <1>27 DEF RunTask
<1>28. CASE WriteLock(Worker)
  BY <1>28 DEF WriteLock
<1>29. CASE Retire(Worker)
  BY <1>29, RetireRequestType DEF Retire
<1>30. CASE RetireEnd(Worker)
  <2>1. retireTimer' \in BOOLEAN
    BY <1>30 DEF RetireEnd, Rearm
  <2> QED
    BY <1>30, <2>1 DEF RetireEnd
<1>31. CASE HungReset
  BY <1>31 DEF HungReset
<1>32. CASE HungRelock
  BY <1>32 DEF HungRelock
<1>33. CASE HungClear
  BY <1>33 DEF HungClear, InactiveList
<1>34. CASE \E o \in Obj : HungEvict(o)
  BY <1>34 DEF HungEvict, UnbindObject
<1>35. CASE HungEnd
  BY <1>35 DEF HungEnd
<1>36. CASE GpuProgress
  BY <1>36 DEF GpuProgress
<1>37. CASE RetireTimeout
  BY <1>37 DEF RetireTimeout, AllocOutcome
<1>38. CASE HangCheck
  BY <1>38 DEF HangCheck, AllocOutcome
<1>39. CASE UNCHANGED vars
  BY <1>39 DEF vars
<1> QED
  BY <1>1, <1>2, <1>3, <1>4, <1>5, <1>6, <1>7, <1>8, <1>9, <1>10, <1>11,
     <1>12, <1>13, <1>14, <1>15, <1>16, <1>17, <1>18, <1>19, <1>20, <1>21,
     <1>22, <1>23, <1>24, <1>25, <1>26, <1>27, <1>28, <1>29, <1>30, <1>31,
     <1>32, <1>33, <1>34, <1>35, <1>36, <1>37, <1>38, <1>39 DEF Next,
     Continue, Work

LEMMA ThreadStep ==
  TypeInv /\ [Next]_vars => ThreadOK' /\ ThreadInv'
<1> DEFINE ThInv == ThreadOK /\ ThreadInv
<1> SUFFICES ASSUME DataOK, ThInv, [Next]_vars PROVE ThInv'
  BY DEF TypeInv, TypeOK
<1>0. hwSeqno \in Nat
  BY DEF DataOK
<1> USE DEF ThreadOK, ThreadInv, WorkerPcs, ObjectPcs, NoObjectPcs, Pcs, Ops,
            ReadLockOps, WriteLockOps, NoLockOps, ExecOps, WriteOps
<1>1. ASSUME NEW t \in Client, \E op \in ClientOps, o \in Obj : Call(t, op, o)
      PROVE  ThInv'
  BY <1>1, OpsAssumption, ThreadAssumption DEF Call
<1>2. ASSUME NEW t \in Client, ReadLock(t)
      PROVE  ThInv'
  BY <1>2, ThreadAssumption DEF ReadLock
<1>3. ASSUME NEW t \in Client, WriteLock(t)
      PROVE  ThInv'
  BY <1>3, ThreadAssumption DEF WriteLock
<1>4. ASSUME NEW t \in Client, ExecLockAny(t)
      PROVE  ThInv'
  BY <1>4, OpsAssumption, ThreadAssumption DEF ExecLockAny, ExecLock
<1>5. ASSUME NEW t \in Client, AccessHold(t)
      PROVE  ThInv'
  BY <1>5, ThreadAssumption DEF AccessHold, Hold
<1>6. ASSUME NEW t \in Client, SetDomainHold(t)
      PROVE  ThInv'
  BY <1>6, ThreadAssumption DEF SetDomainHold, Hold
<1>7. ASSUME NEW t \in Client, UnbindHold(t)
      PROVE  ThInv'
  BY <1>7, ThreadAssumption DEF UnbindHold, Hold
<1>8. ASSUME NEW t \in Client, PinHold(t)
      PROVE  ThInv'
  BY <1>8, ThreadAssumption DEF PinHold, Hold
<1>9. ASSUME NEW t \in Client, UnpinHold(t)
      PROVE  ThInv'
  BY <1>9, ThreadAssumption DEF UnpinHold, Hold
<1>10. ASSUME NEW t \in Client, Bind(t)
      PROVE  ThInv'
  BY <1>10, ThreadAssumption DEF Bind
<1>11. ASSUME NEW t \in Client, Flush(t)
      PROVE  ThInv'
  BY <1>11, ThreadAssumption DEF Flush, AllocOutcome
<1>12. ASSUME NEW t \in Client, Wait(t)
      PROVE  ThInv'
  <2>1. th[t].obj \in Obj /\ WaitSeqno(t) \in Nat
    BY <1>12 DEF Wait, WaitSeqno, DataOK
  <2>2. \E pc \in {"domain", "sleep", ErrorPc(th[t].op)} :
          \/ th' = [th EXCEPT ![t].pc = pc]
          \/ th' = [th EXCEPT ![t].pc = pc, ![t].seq = WaitSeqno(t)]
    BY <1>12 DEF Wait
  <2> QED
    BY <1>12, <2>1, <2>2, ErrorPcType, ThreadAssumption DEF Wait
<1>13. ASSUME NEW t \in Client, Wake(t)
      PROVE  ThInv'
  <2>1. \/ th' = [th EXCEPT ![t].pc = ErrorPc(th[t].op)]
        \/ th' = [th EXCEPT ![t].pc = "retire", ![t].seq = hwSeqno]
    BY <1>13 DEF Wake
  <2> QED
    BY <1>0, <1>13, <2>1, ErrorPcType, ThreadAssumption DEF Wake
<1>14. ASSUME NEW t \in Client, Interrupt(t)
      PROVE  ThInv'
  BY <1>14, ErrorPcType, ThreadAssumption DEF Interrupt
<1>15. ASSUME NEW t \in Client, Retire(t)
      PROVE  ThInv'
  BY <1>15, ThreadAssumption DEF Retire
<1>16. ASSUME NEW t \in Client, RetireEnd(t)
      PROVE  ThInv'
  <2>1. CASE th[t].op = "busy"
    BY <1>16, <2>1, ThreadAssumption DEF RetireEnd
  <2>2. CASE th[t].op # "busy"
    <3>1. th' = [th EXCEPT ![t].pc = "domain", ![t].seq = 0]
      BY <1>16, <2>2 DEF RetireEnd
    <3> QED
      BY <1>16, <3>1, ThreadAssumption DEF RetireEnd
  <2> QED
    BY <2>1, <2>2
<1>17. ASSUME NEW t \in Client, GttDomain(t)
      PROVE  ThInv'
  BY <1>17, ThreadAssumption DEF GttDomain
<1>18. ASSUME NEW t \in Client, Unbind(t)
      PROVE  ThInv'
  BY <1>18, ThreadAssumption DEF Unbind
<1>19. ASSUME NEW t \in Client, Unpin(t)
      PROVE  ThInv'
  BY <1>19, ThreadAssumption DEF Unpin
<1>20. ASSUME NEW t \in Client, Return(t)
      PROVE  ThInv'
  BY <1>20, ThreadAssumption DEF Return
<1>21. ASSUME NEW t \in Client, Busy(t)
      PROVE  ThInv'
  <2>1. \/ th' = [th EXCEPT ![t].pc = "retire", ![t].seq = hwSeqno]
        \/ th' = [th EXCEPT ![t] = Idle]
    BY <1>21 DEF Busy
  <2> QED
    BY <1>0, <1>21, <2>1, ThreadAssumption DEF Busy
<1>22. ASSUME NEW t \in Client, \E o \in Obj : ExecPin(t, o)
      PROVE  ThInv'
  <2>1. PICK o \in Obj : ExecPin(t, o)
    BY <1>22
  <2>2. \/ th' = [th EXCEPT ![t].pc = "exec_err"]
        \/ th' = [th EXCEPT ![t].pc = "flush", ![t].obj = o]
        \/ th' = [th EXCEPT ![t].pc = "exec_pin", ![t].obj = NoThread]
    BY <2>1 DEF ExecPin
  <2>3. th[t].op = "exec" \/ th[t].obj \in Obj
    BY <2>1 DEF ExecPin
  <2> QED
    BY <2>1, <2>2, <2>3, ThreadAssumption DEF ExecPin
<1>23. ASSUME NEW t \in Client, ExecRelocError(t)
      PROVE  ThInv'
  BY <1>23, ThreadAssumption DEF ExecRelocError
<1>24. ASSUME NEW t \in Client, ExecFlush(t)
      PROVE  ThInv'
  BY <1>24, ThreadAssumption DEF ExecFlush, AllocOutcome
<1>25. ASSUME NEW t \in Client, ExecDispatch(t)
      PROVE  ThInv'
  BY <1>25, ThreadAssumption DEF ExecDispatch, AllocOutcome
<1>26. ASSUME NEW t \in Client, ExecExit(t)
      PROVE  ThInv'
  BY <1>26, ThreadAssumption DEF ExecExit
<1>27. CASE \E task \in {"retire", "hung"} : RunTask(task)
  <2>1. PICK task \in {"retire", "hung"} : RunTask(task)
    BY <1>27
  <2> QED
    BY <1>0, <2>1, ThreadAssumption DEF RunTask
<1>28. CASE WriteLock(Worker)
  BY <1>28, ThreadAssumption DEF WriteLock
<1>29. CASE Retire(Worker)
  BY <1>29, ThreadAssumption DEF Retire
<1>30. CASE RetireEnd(Worker)
  <2>1. \/ th' = [th EXCEPT ![Worker] = Idle]
        \/ th' = [th EXCEPT ![Worker].pc = "hung_clear", ![Worker].seq = 0]
    <3>1. CASE th[Worker].op = "retire"
      BY <1>30, <3>1 DEF RetireEnd
    <3>2. CASE th[Worker].op = "hung"
      BY <1>30, <3>2 DEF RetireEnd
    <3>3. th[Worker].op # "none"
      BY <1>30 DEF RetireEnd
    <3> QED
      BY <3>1, <3>2, <3>3
  <2> QED
    BY <1>30, <2>1, ThreadAssumption DEF RetireEnd
<1>31. CASE HungReset
  BY <1>0, <1>31, ThreadAssumption DEF HungReset
<1>32. CASE HungRelock
  <2>1. th' = [th EXCEPT ![Worker].pc = "retire", ![Worker].seq = hwSeqno]
    BY <1>32 DEF HungRelock
  <2>2. ThreadOK'
    <3>1. th[Worker] \in [pc : Pcs, op : Ops \cup {"none"},
                          obj : Obj \cup {NoThread}, seq : Nat]
      OBVIOUS
    <3>2. [th[Worker] EXCEPT !.pc = "retire", !.seq = hwSeqno]
            \in [pc : Pcs, op : Ops \cup {"none"},
                 obj : Obj \cup {NoThread}, seq : Nat]
      BY <1>0, <3>1
    <3> QED
      BY <2>1, <3>2
  <2>3. ThreadInv'
    BY <1>32, <2>1, ThreadAssumption DEF HungRelock
  <2> QED
    BY <2>2, <2>3
<1>33. CASE HungClear
  BY <1>33, ThreadAssumption DEF HungClear
<1>34. CASE \E o \in Obj : HungEvict(o)
  BY <1>34, ThreadAssumption DEF HungEvict
<1>35. CASE HungEnd
  BY <1>35, ThreadAssumption DEF HungEnd
<1>36. CASE GpuProgress
  BY <1>36, ThreadAssumption DEF GpuProgress
<1>37. CASE RetireTimeout
  BY <1>37, ThreadAssumption DEF RetireTimeout, AllocOutcome
<1>38. CASE HangCheck
  BY <1>38, ThreadAssumption DEF HangCheck, AllocOutcome
<1>39. CASE UNCHANGED vars
  BY <1>39 DEF vars
<1> QED
  BY <1>1, <1>2, <1>3, <1>4, <1>5, <1>6, <1>7, <1>8, <1>9, <1>10, <1>11,
     <1>12, <1>13, <1>14, <1>15, <1>16, <1>17, <1>18, <1>19, <1>20, <1>21,
     <1>22, <1>23, <1>24, <1>25, <1>26, <1>27, <1>28, <1>29, <1>30, <1>31,
     <1>32, <1>33, <1>34, <1>35, <1>36, <1>37, <1>38, <1>39 DEF Next,
     Continue, Work

\* The type invariant holds: 0 is never handed out as a seqno, and no list,
\* flag, lock or thread names anything but an object or a thread.
THEOREM TypeCorrect == Spec => []TypeOK
<1>1. Init => TypeInv
  BY InitTypeInv
<1>2. TypeInv /\ [Next]_vars => TypeInv'
  BY DataStep, ThreadStep DEF TypeInv, TypeOK
<1>3. TypeInv => TypeOK
  BY DEF TypeInv
<1> QED
  BY <1>1, <1>2, <1>3, PTL DEF Spec

-----------------------------------------------------------------------------
(* The inductive invariant.                                                *)

\* Relocations as libdrm emits them: an object of the list is read in a GPU
\* domain, and written in at most one, which is among those it is read in.
GpuAccesses ==
    \A a \in Accesses :
        /\ a.r \cap GpuDomain # {}
        /\ a.w = NoDomain \/ a.w \in a.r \cap GpuDomain

\* Inside the driver with dev_lock, by the code.
Inside(t, ops) ==
    th[t].op \in ops /\ th[t].pc \notin {"idle", "lock", "relock"}

\* What each place in the code belongs to, and that a wait ends only after the
\* GPU has passed what it was for.
Places ==
    \A t \in Client :
      /\ th[t].pc = "idle" <=> th[t].op = "none"
      /\ th[t].pc = "unpin" => th[t].op \in {"pread", "pwrite"}
      /\ th[t].pc = "access" =>
           th[t].op \in {"pread", "pwrite", "fault_r", "fault_w"}
      /\ th[t].pc = "bind" =>
           th[t].op \in {"pread", "pwrite", "fault_r", "fault_w", "pin"}
      /\ th[t].pc \in {"exec_pin", "exec_dispatch", "exec_err",
                       "reloc_err"} => th[t].op = "exec"
      /\ th[t].op = "exec" =>
           th[t].pc \notin {"idle", "hold", "bind", "out", "access", "unpin",
                            "busy"}
      /\ th[t].op = "busy" => th[t].pc \in {"busy", "retire"}
      /\ th[t].pc = "busy" => th[t].op = "busy"
      /\ th[t].op = "unpin" => th[t].pc \in {"lock", "hold", "out"}
      /\ th[t].pc = "retire" => th[t].seq <= hwSeqno

\* The worker retires up to a number the GPU has passed, and clears up after a
\* hang only while the chip is wedged.
WorkerPlaces ==
      /\ th[Worker].op = "retire" => th[Worker].pc = "retire"
      /\ th[Worker].pc = "retire" => th[Worker].seq <= hwSeqno
      /\ th[Worker].op = "hung" => wedged /\ "hung" \notin workq
      /\ "hung" \in workq => wedged

\* The lock is held by exactly those inside the driver.
Locks ==
    /\ \A t \in Client : t \in drmR <=> Inside(t, ReadLockOps)
    /\ \A t \in Thread : drmW = t <=> Inside(t, WriteLockOps)
    /\ Worker \notin drmR
    /\ drmW # NoThread => drmR = {}

\* Where a client holds its object.
HoldPcs == {"bind", "flush", "sleep", "retire", "domain", "access", "unpin",
            "out", "reloc_err"}
Holding(t) == th[t].pc \in HoldPcs /\ th[t].op # "busy"
Execs(t) == th[t].op = "exec" /\ th[t].pc \notin {"idle", "lock"}

\* An object is held by the thread that is at work on it, or by the batch that
\* is put together with it.
Holds ==
    /\ \A t \in Client : Holding(t) => held[th[t].obj] = t
    /\ \A t \in Client : Execs(t) =>
         /\ Holding(t) => th[t].obj \in inExec \ todo
         /\ \A o \in inExec \ todo : th[t].pc # "exec_err" => held[o] = t
         /\ th[t].pc = "exec_dispatch" => todo = {}
    /\ \A o \in Obj : held[o] # NoThread =>
         /\ held[o] \in Client
         /\ IF th[held[o]].op = "exec"
            THEN Execs(held[o]) /\ o \in inExec \ todo
            ELSE Holding(held[o]) /\ th[held[o]].obj = o
    /\ inExec # {} => \E t \in Client : Execs(t)

\* Numbers of requests and of accesses are never ahead of the next one.
Seqnos ==
    /\ hwSeqno < nextSeqno
    /\ \A s \in ring : hwSeqno < s /\ s < nextSeqno
    /\ \A s \in requests : 0 < s /\ s < nextSeqno
    /\ \A o \in Obj : lrs[o] <= nextSeqno /\ gpuUse[o] <= nextSeqno
                      /\ flushAt[o] <= nextSeqno

GpuWritten(o) == wd[o] \in GpuDomain

\* Lists, flags, requests and bindings agree.
Lists ==
    \A o \in Obj :
        /\ o \in active <=> list[o] \in {"active", "flushing"}
        /\ o \in gpuWrite <=> GpuWritten(o)
        /\ GpuWritten(o) => o \in active
        /\ list[o] = "active" => GpuWritten(o) \/ wd[o] = NoDomain
        /\ list[o] = "flushing" => lrs[o] = 0 /\ GpuWritten(o)
        /\ list[o] = "inactive" => lrs[o] = 0 /\ pin[o] <= 0
        /\ list[o] # "none" \/ pin[o] > 0 => o \in bound
        /\ list[o] = "active" => lrs[o] \in requests \cup {nextSeqno}

\* What binding and holding guarantee.
Bound ==
    /\ \A t \in Client :
         Holding(t) /\ th[t].op = "unbind" /\ th[t].pc # "out" =>
           pin[th[t].obj] = 0
    /\ \A t \in Client : Execs(t) =>
         \A o \in Obj : held[o] = t => o \in bound

\* A batch in the making has GPU domains only, and once it is dispatched no
\* other cache than the one it writes an object with holds writes to it.
Pending ==
    \A t \in Client : Execs(t) /\ th[t].pc # "exec_err" =>
      \A o \in inExec :
        /\ pwd[o] \in GpuDomain \cup {NoDomain}
        /\ th[t].pc # "exec_dispatch" =>
             /\ prd[o] \cap GpuDomain # {}
             /\ pwd[o] = NoDomain \/ pwd[o] \in prd[o]
        /\ th[t].pc = "exec_dispatch" =>
             /\ mapped[o] # "w"
             /\ ~wedged => gpuDirty[o] \subseteq {pwd[o]}

\* What the GPU still has to do with an object is on the books.
Tracked ==
    \A o \in Obj : ~wedged =>
        /\ gpuUse[o] > hwSeqno => list[o] = "active" /\ lrs[o] >= gpuUse[o]
        /\ gpuDirty[o] # {} => gpuDirty[o] = {wd[o]}
        /\ flushAt[o] > hwSeqno =>
             /\ list[o] = "active" /\ lrs[o] >= flushAt[o]
             /\ lws[o] >= flushAt[o]

\* The reset has forgotten what the GPU did.
Forgotten ==
    HasReset /\ th[Worker].op = "hung"
    /\ th[Worker].pc \in {"relock", "retire", "hung_clear", "hung_evict"} =>
      /\ \A o \in Obj : gpuUse[o] = 0 /\ gpuDirty[o] = {} /\ flushAt[o] = 0
      /\ \A t \in Client : ~Execs(t)

\* What a client knows of the object it waits for.
AfterFlush == {"sleep", "retire", "domain", "access"}
Until(t) ==
    IF th[t].pc = "sleep" /\ th[t].seq > hwSeqno THEN th[t].seq ELSE hwSeqno
Waits(t) == th[t].pc \in AfterFlush /\ th[t].op # "busy"
Clean(t) ==
    LET o == th[t].obj IN
    /\ ~GpuWritten(o)
    /\ ~wedged => gpuDirty[o] = {} /\ flushAt[o] <= Until(t)
    /\ th[t].op \in WriteOps =>
         /\ ~wedged => gpuUse[o] <= Until(t)
         /\ o \in active /\ th[t].pc \in {"sleep", "retire"} =>
              lrs[o] <= th[t].seq
         /\ th[t].pc = "domain" => o \notin active
Waiting == \A t \in Client : Waits(t) => Clean(t)

\* The inductive invariant of the safety theorems, beside TypeInv.
SafeInv ==
    /\ Places /\ WorkerPlaces /\ Locks /\ Holds /\ Seqnos /\ Lists /\ Bound
    /\ Pending /\ Tracked /\ Forgotten /\ Waiting /\ WriteMappingTracked

-----------------------------------------------------------------------------
(* How the actions with several outcomes move their thread.                *)

\* i915_wait_request goes to sleep, returns at once or fails.
WaitTo(t) ==
    /\ th[t].pc = "flush"
    /\ \E pc \in {"domain", "sleep", ErrorPc(th[t].op)} :
         \/ th' = [th EXCEPT ![t].pc = pc]
         \/ th' = [th EXCEPT ![t].pc = pc, ![t].seq = WaitSeqno(t)]
WakeTo(t) ==
    /\ th[t].pc = "sleep"
    /\ \/ th' = [th EXCEPT ![t].pc = ErrorPc(th[t].op)]
       \/ th' = [th EXCEPT ![t].pc = "retire", ![t].seq = hwSeqno]
ExecPinTo(t, o) ==
    /\ th[t].pc = "exec_pin"
    /\ \/ th' = [th EXCEPT ![t].pc = "exec_err"]
       \/ th' = [th EXCEPT ![t].pc = "flush", ![t].obj = o]
       \/ th' = [th EXCEPT ![t].pc = "exec_pin", ![t].obj = NoThread]

\* The disjuncts of the actions with several outcomes.
LEMMA Moves ==
  ASSUME NEW t \in Client
  PROVE  /\ Wait(t) => WaitTo(t)
         /\ Wake(t) => WakeTo(t)
         /\ \A o \in Obj : ExecPin(t, o) => ExecPinTo(t, o)
<1>1. Wait(t) => WaitTo(t)
  BY DEF Wait, WaitTo
<1>2. Wake(t) => WakeTo(t)
  BY DEF Wake, WakeTo
<1>3. ASSUME NEW o \in Obj, ExecPin(t, o) PROVE ExecPinTo(t, o)
  BY <1>3 DEF ExecPin, ExecPinTo
<1> QED
  BY <1>1, <1>2, <1>3

-----------------------------------------------------------------------------
(* What the engine's operators do, object by object.                       *)

\* A request is added, or memory ran out.
NewRequest ==
    \/ /\ nextSeqno' = nextSeqno + 1
       /\ requests' = requests \cup {nextSeqno}
       /\ ring' = ring \cup {nextSeqno}
    \/ UNCHANGED <<nextSeqno, requests, ring>>

FlushedBy(o, doms) == GpuWritten(o) /\ wd[o] \in doms
FlushEffect(doms) ==
    /\ NewRequest
    /\ \A o \in Obj :
         /\ FlushedBy(o, doms) =>
              /\ list'[o] = "active" /\ o \in active' /\ o \notin gpuWrite'
              /\ lrs'[o] = nextSeqno /\ lws'[o] = nextSeqno
              /\ wd'[o] = NoDomain
         /\ ~FlushedBy(o, doms) =>
              /\ list'[o] = list[o] /\ lrs'[o] = lrs[o] /\ lws'[o] = lws[o]
              /\ wd'[o] = wd[o]
              /\ o \in active' <=> o \in active
              /\ o \in gpuWrite' <=> o \in gpuWrite
         /\ gpuDirty'[o] = gpuDirty[o] \ doms
         /\ \/ flushAt'[o] = flushAt[o]
            \/ flushAt'[o] = nextSeqno /\ gpuDirty[o] \cap doms # {}

\* A new request takes the next number and is appended.
LEMMA AddRequestEffect ==
  ASSUME NEW ok, AddRequest(ok)
  PROVE  NewRequest
  BY DEF AddRequest, NewRequest

\* A flush moves what it covers to the active list and clears its write domain.
LEMMA GemFlushEffect ==
  ASSUME TypeInv, Lists, NEW doms, NEW ok \in BOOLEAN, GemFlush(doms, ok)
  PROVE  FlushEffect(doms)
<1>0. DataOK
  BY DEF TypeInv, TypeOK
<1>1. \A o \in Obj : /\ o \in gpuWrite <=> wd[o] \in GpuDomain
                     /\ gpuDirty[o] \subseteq GpuDomain
  BY <1>0 DEF Lists, GpuWritten, DataOK
<1>2. NoDomain \notin GpuDomain
  BY DomainAssumption
<1>3. CASE doms \cap GpuDomain = {}
  <2>1. \A o \in Obj : ~FlushedBy(o, doms) /\ gpuDirty[o] \ doms = gpuDirty[o]
    BY <1>1, <1>3 DEF FlushedBy, GpuWritten
  <2> QED
    BY <2>1, <1>3 DEF GemFlush, FlushEffect, NewRequest
<1>4. CASE doms \cap GpuDomain # {}
  <2>1. NewRequest
    BY <1>4, AddRequestEffect DEF GemFlush
  <2>2. \A o \in Obj : o \in Flushed(doms) <=> FlushedBy(o, doms)
    BY <1>1 DEF Flushed, FlushedBy, GpuWritten
  <2>3. \A o \in Obj : FlushedBy(o, doms) => wd[o] # NoDomain
    BY <1>2 DEF FlushedBy, GpuWritten
  <2>4. ASSUME NEW o \in Obj
        PROVE  /\ gpuDirty'[o] = gpuDirty[o] \ doms
               /\ \/ flushAt'[o] = flushAt[o]
                  \/ flushAt'[o] = nextSeqno /\ gpuDirty[o] \cap doms # {}
    BY <1>4 DEF GemFlush
  <2> QED
    BY <2>1, <2>2, <2>3, <2>4, <1>4 DEF GemFlush, FlushEffect, MoveToActive
<1> QED
  BY <1>3, <1>4

\* What each place in the code belongs to.
LEMMA PlacesStep ==
  ASSUME TypeInv, Places, Seqnos, [Next]_vars
  PROVE  Places'
<1>0. ThreadOK /\ ThreadInv /\ hwSeqno \in Nat /\ ring \subseteq Nat
  BY DEF TypeInv, TypeOK, DataOK
<1> USE <1>0, ThreadAssumption DEF Places, Ops, ReadLockOps, WriteLockOps,
        NoLockOps, ExecOps, ThreadOK, ThreadInv
<1>1. ASSUME NEW t \in Client, \E op \in ClientOps, o \in Obj : Call(t, op, o)
      PROVE  Places'
  BY <1>1, OpsAssumption DEF Call
<1>2. ASSUME NEW t \in Client, ReadLock(t)
      PROVE  Places'
  BY <1>2 DEF ReadLock
<1>3. ASSUME NEW t \in Client, WriteLock(t)
      PROVE  Places'
  BY <1>3 DEF WriteLock
<1>4. ASSUME NEW t \in Client, ExecLockAny(t)
      PROVE  Places'
  BY <1>4 DEF ExecLockAny, ExecLock
<1>5. ASSUME NEW t \in Client, AccessHold(t)
      PROVE  Places'
  BY <1>5 DEF AccessHold, Hold
<1>6. ASSUME NEW t \in Client, SetDomainHold(t)
      PROVE  Places'
  BY <1>6 DEF SetDomainHold, Hold
<1>7. ASSUME NEW t \in Client, UnbindHold(t)
      PROVE  Places'
  BY <1>7 DEF UnbindHold, Hold
<1>8. ASSUME NEW t \in Client, PinHold(t)
      PROVE  Places'
  BY <1>8 DEF PinHold, Hold
<1>9. ASSUME NEW t \in Client, UnpinHold(t)
      PROVE  Places'
  BY <1>9 DEF UnpinHold, Hold
<1>10. ASSUME NEW t \in Client, Bind(t)
      PROVE  Places'
  BY <1>10 DEF Bind
<1>11. ASSUME NEW t \in Client, Flush(t)
      PROVE  Places'
  BY <1>11 DEF Flush
<1>12. ASSUME NEW t \in Client, Wait(t)
      PROVE  Places'
  <2>1. WaitTo(t) /\ UNCHANGED <<hwSeqno>>
    BY <1>12, Moves DEF Wait
  <2> QED
    BY <2>1 DEF WaitTo, ErrorPc
<1>13. ASSUME NEW t \in Client, Wake(t)
      PROVE  Places'
  <2>1. WakeTo(t) /\ UNCHANGED <<hwSeqno>>
    BY <1>13, Moves DEF Wake
  <2> QED
    BY <2>1 DEF WakeTo, ErrorPc
<1>14. ASSUME NEW t \in Client, Interrupt(t)
      PROVE  Places'
  BY <1>14 DEF Interrupt, ErrorPc
<1>15. ASSUME NEW t \in Client, Retire(t)
      PROVE  Places'
  BY <1>15 DEF Retire
<1>16. ASSUME NEW t \in Client, RetireEnd(t)
      PROVE  Places'
  BY <1>16 DEF RetireEnd
<1>17. ASSUME NEW t \in Client, GttDomain(t)
      PROVE  Places'
  BY <1>17 DEF GttDomain
<1>18. ASSUME NEW t \in Client, Unbind(t)
      PROVE  Places'
  BY <1>18 DEF Unbind
<1>19. ASSUME NEW t \in Client, Unpin(t)
      PROVE  Places'
  BY <1>19 DEF Unpin
<1>20. ASSUME NEW t \in Client, Return(t)
      PROVE  Places'
  BY <1>20 DEF Return
<1>21. ASSUME NEW t \in Client, Busy(t)
      PROVE  Places'
  BY <1>21 DEF Busy
<1>22. ASSUME NEW t \in Client, \E o \in Obj : ExecPin(t, o)
      PROVE  Places'
  <2>1. PICK o \in Obj : ExecPin(t, o)
    BY <1>22
  <2>2. ExecPinTo(t, o) /\ UNCHANGED <<hwSeqno>>
    BY <2>1, Moves DEF ExecPin
  <2> QED
    BY <2>2 DEF ExecPinTo
<1>23. ASSUME NEW t \in Client, ExecRelocError(t)
      PROVE  Places'
  BY <1>23 DEF ExecRelocError
<1>24. ASSUME NEW t \in Client, ExecFlush(t)
      PROVE  Places'
  BY <1>24 DEF ExecFlush
<1>25. ASSUME NEW t \in Client, ExecDispatch(t)
      PROVE  Places'
  BY <1>25 DEF ExecDispatch
<1>26. ASSUME NEW t \in Client, ExecExit(t)
      PROVE  Places'
  BY <1>26 DEF ExecExit
<1>27. CASE \E task \in {"retire", "hung"} : RunTask(task)
  BY <1>27 DEF RunTask
<1>28. CASE WriteLock(Worker)
  BY <1>28 DEF WriteLock
<1>29. CASE Retire(Worker)
  BY <1>29 DEF Retire
<1>30. CASE RetireEnd(Worker)
  BY <1>30 DEF RetireEnd
<1>31. CASE HungReset
  BY <1>31 DEF HungReset
<1>32. CASE HungRelock
  BY <1>32 DEF HungRelock
<1>33. CASE HungClear
  BY <1>33 DEF HungClear
<1>34. CASE \E o \in Obj : HungEvict(o)
  BY <1>34 DEF HungEvict
<1>35. CASE HungEnd
  BY <1>35 DEF HungEnd
<1>36. CASE GpuProgress
  <2>1. hwSeqno <= hwSeqno' /\ th' = th /\ hwSeqno' \in Nat
    BY <1>36 DEF GpuProgress, Seqnos
  <2> QED
    BY <2>1
<1>37. CASE RetireTimeout
  BY <1>37 DEF RetireTimeout
<1>38. CASE HangCheck
  BY <1>38 DEF HangCheck
<1>39. CASE UNCHANGED vars
  BY <1>39 DEF vars
<1> QED
  BY <1>1, <1>2, <1>3, <1>4, <1>5, <1>6, <1>7, <1>8, <1>9, <1>10, <1>11,
     <1>12, <1>13, <1>14, <1>15, <1>16, <1>17, <1>18, <1>19, <1>20, <1>21,
     <1>22, <1>23, <1>24, <1>25, <1>26, <1>27, <1>28, <1>29, <1>30, <1>31,
     <1>32, <1>33, <1>34, <1>35, <1>36, <1>37, <1>38, <1>39 DEF Next,
     Continue, Work

\* The worker and its queue.
LEMMA WorkerStep ==
  ASSUME TypeInv, WorkerPlaces, Seqnos, [Next]_vars
  PROVE  WorkerPlaces'
<1>0. ThreadOK /\ ThreadInv /\ hwSeqno \in Nat /\ ring \subseteq Nat
  BY DEF TypeInv, TypeOK, DataOK
<1> USE <1>0, ThreadAssumption DEF WorkerPlaces, ThreadOK, ThreadInv
<1>1. ASSUME NEW t \in Client, \E op \in ClientOps, o \in Obj : Call(t, op, o)
      PROVE  WorkerPlaces'
  BY <1>1, OpsAssumption DEF Call
<1>2. ASSUME NEW t \in Client, ReadLock(t)
      PROVE  WorkerPlaces'
  BY <1>2 DEF ReadLock
<1>3. ASSUME NEW t \in Client, WriteLock(t)
      PROVE  WorkerPlaces'
  BY <1>3 DEF WriteLock
<1>4. ASSUME NEW t \in Client, ExecLockAny(t)
      PROVE  WorkerPlaces'
  BY <1>4 DEF ExecLockAny, ExecLock
<1>5. ASSUME NEW t \in Client, AccessHold(t)
      PROVE  WorkerPlaces'
  BY <1>5 DEF AccessHold, Hold
<1>6. ASSUME NEW t \in Client, SetDomainHold(t)
      PROVE  WorkerPlaces'
  BY <1>6 DEF SetDomainHold, Hold
<1>7. ASSUME NEW t \in Client, UnbindHold(t)
      PROVE  WorkerPlaces'
  BY <1>7 DEF UnbindHold, Hold
<1>8. ASSUME NEW t \in Client, PinHold(t)
      PROVE  WorkerPlaces'
  BY <1>8 DEF PinHold, Hold
<1>9. ASSUME NEW t \in Client, UnpinHold(t)
      PROVE  WorkerPlaces'
  BY <1>9 DEF UnpinHold, Hold
<1>10. ASSUME NEW t \in Client, Bind(t)
      PROVE  WorkerPlaces'
  BY <1>10 DEF Bind
<1>11. ASSUME NEW t \in Client, Flush(t)
      PROVE  WorkerPlaces'
  BY <1>11 DEF Flush
<1>12. ASSUME NEW t \in Client, Wait(t)
      PROVE  WorkerPlaces'
  BY <1>12 DEF Wait
<1>13. ASSUME NEW t \in Client, Wake(t)
      PROVE  WorkerPlaces'
  BY <1>13 DEF Wake
<1>14. ASSUME NEW t \in Client, Interrupt(t)
      PROVE  WorkerPlaces'
  BY <1>14 DEF Interrupt
<1>15. ASSUME NEW t \in Client, Retire(t)
      PROVE  WorkerPlaces'
  BY <1>15 DEF Retire
<1>16. ASSUME NEW t \in Client, RetireEnd(t)
      PROVE  WorkerPlaces'
  BY <1>16 DEF RetireEnd
<1>17. ASSUME NEW t \in Client, GttDomain(t)
      PROVE  WorkerPlaces'
  BY <1>17 DEF GttDomain
<1>18. ASSUME NEW t \in Client, Unbind(t)
      PROVE  WorkerPlaces'
  BY <1>18 DEF Unbind
<1>19. ASSUME NEW t \in Client, Unpin(t)
      PROVE  WorkerPlaces'
  BY <1>19 DEF Unpin
<1>20. ASSUME NEW t \in Client, Return(t)
      PROVE  WorkerPlaces'
  BY <1>20 DEF Return
<1>21. ASSUME NEW t \in Client, Busy(t)
      PROVE  WorkerPlaces'
  BY <1>21 DEF Busy
<1>22. ASSUME NEW t \in Client, \E o \in Obj : ExecPin(t, o)
      PROVE  WorkerPlaces'
  <2>1. PICK o \in Obj : ExecPin(t, o)
    BY <1>22
  <2>2. ExecPinTo(t, o) /\ UNCHANGED <<hwSeqno, wedged, workq>>
    BY <2>1, Moves DEF ExecPin
  <2> QED
    BY <2>2 DEF ExecPinTo
<1>23. ASSUME NEW t \in Client, ExecRelocError(t)
      PROVE  WorkerPlaces'
  BY <1>23 DEF ExecRelocError
<1>24. ASSUME NEW t \in Client, ExecFlush(t)
      PROVE  WorkerPlaces'
  BY <1>24 DEF ExecFlush
<1>25. ASSUME NEW t \in Client, ExecDispatch(t)
      PROVE  WorkerPlaces'
  BY <1>25 DEF ExecDispatch
<1>26. ASSUME NEW t \in Client, ExecExit(t)
      PROVE  WorkerPlaces'
  BY <1>26 DEF ExecExit
<1>27. CASE \E task \in {"retire", "hung"} : RunTask(task)
  BY <1>27 DEF RunTask
<1>28. CASE WriteLock(Worker)
  BY <1>28 DEF WriteLock
<1>29. CASE Retire(Worker)
  BY <1>29 DEF Retire
<1>30. CASE RetireEnd(Worker)
  BY <1>30 DEF RetireEnd
<1>31. CASE HungReset
  BY <1>31 DEF HungReset
<1>32. CASE HungRelock
  BY <1>32 DEF HungRelock
<1>33. CASE HungClear
  BY <1>33 DEF HungClear
<1>34. CASE \E o \in Obj : HungEvict(o)
  BY <1>34 DEF HungEvict
<1>35. CASE HungEnd
  BY <1>35 DEF HungEnd
<1>36. CASE GpuProgress
  <2>1. hwSeqno <= hwSeqno' /\ th' = th /\ hwSeqno' \in Nat
    BY <1>36 DEF GpuProgress, Seqnos
  <2> QED
    BY <1>36, <2>1 DEF GpuProgress
<1>37. CASE RetireTimeout
  BY <1>37 DEF RetireTimeout
<1>38. CASE HangCheck
  BY <1>38 DEF HangCheck
<1>39. CASE UNCHANGED vars
  BY <1>39 DEF vars
<1> QED
  BY <1>1, <1>2, <1>3, <1>4, <1>5, <1>6, <1>7, <1>8, <1>9, <1>10, <1>11,
     <1>12, <1>13, <1>14, <1>15, <1>16, <1>17, <1>18, <1>19, <1>20, <1>21,
     <1>22, <1>23, <1>24, <1>25, <1>26, <1>27, <1>28, <1>29, <1>30, <1>31,
     <1>32, <1>33, <1>34, <1>35, <1>36, <1>37, <1>38, <1>39 DEF Next,
     Continue, Work

\* Who has dev_lock.
LEMMA LocksStep ==
  ASSUME TypeInv, Places, WorkerPlaces, Locks, [Next]_vars
  PROVE  Locks'
<1>0. /\ ThreadOK /\ ThreadInv /\ drmR \subseteq Thread
      /\ th[Worker].op = "retire" => th[Worker].pc = "retire"
  BY DEF TypeInv, TypeOK, DataOK, WorkerPlaces
<1> USE <1>0, ThreadAssumption DEF Places, Locks, Inside, Ops, ReadLockOps,
        WriteLockOps, NoLockOps, ExecOps, ThreadOK, ThreadInv
<1>1. ASSUME NEW t \in Client, \E op \in ClientOps, o \in Obj : Call(t, op, o)
      PROVE  Locks'
  BY <1>1, OpsAssumption DEF Call
<1>2. ASSUME NEW t \in Client, ReadLock(t)
      PROVE  Locks'
  BY <1>2 DEF ReadLock
<1>3. ASSUME NEW t \in Client, WriteLock(t)
      PROVE  Locks'
  BY <1>3 DEF WriteLock
<1>4. ASSUME NEW t \in Client, ExecLockAny(t)
      PROVE  Locks'
  BY <1>4 DEF ExecLockAny, ExecLock
<1>5. ASSUME NEW t \in Client, AccessHold(t)
      PROVE  Locks'
  BY <1>5 DEF AccessHold, Hold
<1>6. ASSUME NEW t \in Client, SetDomainHold(t)
      PROVE  Locks'
  BY <1>6 DEF SetDomainHold, Hold
<1>7. ASSUME NEW t \in Client, UnbindHold(t)
      PROVE  Locks'
  BY <1>7 DEF UnbindHold, Hold
<1>8. ASSUME NEW t \in Client, PinHold(t)
      PROVE  Locks'
  BY <1>8 DEF PinHold, Hold
<1>9. ASSUME NEW t \in Client, UnpinHold(t)
      PROVE  Locks'
  BY <1>9 DEF UnpinHold, Hold
<1>10. ASSUME NEW t \in Client, Bind(t)
      PROVE  Locks'
  BY <1>10 DEF Bind
<1>11. ASSUME NEW t \in Client, Flush(t)
      PROVE  Locks'
  BY <1>11 DEF Flush
<1>12. ASSUME NEW t \in Client, Wait(t)
      PROVE  Locks'
  <2>1. WaitTo(t) /\ UNCHANGED <<drmW, drmR>>
    BY <1>12, Moves DEF Wait
  <2> QED
    BY <2>1 DEF WaitTo, ErrorPc
<1>13. ASSUME NEW t \in Client, Wake(t)
      PROVE  Locks'
  <2>1. WakeTo(t) /\ UNCHANGED <<drmW, drmR>>
    BY <1>13, Moves DEF Wake
  <2> QED
    BY <2>1 DEF WakeTo, ErrorPc
<1>14. ASSUME NEW t \in Client, Interrupt(t)
      PROVE  Locks'
  BY <1>14 DEF Interrupt, ErrorPc
<1>15. ASSUME NEW t \in Client, Retire(t)
      PROVE  Locks'
  BY <1>15 DEF Retire
<1>16. ASSUME NEW t \in Client, RetireEnd(t)
      PROVE  Locks'
  BY <1>16 DEF RetireEnd
<1>17. ASSUME NEW t \in Client, GttDomain(t)
      PROVE  Locks'
  BY <1>17 DEF GttDomain
<1>18. ASSUME NEW t \in Client, Unbind(t)
      PROVE  Locks'
  BY <1>18 DEF Unbind
<1>19. ASSUME NEW t \in Client, Unpin(t)
      PROVE  Locks'
  BY <1>19 DEF Unpin
<1>20. ASSUME NEW t \in Client, Return(t)
      PROVE  Locks'
  BY <1>20 DEF Return
<1>21. ASSUME NEW t \in Client, Busy(t)
      PROVE  Locks'
  BY <1>21 DEF Busy
<1>22. ASSUME NEW t \in Client, \E o \in Obj : ExecPin(t, o)
      PROVE  Locks'
  <2>1. PICK o \in Obj : ExecPin(t, o)
    BY <1>22
  <2>2. ExecPinTo(t, o) /\ UNCHANGED <<drmW, drmR>>
    BY <2>1, Moves DEF ExecPin
  <2> QED
    BY <2>2 DEF ExecPinTo
<1>23. ASSUME NEW t \in Client, ExecRelocError(t)
      PROVE  Locks'
  BY <1>23 DEF ExecRelocError
<1>24. ASSUME NEW t \in Client, ExecFlush(t)
      PROVE  Locks'
  BY <1>24 DEF ExecFlush
<1>25. ASSUME NEW t \in Client, ExecDispatch(t)
      PROVE  Locks'
  BY <1>25 DEF ExecDispatch
<1>26. ASSUME NEW t \in Client, ExecExit(t)
      PROVE  Locks'
  BY <1>26 DEF ExecExit
<1>27. CASE \E task \in {"retire", "hung"} : RunTask(task)
  BY <1>27 DEF RunTask
<1>28. CASE WriteLock(Worker)
  BY <1>28 DEF WriteLock
<1>29. CASE Retire(Worker)
  BY <1>29 DEF Retire
<1>30. CASE RetireEnd(Worker)
  BY <1>30 DEF RetireEnd
<1>31. CASE HungReset
  BY <1>31 DEF HungReset
<1>32. CASE HungRelock
  BY <1>32 DEF HungRelock
<1>33. CASE HungClear
  BY <1>33 DEF HungClear
<1>34. CASE \E o \in Obj : HungEvict(o)
  BY <1>34 DEF HungEvict
<1>35. CASE HungEnd
  BY <1>35 DEF HungEnd
<1>36. CASE GpuProgress
  BY <1>36 DEF GpuProgress
<1>37. CASE RetireTimeout
  BY <1>37 DEF RetireTimeout
<1>38. CASE HangCheck
  BY <1>38 DEF HangCheck
<1>39. CASE UNCHANGED vars
  BY <1>39 DEF vars
<1> QED
  BY <1>1, <1>2, <1>3, <1>4, <1>5, <1>6, <1>7, <1>8, <1>9, <1>10, <1>11,
     <1>12, <1>13, <1>14, <1>15, <1>16, <1>17, <1>18, <1>19, <1>20, <1>21,
     <1>22, <1>23, <1>24, <1>25, <1>26, <1>27, <1>28, <1>29, <1>30, <1>31,
     <1>32, <1>33, <1>34, <1>35, <1>36, <1>37, <1>38, <1>39 DEF Next,
     Continue, Work

\* Who holds what.
LEMMA HoldsStep ==
  ASSUME TypeInv, Places, WorkerPlaces, Locks, Holds, [Next]_vars
  PROVE  Holds'
<1>0. /\ ThreadOK /\ ThreadInv /\ inExec \subseteq Obj
      /\ todo \subseteq inExec
      /\ held \in [Obj -> Thread \cup {NoThread}]
  BY DEF TypeInv, TypeOK, DataOK
<1>00. \A t, u \in Client : Execs(t) /\ Execs(u) => t = u
  BY <1>0, ThreadAssumption DEF Locks, Inside, WriteLockOps, Execs,
     ThreadInv, NoObjectPcs, ObjectPcs
<1> USE <1>0, <1>00, ThreadAssumption DEF Places, Holds, Holding, Execs,
   HoldPcs, Ops, ReadLockOps,
        WriteLockOps, NoLockOps, ExecOps, ThreadOK, ThreadInv
<1>1. ASSUME NEW t \in Client, \E op \in ClientOps, o \in Obj : Call(t, op, o)
      PROVE  Holds'
  BY <1>1, OpsAssumption DEF Call
<1>2. ASSUME NEW t \in Client, ReadLock(t)
      PROVE  Holds'
  BY <1>2 DEF ReadLock
<1>3. ASSUME NEW t \in Client, WriteLock(t)
      PROVE  Holds'
  BY <1>3 DEF WriteLock
<1>4. ASSUME NEW t \in Client, ExecLockAny(t)
      PROVE  Holds'
  <2>1. CASE wedged
    BY <1>4, <2>1 DEF ExecLockAny, ExecLock
  <2>2. CASE ~wedged
    <3>1. \A u \in Client : ~Execs(u)
      BY <1>4 DEF ExecLockAny, ExecLock, Locks, Inside, NoObjectPcs, ObjectPcs
    <3>2. inExec' = todo' /\ inExec' \subseteq Obj /\ held' = held
      BY <1>4, <2>2 DEF ExecLockAny, ExecLock
    <3>3. /\ th' = [th EXCEPT ![t].pc = "exec_pin"] /\ th[t].pc = "lock"
          /\ th[t].op = "exec"
      BY <1>4, <2>2 DEF ExecLockAny, ExecLock
    <3> QED
      BY <3>1, <3>2, <3>3
  <2> QED
    BY <2>1, <2>2
<1>5. ASSUME NEW t \in Client, AccessHold(t)
      PROVE  Holds'
  BY <1>5 DEF AccessHold, Hold
<1>6. ASSUME NEW t \in Client, SetDomainHold(t)
      PROVE  Holds'
  BY <1>6 DEF SetDomainHold, Hold
<1>7. ASSUME NEW t \in Client, UnbindHold(t)
      PROVE  Holds'
  BY <1>7 DEF UnbindHold, Hold
<1>8. ASSUME NEW t \in Client, PinHold(t)
      PROVE  Holds'
  BY <1>8 DEF PinHold, Hold
<1>9. ASSUME NEW t \in Client, UnpinHold(t)
      PROVE  Holds'
  BY <1>9 DEF UnpinHold, Hold
<1>10. ASSUME NEW t \in Client, Bind(t)
      PROVE  Holds'
  BY <1>10 DEF Bind
<1>11. ASSUME NEW t \in Client, Flush(t)
      PROVE  Holds'
  BY <1>11 DEF Flush
<1>12. ASSUME NEW t \in Client, Wait(t)
      PROVE  Holds'
  <2>1. WaitTo(t) /\ UNCHANGED <<held, inExec, todo>>
    BY <1>12, Moves DEF Wait
  <2> QED
    BY <2>1 DEF WaitTo, ErrorPc
<1>13. ASSUME NEW t \in Client, Wake(t)
      PROVE  Holds'
  <2>1. WakeTo(t) /\ UNCHANGED <<held, inExec, todo>>
    BY <1>13, Moves DEF Wake
  <2> QED
    BY <2>1 DEF WakeTo, ErrorPc
<1>14. ASSUME NEW t \in Client, Interrupt(t)
      PROVE  Holds'
  BY <1>14 DEF Interrupt, ErrorPc
<1>15. ASSUME NEW t \in Client, Retire(t)
      PROVE  Holds'
  BY <1>15 DEF Retire
<1>16. ASSUME NEW t \in Client, RetireEnd(t)
      PROVE  Holds'
  BY <1>16 DEF RetireEnd
<1>17. ASSUME NEW t \in Client, GttDomain(t)
      PROVE  Holds'
  BY <1>17 DEF GttDomain
<1>18. ASSUME NEW t \in Client, Unbind(t)
      PROVE  Holds'
  BY <1>18 DEF Unbind
<1>19. ASSUME NEW t \in Client, Unpin(t)
      PROVE  Holds'
  BY <1>19 DEF Unpin
<1>20. ASSUME NEW t \in Client, Return(t)
      PROVE  Holds'
  BY <1>20 DEF Return
<1>21. ASSUME NEW t \in Client, Busy(t)
      PROVE  Holds'
  BY <1>21 DEF Busy
<1>22. ASSUME NEW t \in Client, \E o \in Obj : ExecPin(t, o)
      PROVE  Holds'
  <2>1. PICK o \in Obj : ExecPin(t, o)
    BY <1>22
  <2>2. /\ ExecPinTo(t, o) /\ inExec' = inExec
        /\ o \in todo /\ held[o] = NoThread
        /\ \/ UNCHANGED <<held, todo>> /\ th' = [th EXCEPT ![t].pc = "exec_err"]
           \/ held' = [held EXCEPT ![o] = t] /\ todo' = todo \ {o}
    BY <2>1, Moves DEF ExecPin
  <2>3. Execs(t)
    BY <2>2 DEF ExecPinTo
  <2>4. CASE /\ UNCHANGED <<held, todo>>
             /\ th' = [th EXCEPT ![t].pc = "exec_err"]
    BY <2>2, <2>3, <2>4 DEF ExecPinTo
  <2>5. CASE held' = [held EXCEPT ![o] = t] /\ todo' = todo \ {o}
    BY <2>2, <2>3, <2>5 DEF ExecPinTo
  <2> QED
    BY <2>2, <2>4, <2>5
<1>23. ASSUME NEW t \in Client, ExecRelocError(t)
      PROVE  Holds'
  BY <1>23 DEF ExecRelocError
<1>24. ASSUME NEW t \in Client, ExecFlush(t)
      PROVE  Holds'
  BY <1>24 DEF ExecFlush
<1>25. ASSUME NEW t \in Client, ExecDispatch(t)
      PROVE  Holds'
  BY <1>25 DEF ExecDispatch
<1>26. ASSUME NEW t \in Client, ExecExit(t)
      PROVE  Holds'
  BY <1>26 DEF ExecExit
<1>27. CASE \E task \in {"retire", "hung"} : RunTask(task)
  BY <1>27 DEF RunTask
<1>28. CASE WriteLock(Worker)
  BY <1>28 DEF WriteLock
<1>29. CASE Retire(Worker)
  BY <1>29 DEF Retire
<1>30. CASE RetireEnd(Worker)
  BY <1>30 DEF RetireEnd
<1>31. CASE HungReset
  BY <1>31 DEF HungReset
<1>32. CASE HungRelock
  BY <1>32 DEF HungRelock
<1>33. CASE HungClear
  BY <1>33 DEF HungClear
<1>34. CASE \E o \in Obj : HungEvict(o)
  BY <1>34 DEF HungEvict
<1>35. CASE HungEnd
  BY <1>35 DEF HungEnd
<1>36. CASE GpuProgress
  BY <1>36 DEF GpuProgress
<1>37. CASE RetireTimeout
  BY <1>37 DEF RetireTimeout
<1>38. CASE HangCheck
  BY <1>38 DEF HangCheck
<1>39. CASE UNCHANGED vars
  BY <1>39 DEF vars
<1> QED
  BY <1>1, <1>2, <1>3, <1>4, <1>5, <1>6, <1>7, <1>8, <1>9, <1>10, <1>11,
     <1>12, <1>13, <1>14, <1>15, <1>16, <1>17, <1>18, <1>19, <1>20, <1>21,
     <1>22, <1>23, <1>24, <1>25, <1>26, <1>27, <1>28, <1>29, <1>30, <1>31,
     <1>32, <1>33, <1>34, <1>35, <1>36, <1>37, <1>38, <1>39 DEF Next,
     Continue, Work

\* Numbers only grow, and what is numbered now is numbered by the next one.
LEMMA SeqnosKept ==
  ASSUME TypeInv, Seqnos, NewRequest, hwSeqno' = hwSeqno,
         \A o \in Obj : /\ lrs'[o] \in {lrs[o], nextSeqno, 0}
                        /\ gpuUse'[o] \in {gpuUse[o], nextSeqno}
                        /\ flushAt'[o] \in {flushAt[o], nextSeqno}
  PROVE  Seqnos'
<1>0. DataOK
  BY DEF TypeInv, TypeOK
<1>1. nextSeqno' \in {nextSeqno, nextSeqno + 1}
  BY DEF NewRequest
<1>2. \A s \in ring' :
        s \in ring \/ (s = nextSeqno /\ nextSeqno' = nextSeqno + 1)
  BY DEF NewRequest
<1>3. \A s \in requests' :
        s \in requests \/ (s = nextSeqno /\ nextSeqno' = nextSeqno + 1)
  BY DEF NewRequest
<1>4. nextSeqno \in Nat /\ hwSeqno \in Nat /\ nextSeqno > 0
  BY <1>0 DEF DataOK
<1>9. /\ \A s \in ring : s \in Nat /\ hwSeqno < s /\ s < nextSeqno
      /\ \A s \in requests : s \in Nat /\ 0 < s /\ s < nextSeqno
      /\ hwSeqno < nextSeqno
  BY <1>0 DEF Seqnos, DataOK
<1>5. \A s \in ring' : hwSeqno' < s /\ s < nextSeqno'
  <2> TAKE s \in ring'
  <2> QED
    BY <1>1, <1>2, <1>4, <1>9
<1>6. \A s \in requests' : 0 < s /\ s < nextSeqno'
  <2> TAKE s \in requests'
  <2> QED
    BY <1>1, <1>3, <1>4, <1>9
<1>7. \A o \in Obj :
        lrs'[o] <= nextSeqno' /\ gpuUse'[o] <= nextSeqno' /\ flushAt'[o] <= nextSeqno'
  BY <1>0, <1>1, <1>4 DEF Seqnos, DataOK
<1>8. hwSeqno' < nextSeqno'
  BY <1>1, <1>4 DEF Seqnos
<1> QED
  BY <1>5, <1>6, <1>7, <1>8 DEF Seqnos

\* Sequence numbers.
LEMMA SeqnosStep ==
  ASSUME TypeInv, Lists, Seqnos, [Next]_vars
  PROVE  Seqnos'
<1>0. DataOK
  BY DEF TypeInv, TypeOK
<1> USE <1>0 DEF DataOK, Seqnos
<1>1. ASSUME NEW t \in Client, \E op \in ClientOps, o \in Obj : Call(t, op, o)
      PROVE  Seqnos'
  BY <1>1 DEF Call
<1>2. ASSUME NEW t \in Client, ReadLock(t)
      PROVE  Seqnos'
  BY <1>2 DEF ReadLock
<1>3. ASSUME NEW t \in Client, WriteLock(t)
      PROVE  Seqnos'
  BY <1>3 DEF WriteLock
<1>4. ASSUME NEW t \in Client, ExecLockAny(t)
      PROVE  Seqnos'
  BY <1>4 DEF ExecLockAny, ExecLock
<1>5. ASSUME NEW t \in Client, AccessHold(t)
      PROVE  Seqnos'
  BY <1>5 DEF AccessHold, Hold
<1>6. ASSUME NEW t \in Client, SetDomainHold(t)
      PROVE  Seqnos'
  BY <1>6 DEF SetDomainHold, Hold
<1>7. ASSUME NEW t \in Client, UnbindHold(t)
      PROVE  Seqnos'
  BY <1>7 DEF UnbindHold, Hold
<1>8. ASSUME NEW t \in Client, PinHold(t)
      PROVE  Seqnos'
  BY <1>8 DEF PinHold, Hold
<1>9. ASSUME NEW t \in Client, UnpinHold(t)
      PROVE  Seqnos'
  <2>1. UNCHANGED <<hwSeqno, ring, nextSeqno, requests, gpuUse, flushAt>>
    BY <1>9 DEF UnpinHold, Hold
  <2>2. \A o \in Obj : lrs'[o] \in {lrs[o], 0}
    BY <1>9 DEF UnpinHold, Hold, UnpinObjects
  <2> QED
    BY <2>1, <2>2
<1>10. ASSUME NEW t \in Client, Bind(t)
      PROVE  Seqnos'
  BY <1>10 DEF Bind
<1>11. ASSUME NEW t \in Client, Flush(t)
      PROVE  Seqnos'
  <2>1. PICK ok \in BOOLEAN : GemFlush({wd[th[t].obj]}, ok)
    BY <1>11 DEF Flush, AllocOutcome
  <2>2. FlushEffect({wd[th[t].obj]}) /\ UNCHANGED <<hwSeqno, gpuUse>>
    BY <1>11, <2>1, GemFlushEffect DEF Flush
  <2> QED
    BY <2>2, SeqnosKept DEF FlushEffect
<1>12. ASSUME NEW t \in Client, Wait(t)
      PROVE  Seqnos'
  <2>1. NewRequest /\ UNCHANGED <<hwSeqno, lrs, gpuUse, flushAt>>
    BY <1>12, AddRequestEffect DEF Wait, NewRequest
  <2> QED
    BY <2>1, SeqnosKept
<1>13. ASSUME NEW t \in Client, Wake(t)
      PROVE  Seqnos'
  BY <1>13 DEF Wake
<1>14. ASSUME NEW t \in Client, Interrupt(t)
      PROVE  Seqnos'
  BY <1>14 DEF Interrupt
<1>15. ASSUME NEW t \in Client, Retire(t)
      PROVE  Seqnos'
  <2>1. /\ UNCHANGED <<hwSeqno, nextSeqno, ring, gpuUse, flushAt>>
        /\ requests' \subseteq requests
        /\ \A o \in Obj : lrs'[o] \in {lrs[o], 0}
    BY <1>15 DEF Retire, RetireRequest
  <2> QED
    BY <2>1
<1>16. ASSUME NEW t \in Client, RetireEnd(t)
      PROVE  Seqnos'
  BY <1>16 DEF RetireEnd
<1>17. ASSUME NEW t \in Client, GttDomain(t)
      PROVE  Seqnos'
  BY <1>17 DEF GttDomain
<1>18. ASSUME NEW t \in Client, Unbind(t)
      PROVE  Seqnos'
  BY <1>18 DEF Unbind, UnbindObject
<1>19. ASSUME NEW t \in Client, Unpin(t)
      PROVE  Seqnos'
  <2>1. UNCHANGED <<hwSeqno, ring, nextSeqno, requests, gpuUse, flushAt>>
    BY <1>19 DEF Unpin
  <2>2. \A o \in Obj : lrs'[o] \in {lrs[o], 0}
    BY <1>19 DEF Unpin, UnpinObjects
  <2> QED
    BY <2>1, <2>2
<1>20. ASSUME NEW t \in Client, Return(t)
      PROVE  Seqnos'
  BY <1>20 DEF Return
<1>21. ASSUME NEW t \in Client, Busy(t)
      PROVE  Seqnos'
  <2>1. CASE th[t].obj \in active
    <3>1. PICK ok \in BOOLEAN : GemFlush({wd[th[t].obj]}, ok)
      BY <1>21, <2>1 DEF Busy, AllocOutcome
    <3>2. FlushEffect({wd[th[t].obj]}) /\ UNCHANGED <<hwSeqno, gpuUse>>
      BY <1>21, <3>1, GemFlushEffect DEF Busy
    <3> QED
      BY <3>2, SeqnosKept DEF FlushEffect
  <2>2. CASE th[t].obj \notin active
    BY <1>21, <2>2 DEF Busy
  <2> QED
    BY <2>1, <2>2
<1>22. ASSUME NEW t \in Client, \E o \in Obj : ExecPin(t, o)
      PROVE  Seqnos'
  BY <1>22 DEF ExecPin
<1>23. ASSUME NEW t \in Client, ExecRelocError(t)
      PROVE  Seqnos'
  <2>1. UNCHANGED <<hwSeqno, ring, nextSeqno, requests, gpuUse, flushAt>>
    BY <1>23 DEF ExecRelocError
  <2>2. \A o \in Obj : lrs'[o] \in {lrs[o], 0}
    BY <1>23 DEF ExecRelocError, UnpinObjects
  <2> QED
    BY <2>1, <2>2
<1>24. ASSUME NEW t \in Client, ExecFlush(t)
      PROVE  Seqnos'
  <2>1. PICK ok \in BOOLEAN : GemFlush(UNION {FlushOf(o) : o \in inExec}, ok)
    BY <1>24 DEF ExecFlush, AllocOutcome
  <2>2. /\ FlushEffect(UNION {FlushOf(o) : o \in inExec})
        /\ UNCHANGED <<hwSeqno, gpuUse>>
    BY <1>24, <2>1, GemFlushEffect DEF ExecFlush
  <2> QED
    BY <2>2, SeqnosKept DEF FlushEffect
<1>25. ASSUME NEW t \in Client, ExecDispatch(t)
      PROVE  Seqnos'
  <2>1. NewRequest /\ UNCHANGED <<hwSeqno, flushAt>>
    BY <1>25, AddRequestEffect DEF ExecDispatch
  <2>2. \A o \in Obj : /\ lrs'[o] \in {lrs[o], nextSeqno}
                      /\ gpuUse'[o] \in {gpuUse[o], nextSeqno}
    BY <1>25 DEF ExecDispatch, MoveToActive
  <2> QED
    BY <2>1, <2>2, SeqnosKept
<1>26. ASSUME NEW t \in Client, ExecExit(t)
      PROVE  Seqnos'
  <2>1. UNCHANGED <<hwSeqno, ring, nextSeqno, requests, gpuUse, flushAt>>
    BY <1>26 DEF ExecExit
  <2>2. \A o \in Obj : lrs'[o] \in {lrs[o], 0}
    BY <1>26 DEF ExecExit, UnpinObjects
  <2> QED
    BY <2>1, <2>2
<1>27. CASE \E task \in {"retire", "hung"} : RunTask(task)
  BY <1>27 DEF RunTask
<1>28. CASE WriteLock(Worker)
  BY <1>28 DEF WriteLock
<1>29. CASE Retire(Worker)
  <2>1. /\ UNCHANGED <<hwSeqno, nextSeqno, ring, gpuUse, flushAt>>
        /\ requests' \subseteq requests
        /\ \A o \in Obj : lrs'[o] \in {lrs[o], 0}
    BY <1>29 DEF Retire, RetireRequest
  <2> QED
    BY <2>1
<1>30. CASE RetireEnd(Worker)
  BY <1>30 DEF RetireEnd
<1>31. CASE HungReset
  BY <1>31 DEF HungReset
<1>32. CASE HungRelock
  BY <1>32 DEF HungRelock
<1>33. CASE HungClear
  BY <1>33 DEF HungClear
<1>34. CASE \E o \in Obj : HungEvict(o)
  BY <1>34 DEF HungEvict, UnbindObject
<1>35. CASE HungEnd
  BY <1>35 DEF HungEnd
<1>36. CASE GpuProgress
  BY <1>36 DEF GpuProgress
<1>37. CASE RetireTimeout
  BY <1>37 DEF RetireTimeout
<1>38. CASE HangCheck
  BY <1>38 DEF HangCheck
<1>39. CASE UNCHANGED vars
  BY <1>39 DEF vars
<1> QED
  BY <1>1, <1>2, <1>3, <1>4, <1>5, <1>6, <1>7, <1>8, <1>9, <1>10, <1>11,
     <1>12, <1>13, <1>14, <1>15, <1>16, <1>17, <1>18, <1>19, <1>20, <1>21,
     <1>22, <1>23, <1>24, <1>25, <1>26, <1>27, <1>28, <1>29, <1>30, <1>31,
     <1>32, <1>33, <1>34, <1>35, <1>36, <1>37, <1>38, <1>39 DEF Next,
     Continue, Work

-----------------------------------------------------------------------------
(* The lists.                                                              *)

LEMMA ListsUnpin ==
  ASSUME TypeInv, Lists, NEW S, UnpinObjects(S),
         UNCHANGED <<wd, bound, requests, nextSeqno>>
  PROVE  Lists'
<1>0. DataOK
  BY DEF TypeInv, TypeOK
<1> QED
  BY <1>0 DEF DataOK, Lists, GpuWritten, UnpinObjects

\* The lists agree after a flush, a new request, a pin and an unbind.
LEMMA ListsFlush ==
  ASSUME TypeInv, Lists, NEW doms, FlushEffect(doms), UNCHANGED <<pin, bound>>
  PROVE  Lists'
<1>0. DataOK /\ NoDomain \notin GpuDomain
  BY DomainAssumption DEF TypeInv, TypeOK
<1>1. requests \cup {nextSeqno} \subseteq requests' \cup {nextSeqno'}
  BY DEF FlushEffect, NewRequest
<1> QED
  BY <1>0, <1>1 DEF Lists, GpuWritten, FlushEffect, FlushedBy

LEMMA ListsRequest ==
  ASSUME TypeInv, Lists, NewRequest, UNCHANGED <<listVars, wd, pin, bound>>
  PROVE  Lists'
<1>1. requests \cup {nextSeqno} \subseteq requests' \cup {nextSeqno'}
  BY DEF NewRequest
<1> QED
  BY <1>1 DEF Lists, GpuWritten

LEMMA ListsPin ==
  ASSUME TypeInv, Lists, NEW o \in Obj, PinObject(o), bound' = bound \cup {o},
         UNCHANGED <<active, gpuWrite, lrs, lws, wd, requests, nextSeqno>>
  PROVE  Lists'
<1>0. DataOK
  BY DEF TypeInv, TypeOK
<1> QED
  BY <1>0 DEF DataOK, Lists, GpuWritten, PinObject

LEMMA ListsUnbind ==
  ASSUME TypeInv, Lists, NEW o \in Obj, UnbindObject(o), o \notin active,
         pin[o] <= 0, UNCHANGED <<requests, nextSeqno>>
  PROVE  Lists'
<1>0. DataOK /\ "CPU" \notin GpuDomain
  BY DomainAssumption DEF TypeInv, TypeOK
<1> QED
  BY <1>0 DEF DataOK, Lists, GpuWritten, UnbindObject

\* Retiring the oldest request takes along every object it was the last of.
LEMMA ListsRetire ==
  ASSUME TypeInv, Lists, Seqnos, NEW r \in requests, IsOldest(r),
         RetireRequest(r), UNCHANGED <<wd, pin, bound>>
  PROVE  Lists'
<1>0. DataOK /\ NoDomain \notin GpuDomain
  BY DomainAssumption DEF TypeInv, TypeOK
<1>1. r < nextSeqno /\ r \in Nat /\ nextSeqno \in Nat
  BY <1>0 DEF Seqnos, DataOK
<1>2. \A o \in Obj : list[o] = "active" => lrs[o] >= r
  BY <1>0, <1>1 DEF Lists, IsOldest, DataOK
<1>3. \A o \in Obj : o \in Rendered(r) <=> list[o] = "active" /\ lrs[o] = r
  BY <1>2 DEF Rendered
<1>4. /\ nextSeqno' = nextSeqno /\ requests' = requests \ {r}
      /\ gpuWrite' = gpuWrite
  BY DEF RetireRequest
<1>5. SUFFICES ASSUME NEW o \in Obj
      PROVE  /\ o \in active' <=> list'[o] \in {"active", "flushing"}
             /\ GpuWritten(o) => o \in active'
             /\ list'[o] = "active" => GpuWritten(o) \/ wd[o] = NoDomain
             /\ list'[o] = "flushing" => lrs'[o] = 0 /\ GpuWritten(o)
             /\ list'[o] = "inactive" => lrs'[o] = 0 /\ pin[o] <= 0
             /\ list'[o] # "none" \/ pin[o] > 0 => o \in bound
             /\ list'[o] = "active" => lrs'[o] \in requests' \cup {nextSeqno}
  BY <1>4, <1>5 DEF Lists, GpuWritten
<1>6. CASE o \in Rendered(r)
  <2>1. list[o] = "active" /\ pin[o] \in Int
    BY <1>0, <1>3, <1>6 DEF DataOK
  <2>2. /\ list'[o] = IF wd[o] # NoDomain THEN "flushing" ELSE InactiveList(o)
        /\ o \in active' <=> wd[o] # NoDomain
        /\ lrs'[o] = 0
    BY <1>0, <1>6, <2>1 DEF RetireRequest, Lists
  <2> QED
    BY <1>0, <2>1, <2>2 DEF Lists, GpuWritten, InactiveList
<1>7. CASE o \notin Rendered(r)
  <2>1. /\ list'[o] = list[o] /\ lrs'[o] = lrs[o]
        /\ (o \in active' <=> o \in active)
    BY <1>7 DEF RetireRequest
  <2>2. list[o] = "active" => lrs[o] # r
    BY <1>3, <1>7
  <2> QED
    BY <2>1, <2>2, <1>4 DEF Lists, GpuWritten
<1> QED
  BY <1>6, <1>7

\* The lists agree with the flags, the requests and the bindings.
LEMMA ListsStep ==
  ASSUME TypeInv, Places, Holds, Seqnos, Lists, Bound, Pending, Waiting,
         [Next]_vars
  PROVE  Lists'
<1>0. DataOK /\ GpuDomain \cap {NoDomain, "CPU", "GTT"} = {}
  BY DomainAssumption DEF TypeInv, TypeOK
<1>1. ASSUME NEW t \in Client, \E op \in ClientOps, o \in Obj : Call(t, op, o)
      PROVE  Lists'
  <2>1. UNCHANGED <<listVars, wd, pin, bound, requests, nextSeqno>>
    BY <1>1 DEF Call
  <2> QED
    BY <2>1 DEF Lists, GpuWritten
<1>2. ASSUME NEW t \in Client, ReadLock(t)
      PROVE  Lists'
  <2>1. UNCHANGED <<listVars, wd, pin, bound, requests, nextSeqno>>
    BY <1>2 DEF ReadLock
  <2> QED
    BY <2>1 DEF Lists, GpuWritten
<1>3. ASSUME NEW t \in Client, WriteLock(t)
      PROVE  Lists'
  <2>1. UNCHANGED <<listVars, wd, pin, bound, requests, nextSeqno>>
    BY <1>3 DEF WriteLock
  <2> QED
    BY <2>1 DEF Lists, GpuWritten
<1>4. ASSUME NEW t \in Client, ExecLockAny(t)
      PROVE  Lists'
  <2>1. UNCHANGED <<listVars, wd, pin, bound, requests, nextSeqno>>
    BY <1>4 DEF ExecLockAny, ExecLock
  <2> QED
    BY <2>1 DEF Lists, GpuWritten
<1>5. ASSUME NEW t \in Client, AccessHold(t)
      PROVE  Lists'
  <2>1. UNCHANGED <<listVars, wd, pin, bound, requests, nextSeqno>>
    BY <1>5 DEF AccessHold, Hold
  <2> QED
    BY <2>1 DEF Lists, GpuWritten
<1>6. ASSUME NEW t \in Client, SetDomainHold(t)
      PROVE  Lists'
  <2>1. UNCHANGED <<listVars, wd, pin, bound, requests, nextSeqno>>
    BY <1>6 DEF SetDomainHold, Hold
  <2> QED
    BY <2>1 DEF Lists, GpuWritten
<1>7. ASSUME NEW t \in Client, UnbindHold(t)
      PROVE  Lists'
  <2>1. UNCHANGED <<listVars, wd, pin, bound, requests, nextSeqno>>
    BY <1>7 DEF UnbindHold, Hold
  <2> QED
    BY <2>1 DEF Lists, GpuWritten
<1>8. ASSUME NEW t \in Client, PinHold(t)
      PROVE  Lists'
  <2>1. UNCHANGED <<listVars, wd, pin, bound, requests, nextSeqno>>
    BY <1>8 DEF PinHold, Hold
  <2> QED
    BY <2>1 DEF Lists, GpuWritten
<1>9. ASSUME NEW t \in Client, UnpinHold(t)
      PROVE  Lists'
  <2>1. UNCHANGED <<wd, bound, requests, nextSeqno>>
    BY <1>9 DEF UnpinHold, Hold
  <2>2. UnpinObjects({th[t].obj}) \/ UNCHANGED <<listVars, pin>>
    BY <1>9 DEF UnpinHold
  <2>3. CASE UNCHANGED <<listVars, pin>>
    BY <2>1, <2>3 DEF Lists, GpuWritten
  <2> QED
    BY <2>1, <2>2, <2>3, ListsUnpin
<1>10. ASSUME NEW t \in Client, Bind(t)
      PROVE  Lists'
  <2> DEFINE o == th[t].obj
  <2>0. o \in Obj
    BY <1>10 DEF Bind, TypeInv, ThreadInv, NoObjectPcs
  <2>1. UNCHANGED <<active, gpuWrite, wd, requests, nextSeqno>>
    BY <1>10 DEF Bind
  <2>2. CASE UNCHANGED <<list, lrs, lws, pin, bound>>
    BY <2>1, <2>2 DEF Lists, GpuWritten
  <2>3. CASE PinObject(o) /\ bound' = bound \cup {o} /\ UNCHANGED <<lrs, lws>>
    BY <2>0, <2>1, <2>3, ListsPin
  <2>4. CASE /\ o \in bound /\ bound' = bound \cup {o}
             /\ UNCHANGED <<pin, list, lrs, lws>>
    BY <2>0, <2>1, <2>4 DEF Lists, GpuWritten
  <2>5. CASE /\ o \notin bound /\ bound' = bound \cup {o} /\ pin' = pin
             /\ list' = [list EXCEPT ![o] = InactiveList(o)]
             /\ lrs' = [lrs EXCEPT ![o] = 0]
    <3>1. list[o] = "none" /\ pin[o] <= 0 /\ o \notin active
      BY <2>0, <2>5, <1>0 DEF Lists, DataOK
    <3>2. DataOK
      BY DEF TypeInv, TypeOK
    <3> QED
      BY <2>0, <2>1, <2>5, <3>1, <3>2 DEF Lists, GpuWritten, InactiveList,
         DataOK
  <2> QED
    BY <1>10, <2>2, <2>3, <2>4, <2>5 DEF Bind
<1>11. ASSUME NEW t \in Client, Flush(t)
      PROVE  Lists'
  <2>1. PICK ok \in BOOLEAN : GemFlush({wd[th[t].obj]}, ok)
    BY <1>11 DEF Flush, AllocOutcome
  <2>2. FlushEffect({wd[th[t].obj]}) /\ UNCHANGED <<pin, bound>>
    BY <1>11, <2>1, GemFlushEffect DEF Flush
  <2> QED
    BY <2>2, ListsFlush
<1>12. ASSUME NEW t \in Client, Wait(t)
      PROVE  Lists'
  <2>1. NewRequest /\ UNCHANGED <<listVars, wd, pin, bound>>
    BY <1>12, AddRequestEffect DEF Wait, NewRequest
  <2> QED
    BY <2>1, ListsRequest
<1>13. ASSUME NEW t \in Client, Wake(t)
      PROVE  Lists'
  <2>1. UNCHANGED <<listVars, wd, pin, bound, requests, nextSeqno>>
    BY <1>13 DEF Wake
  <2> QED
    BY <2>1 DEF Lists, GpuWritten
<1>14. ASSUME NEW t \in Client, Interrupt(t)
      PROVE  Lists'
  <2>1. UNCHANGED <<listVars, wd, pin, bound, requests, nextSeqno>>
    BY <1>14 DEF Interrupt
  <2> QED
    BY <2>1 DEF Lists, GpuWritten
<1>15. ASSUME NEW t \in Client, Retire(t)
      PROVE  Lists'
  <2>1. PICK r \in requests : IsOldest(r) /\ RetireRequest(r)
    BY <1>15 DEF Retire
  <2>2. UNCHANGED <<wd, pin, bound>>
    BY <1>15 DEF Retire
  <2> QED
    BY <2>1, <2>2, ListsRetire
<1>16. ASSUME NEW t \in Client, RetireEnd(t)
      PROVE  Lists'
  <2>1. UNCHANGED <<listVars, wd, pin, bound, requests, nextSeqno>>
    BY <1>16 DEF RetireEnd
  <2> QED
    BY <2>1 DEF Lists, GpuWritten
<1>17. ASSUME NEW t \in Client, GttDomain(t)
      PROVE  Lists'
  <2> DEFINE o == th[t].obj
  <2>0. /\ o \in Obj /\ ~GpuWritten(o)
        /\ (th[t].op \in WriteOps => o \notin active)
    BY <1>17 DEF GttDomain, TypeInv, ThreadInv, NoObjectPcs, Waiting, Waits,
       Clean, AfterFlush, Places
  <2>1. UNCHANGED <<listVars, pin, bound, requests, nextSeqno>>
    BY <1>17 DEF GttDomain
  <2>2. \A p \in Obj \ {o} : wd'[p] = wd[p]
    BY <1>17, <1>0 DEF GttDomain, DataOK
  <2>3. wd'[o] \in {"GTT", NoDomain} \/ wd'[o] = wd[o]
    BY <1>17, <1>0, <2>0 DEF GttDomain, DataOK
  <2>4. wd'[o] = "GTT" => wd[o] = "GTT" \/ o \notin active
    BY <1>17, <1>0, <2>0 DEF GttDomain, DataOK
  <2>5. \A p \in Obj : GpuWritten(p)' <=> GpuWritten(p)
    BY <2>0, <2>2, <2>3, <1>0 DEF GpuWritten
  <2>6. \A p \in Obj : list[p] = "active" =>
          GpuWritten(p) \/ wd'[p] = NoDomain
    BY <2>0, <2>2, <2>3, <2>4 DEF Lists
  <2> QED
    BY <2>1, <2>5, <2>6 DEF Lists
<1>18. ASSUME NEW t \in Client, Unbind(t)
      PROVE  Lists'
  <2>1. th[t].obj \in Obj /\ th[t].obj \notin active
    BY <1>18 DEF Unbind, TypeInv, ThreadInv, NoObjectPcs, Waiting, Waits,
       Clean, AfterFlush, WriteOps
  <2>2. pin[th[t].obj] = 0
    BY <1>18 DEF Unbind, Bound, Holding, HoldPcs
  <2>3. UnbindObject(th[t].obj) /\ UNCHANGED <<requests, nextSeqno>>
    BY <1>18 DEF Unbind
  <2> QED
    BY <2>1, <2>2, <2>3, ListsUnbind
<1>19. ASSUME NEW t \in Client, Unpin(t)
      PROVE  Lists'
  <2>1. /\ UnpinObjects({th[t].obj})
        /\ UNCHANGED <<wd, bound, requests, nextSeqno>>
    BY <1>19 DEF Unpin
  <2> QED
    BY <2>1, ListsUnpin
<1>20. ASSUME NEW t \in Client, Return(t)
      PROVE  Lists'
  <2>1. UNCHANGED <<listVars, wd, pin, bound, requests, nextSeqno>>
    BY <1>20 DEF Return
  <2> QED
    BY <2>1 DEF Lists, GpuWritten
<1>21. ASSUME NEW t \in Client, Busy(t)
      PROVE  Lists'
  <2>1. CASE th[t].obj \in active
    <3>1. PICK ok \in BOOLEAN : GemFlush({wd[th[t].obj]}, ok)
      BY <1>21, <2>1 DEF Busy, AllocOutcome
    <3>2. FlushEffect({wd[th[t].obj]}) /\ UNCHANGED <<pin, bound>>
      BY <1>21, <3>1, GemFlushEffect DEF Busy
    <3> QED
      BY <3>2, ListsFlush
  <2>2. CASE th[t].obj \notin active
    BY <1>21, <2>2 DEF Busy, Lists, GpuWritten
  <2> QED
    BY <2>1, <2>2
<1>22. ASSUME NEW t \in Client, \E o \in Obj : ExecPin(t, o)
      PROVE  Lists'
  <2>1. PICK o \in Obj : ExecPin(t, o)
    BY <1>22
  <2>2. UNCHANGED <<active, gpuWrite, lrs, lws, wd, requests, nextSeqno>>
    BY <2>1 DEF ExecPin
  <2>3. UNCHANGED <<list, pin, bound>> \/ (PinObject(o) /\ bound' = bound \cup {o})
    BY <2>1 DEF ExecPin
  <2>4. CASE UNCHANGED <<list, pin, bound>>
    BY <2>2, <2>4 DEF Lists, GpuWritten
  <2> QED
    BY <2>2, <2>3, <2>4, ListsPin
<1>23. ASSUME NEW t \in Client, ExecRelocError(t)
      PROVE  Lists'
  <2>1. /\ UnpinObjects({th[t].obj})
        /\ UNCHANGED <<wd, bound, requests, nextSeqno>>
    BY <1>23 DEF ExecRelocError
  <2> QED
    BY <2>1, ListsUnpin
<1>24. ASSUME NEW t \in Client, ExecFlush(t)
      PROVE  Lists'
  <2>1. PICK ok \in BOOLEAN : GemFlush(UNION {FlushOf(o) : o \in inExec}, ok)
    BY <1>24 DEF ExecFlush, AllocOutcome
  <2>2. /\ FlushEffect(UNION {FlushOf(o) : o \in inExec})
        /\ UNCHANGED <<pin, bound>>
    BY <1>24, <2>1, GemFlushEffect DEF ExecFlush
  <2> QED
    BY <2>2, ListsFlush
<1>25. ASSUME NEW t \in Client, ExecDispatch(t)
      PROVE  Lists'
  <2>1. UNCHANGED <<pin, bound>> /\ NewRequest
    BY <1>25, AddRequestEffect DEF ExecDispatch
  <2>2. requests \cup {nextSeqno} \subseteq requests' \cup {nextSeqno'}
    BY <2>1 DEF NewRequest
  <2>3. Execs(t) /\ th[t].pc = "exec_dispatch"
    BY <1>25 DEF ExecDispatch, Execs, Places
  <2>4. \A o \in inExec : pwd[o] \in GpuDomain \cup {NoDomain}
    BY <2>3 DEF Pending
  <2>5. inExec \subseteq bound
    BY <2>3, <1>0 DEF Holds, Bound, DataOK
  <2>6. SUFFICES ASSUME NEW o \in Obj
        PROVE  /\ o \in active' <=> list'[o] \in {"active", "flushing"}
               /\ o \in gpuWrite' <=> GpuWritten(o)'
               /\ GpuWritten(o)' => o \in active'
               /\ list'[o] = "active" => GpuWritten(o)' \/ wd'[o] = NoDomain
               /\ list'[o] = "flushing" => lrs'[o] = 0 /\ GpuWritten(o)'
               /\ list'[o] = "inactive" => lrs'[o] = 0 /\ pin[o] <= 0
               /\ list'[o] # "none" \/ pin[o] > 0 => o \in bound
               /\ list'[o] = "active" => lrs'[o] \in requests \cup {nextSeqno}
    BY <2>1, <2>2, <2>6 DEF Lists
  <2>7. CASE o \in inExec
    <3>1. /\ wd'[o] = pwd[o] /\ list'[o] = "active" /\ lrs'[o] = nextSeqno
          /\ o \in active' /\ (o \in gpuWrite' <=> pwd[o] # NoDomain)
      BY <1>25, <2>7 DEF ExecDispatch, MoveToActive
    <3> QED
      BY <2>4, <2>5, <2>7, <3>1, <1>0 DEF GpuWritten
  <2>8. CASE o \notin inExec
    <3>1. /\ wd'[o] = wd[o] /\ list'[o] = list[o] /\ lrs'[o] = lrs[o]
          /\ (o \in active' <=> o \in active)
          /\ (o \in gpuWrite' <=> o \in gpuWrite)
      BY <1>25, <2>8 DEF ExecDispatch, MoveToActive
    <3> QED
      BY <3>1 DEF Lists, GpuWritten
  <2> QED
    BY <2>7, <2>8
<1>26. ASSUME NEW t \in Client, ExecExit(t)
      PROVE  Lists'
  <2>1. /\ UnpinObjects({o \in Obj : held[o] = t})
        /\ UNCHANGED <<wd, bound, requests, nextSeqno>>
    BY <1>26 DEF ExecExit
  <2> QED
    BY <2>1, ListsUnpin
<1>27. CASE \E task \in {"retire", "hung"} : RunTask(task)
  <2>1. UNCHANGED <<listVars, wd, pin, bound, requests, nextSeqno>>
    BY <1>27 DEF RunTask
  <2> QED
    BY <2>1 DEF Lists, GpuWritten
<1>28. CASE WriteLock(Worker)
  <2>1. UNCHANGED <<listVars, wd, pin, bound, requests, nextSeqno>>
    BY <1>28 DEF WriteLock
  <2> QED
    BY <2>1 DEF Lists, GpuWritten
<1>29. CASE Retire(Worker)
  <2>1. PICK r \in requests : IsOldest(r) /\ RetireRequest(r)
    BY <1>29 DEF Retire
  <2>2. UNCHANGED <<wd, pin, bound>>
    BY <1>29 DEF Retire
  <2> QED
    BY <2>1, <2>2, ListsRetire
<1>30. CASE RetireEnd(Worker)
  <2>1. UNCHANGED <<listVars, wd, pin, bound, requests, nextSeqno>>
    BY <1>30 DEF RetireEnd
  <2> QED
    BY <2>1 DEF Lists, GpuWritten
<1>31. CASE HungReset
  <2>1. UNCHANGED <<listVars, wd, pin, bound, requests, nextSeqno>>
    BY <1>31 DEF HungReset
  <2> QED
    BY <2>1 DEF Lists, GpuWritten
<1>32. CASE HungRelock
  <2>1. UNCHANGED <<listVars, wd, pin, bound, requests, nextSeqno>>
    BY <1>32 DEF HungRelock
  <2> QED
    BY <2>1 DEF Lists, GpuWritten
<1>33. CASE HungClear
  <2>1. UNCHANGED <<pin, bound, requests, nextSeqno>>
    BY <1>33 DEF HungClear
  <2>2. ASSUME NEW o \in Obj, list[o] = "flushing"
        PROVE  /\ wd'[o] = NoDomain /\ o \notin active' /\ o \notin gpuWrite'
               /\ list'[o] = InactiveList(o) /\ lrs'[o] = 0
    BY <1>33, <2>2 DEF HungClear, Lists, GpuWritten
  <2>3. ASSUME NEW o \in Obj, list[o] # "flushing"
        PROVE  /\ wd'[o] = wd[o] /\ (o \in active' <=> o \in active)
               /\ (o \in gpuWrite' <=> o \in gpuWrite)
               /\ list'[o] = list[o] /\ lrs'[o] = lrs[o]
    BY <1>33, <2>3 DEF HungClear
  <2>4. \A o \in Obj : InactiveList(o) \in {"none", "inactive"} /\
                        (InactiveList(o) = "inactive" => pin[o] = 0)
    BY DEF InactiveList
  <2> QED
    BY <2>1, <2>2, <2>3, <2>4, <1>0 DEF Lists, GpuWritten
<1>34. CASE \E o \in Obj : HungEvict(o)
  <2>1. PICK o \in Obj : HungEvict(o)
    BY <1>34
  <2>2. /\ list[o] = "inactive" /\ UnbindObject(o)
        /\ UNCHANGED <<requests, nextSeqno>>
    BY <2>1 DEF HungEvict
  <2>3. o \notin active /\ pin[o] <= 0
    BY <2>2 DEF Lists
  <2> QED
    BY <2>2, <2>3, ListsUnbind
<1>35. CASE HungEnd
  <2>1. UNCHANGED <<listVars, wd, pin, bound, requests, nextSeqno>>
    BY <1>35 DEF HungEnd
  <2> QED
    BY <2>1 DEF Lists, GpuWritten
<1>36. CASE GpuProgress
  <2>1. UNCHANGED <<listVars, wd, pin, bound, requests, nextSeqno>>
    BY <1>36 DEF GpuProgress
  <2> QED
    BY <2>1 DEF Lists, GpuWritten
<1>37. CASE RetireTimeout
  <2>1. UNCHANGED <<listVars, wd, pin, bound, requests, nextSeqno>>
    BY <1>37 DEF RetireTimeout
  <2> QED
    BY <2>1 DEF Lists, GpuWritten
<1>38. CASE HangCheck
  <2>1. UNCHANGED <<listVars, wd, pin, bound, requests, nextSeqno>>
    BY <1>38 DEF HangCheck
  <2> QED
    BY <2>1 DEF Lists, GpuWritten
<1>39. CASE UNCHANGED vars
  <2>1. UNCHANGED <<listVars, wd, pin, bound, requests, nextSeqno>>
    BY <1>39 DEF vars
  <2> QED
    BY <2>1 DEF Lists, GpuWritten
<1> QED
  BY <1>1, <1>2, <1>3, <1>4, <1>5, <1>6, <1>7, <1>8, <1>9, <1>10, <1>11,
     <1>12, <1>13, <1>14, <1>15, <1>16, <1>17, <1>18, <1>19, <1>20, <1>21,
     <1>22, <1>23, <1>24, <1>25, <1>26, <1>27, <1>28, <1>29, <1>30, <1>31,
     <1>32, <1>33, <1>34, <1>35, <1>36, <1>37, <1>38, <1>39 DEF Next,
     Continue, Work

-----------------------------------------------------------------------------
(* What binding and holding guarantee.                                     *)

\* A held object stays bound, and unpinned if it is held to be unbound.
LEMMA BoundStep ==
  ASSUME TypeInv, Places, WorkerPlaces, Locks, Holds, Bound, [Next]_vars
  PROVE  Bound'
<1>0. /\ ThreadOK /\ ThreadInv /\ inExec \subseteq Obj
      /\ todo \subseteq inExec
      /\ held \in [Obj -> Thread \cup {NoThread}] /\ pin \in [Obj -> Int]
  BY DEF TypeInv, TypeOK, DataOK
<1> USE <1>0, ThreadAssumption DEF Places, Holds, Bound, Holding, Execs,
   HoldPcs, Ops, ReadLockOps,
        WriteLockOps, NoLockOps, ExecOps, ThreadOK, ThreadInv
<1>1. ASSUME NEW t \in Client, \E op \in ClientOps, o \in Obj : Call(t, op, o)
      PROVE  Bound'
  BY <1>1, OpsAssumption DEF Call
<1>2. ASSUME NEW t \in Client, ReadLock(t)
      PROVE  Bound'
  BY <1>2 DEF ReadLock
<1>3. ASSUME NEW t \in Client, WriteLock(t)
      PROVE  Bound'
  BY <1>3 DEF WriteLock
<1>4. ASSUME NEW t \in Client, ExecLockAny(t)
      PROVE  Bound'
  BY <1>4 DEF ExecLockAny, ExecLock
<1>5. ASSUME NEW t \in Client, AccessHold(t)
      PROVE  Bound'
  BY <1>5 DEF AccessHold, Hold
<1>6. ASSUME NEW t \in Client, SetDomainHold(t)
      PROVE  Bound'
  BY <1>6 DEF SetDomainHold, Hold
<1>7. ASSUME NEW t \in Client, UnbindHold(t)
      PROVE  Bound'
  BY <1>7 DEF UnbindHold, Hold
<1>8. ASSUME NEW t \in Client, PinHold(t)
      PROVE  Bound'
  BY <1>8 DEF PinHold, Hold
<1>9. ASSUME NEW t \in Client, UnpinHold(t)
      PROVE  Bound'
  <2>1. \A p \in Obj : p # th[t].obj => pin'[p] = pin[p]
    BY <1>9 DEF UnpinHold, UnpinObjects
  <2>2. bound' = bound /\ th[t].obj \in Obj
    BY <1>9 DEF UnpinHold, Hold, NoObjectPcs
  <2>3. /\ held[th[t].obj] = NoThread
        /\ held' = [held EXCEPT ![th[t].obj] = t]
        /\ th[t].op = "unpin" /\ th' = [th EXCEPT ![t].pc = "out"]
    BY <1>9 DEF UnpinHold, Hold
  <2> QED
    BY <2>1, <2>2, <2>3
<1>10. ASSUME NEW t \in Client, Bind(t)
      PROVE  Bound'
  <2>1. /\ th[t].pc = "bind" /\ held' = held /\ bound \subseteq bound'
        /\ \A p \in Obj : p # th[t].obj => pin'[p] = pin[p]
        /\ th' = [th EXCEPT ![t].pc = "out"] \/ th' = [th EXCEPT ![t].pc = "flush"]
    BY <1>10 DEF Bind, PinObject
  <2>2. held[th[t].obj] = t /\ th[t].op # "unbind" /\ th[t].op # "exec"
    BY <2>1
  <2> QED
    BY <2>1, <2>2
<1>11. ASSUME NEW t \in Client, Flush(t)
      PROVE  Bound'
  BY <1>11 DEF Flush
<1>12. ASSUME NEW t \in Client, Wait(t)
      PROVE  Bound'
  <2>1. WaitTo(t) /\ UNCHANGED <<held, pin, bound>>
    BY <1>12, Moves DEF Wait
  <2> QED
    BY <2>1 DEF WaitTo, ErrorPc
<1>13. ASSUME NEW t \in Client, Wake(t)
      PROVE  Bound'
  <2>1. WakeTo(t) /\ UNCHANGED <<held, pin, bound>>
    BY <1>13, Moves DEF Wake
  <2> QED
    BY <2>1 DEF WakeTo, ErrorPc
<1>14. ASSUME NEW t \in Client, Interrupt(t)
      PROVE  Bound'
  BY <1>14 DEF Interrupt, ErrorPc
<1>15. ASSUME NEW t \in Client, Retire(t)
      PROVE  Bound'
  BY <1>15 DEF Retire
<1>16. ASSUME NEW t \in Client, RetireEnd(t)
      PROVE  Bound'
  BY <1>16 DEF RetireEnd
<1>17. ASSUME NEW t \in Client, GttDomain(t)
      PROVE  Bound'
  BY <1>17 DEF GttDomain
<1>18. ASSUME NEW t \in Client, Unbind(t)
      PROVE  Bound'
  <2>1. /\ th[t].pc = "domain" /\ th[t].op = "unbind" /\ held' = held
        /\ pin' = pin
        /\ bound' = bound \ {th[t].obj} /\ th' = [th EXCEPT ![t].pc = "out"]
    BY <1>18 DEF Unbind, UnbindObject
  <2>2. held[th[t].obj] = t
    BY <2>1
  <2> QED
    BY <2>1, <2>2
<1>19. ASSUME NEW t \in Client, Unpin(t)
      PROVE  Bound'
  <2>1. \A p \in Obj : p # th[t].obj => pin'[p] = pin[p]
    BY <1>19 DEF Unpin, UnpinObjects
  <2>2. bound' = bound /\ th[t].obj \in Obj
    BY <1>19 DEF Unpin, NoObjectPcs
  <2>3. /\ held[th[t].obj] = t /\ held' = held
        /\ th[t].op \in {"pread", "pwrite"}
        /\ th' = [th EXCEPT ![t].pc = "out"]
    BY <1>19 DEF Unpin
  <2> QED
    BY <2>1, <2>2, <2>3
<1>20. ASSUME NEW t \in Client, Return(t)
      PROVE  Bound'
  BY <1>20 DEF Return
<1>21. ASSUME NEW t \in Client, Busy(t)
      PROVE  Bound'
  BY <1>21 DEF Busy
<1>22. ASSUME NEW t \in Client, \E o \in Obj : ExecPin(t, o)
      PROVE  Bound'
  <2>1. PICK o \in Obj : ExecPin(t, o)
    BY <1>22
  <2>4. ExecPinTo(t, o)
    BY <2>1, Moves
  <2>5. CASE UNCHANGED <<held, pin, bound>>
    BY <2>4, <2>5 DEF ExecPinTo
  <2>6. CASE /\ held' = [held EXCEPT ![o] = t] /\ bound' = bound \cup {o}
             /\ PinObject(o)
    <3>1. \A p \in Obj : p # o => pin'[p] = pin[p]
      BY <2>6 DEF PinObject
    <3>2. o \in todo /\ held[o] = NoThread
      BY <2>1 DEF ExecPin
    <3>3. th[t].op = "exec"
      BY <2>4 DEF ExecPinTo
    <3> QED
      BY <2>4, <2>6, <3>1, <3>2, <3>3 DEF ExecPinTo
  <2> QED
    BY <2>1, <2>5, <2>6 DEF ExecPin
<1>23. ASSUME NEW t \in Client, ExecRelocError(t)
      PROVE  Bound'
  <2>1. \A p \in Obj : p # th[t].obj => pin'[p] = pin[p]
    BY <1>23 DEF ExecRelocError, UnpinObjects
  <2>2. bound' = bound /\ th[t].obj \in Obj
    BY <1>23 DEF ExecRelocError, NoObjectPcs
  <2>3. /\ held[th[t].obj] = t
        /\ held' = [held EXCEPT ![th[t].obj] = NoThread]
        /\ th[t].op = "exec" /\ th' = [th EXCEPT ![t].pc = "exec_err"]
    BY <1>23 DEF ExecRelocError
  <2> QED
    BY <2>1, <2>2, <2>3
<1>24. ASSUME NEW t \in Client, ExecFlush(t)
      PROVE  Bound'
  BY <1>24 DEF ExecFlush
<1>25. ASSUME NEW t \in Client, ExecDispatch(t)
      PROVE  Bound'
  BY <1>25 DEF ExecDispatch
<1>26. ASSUME NEW t \in Client, ExecExit(t)
      PROVE  Bound'
  <2>1. \A p \in Obj : held[p] # t => pin'[p] = pin[p]
    BY <1>26 DEF ExecExit, UnpinObjects
  <2>2. /\ bound' = bound /\ th[t].op = "exec"
        /\ th' = [th EXCEPT ![t] = Idle]
        /\ \A p \in Obj : held'[p] = IF held[p] = t THEN NoThread ELSE held[p]
    BY <1>26 DEF ExecExit
  <2> QED
    BY <2>1, <2>2
<1>27. CASE \E task \in {"retire", "hung"} : RunTask(task)
  BY <1>27 DEF RunTask
<1>28. CASE WriteLock(Worker)
  BY <1>28 DEF WriteLock
<1>29. CASE Retire(Worker)
  BY <1>29 DEF Retire
<1>30. CASE RetireEnd(Worker)
  BY <1>30 DEF RetireEnd
<1>31. CASE HungReset
  BY <1>31 DEF HungReset
<1>32. CASE HungRelock
  BY <1>32 DEF HungRelock
<1>33. CASE HungClear
  BY <1>33 DEF HungClear
<1>34. CASE \E o \in Obj : HungEvict(o)
  <2>1. PICK o \in Obj : HungEvict(o)
    BY <1>34
  <2>2. /\ UNCHANGED <<pin, held, th>> /\ bound' = bound \ {o}
        /\ held[o] = NoThread
    BY <2>1 DEF HungEvict, UnbindObject
  <2> QED
    BY <2>2
<1>35. CASE HungEnd
  BY <1>35 DEF HungEnd
<1>36. CASE GpuProgress
  BY <1>36 DEF GpuProgress
<1>37. CASE RetireTimeout
  BY <1>37 DEF RetireTimeout
<1>38. CASE HangCheck
  BY <1>38 DEF HangCheck
<1>39. CASE UNCHANGED vars
  BY <1>39 DEF vars
<1> QED
  BY <1>1, <1>2, <1>3, <1>4, <1>5, <1>6, <1>7, <1>8, <1>9, <1>10, <1>11,
     <1>12, <1>13, <1>14, <1>15, <1>16, <1>17, <1>18, <1>19, <1>20, <1>21,
     <1>22, <1>23, <1>24, <1>25, <1>26, <1>27, <1>28, <1>29, <1>30, <1>31,
     <1>32, <1>33, <1>34, <1>35, <1>36, <1>37, <1>38, <1>39 DEF Next,
     Continue, Work

-----------------------------------------------------------------------------
(* What the GPU has still to do.                                           *)

LEMMA TrackedFlush ==
  ASSUME TypeInv, Lists, Seqnos, Tracked, NEW doms, FlushEffect(doms),
         UNCHANGED <<hwSeqno, gpuUse, wedged>>
  PROVE  Tracked'
<1>0. DataOK
  BY DEF TypeInv, TypeOK
<1>1. SUFFICES ASSUME NEW o \in Obj, ~wedged
      PROVE  /\ gpuUse[o] > hwSeqno =>
                  list'[o] = "active" /\ lrs'[o] >= gpuUse[o]
             /\ gpuDirty'[o] # {} => gpuDirty'[o] = {wd'[o]}
             /\ flushAt'[o] > hwSeqno =>
                  /\ list'[o] = "active"
                  /\ lrs'[o] >= flushAt'[o] /\ lws'[o] >= flushAt'[o]
  BY <1>1 DEF Tracked
<1>2. /\ gpuDirty'[o] = gpuDirty[o] \ doms
      /\ \/ flushAt'[o] = flushAt[o]
         \/ flushAt'[o] = nextSeqno /\ gpuDirty[o] \cap doms # {}
  BY DEF FlushEffect
<1>3. /\ gpuDirty[o] \subseteq GpuDomain
      /\ (gpuDirty[o] # {} => gpuDirty[o] = {wd[o]})
  BY <1>0, <1>1 DEF Tracked, DataOK
<1>4. /\ gpuUse[o] <= nextSeqno /\ flushAt[o] <= nextSeqno
      /\ nextSeqno \in Nat /\ gpuUse[o] \in Nat /\ flushAt[o] \in Nat
  BY <1>0 DEF Seqnos, DataOK
<1>5. CASE FlushedBy(o, doms)
  <2>1. list'[o] = "active" /\ lrs'[o] = nextSeqno /\ lws'[o] = nextSeqno
    BY <1>5 DEF FlushEffect
  <2>2. gpuDirty'[o] = {}
    BY <1>2, <1>3, <1>5 DEF FlushedBy
  <2> QED
    BY <1>2, <1>4, <2>1, <2>2
<1>6. CASE ~FlushedBy(o, doms)
  <2>1. /\ list'[o] = list[o] /\ lrs'[o] = lrs[o] /\ lws'[o] = lws[o]
        /\ wd'[o] = wd[o]
    BY <1>6 DEF FlushEffect
  <2>2. gpuDirty[o] \cap doms = {}
    BY <1>3, <1>6 DEF FlushedBy, GpuWritten
  <2> QED
    BY <1>1, <1>2, <1>3, <2>1, <2>2 DEF Tracked
<1> QED
  BY <1>5, <1>6

\* Unpinning moves no active object.
LEMMA TrackedUnpin ==
  ASSUME TypeInv, Lists, Tracked, NEW S, UnpinObjects(S),
         UNCHANGED <<hwSeqno, wd, wedged, ghostVars>>
  PROVE  Tracked'
<1>1. \A o \in Obj : list[o] = "active" =>
        list'[o] = "active" /\ lrs'[o] = lrs[o] /\ lws'[o] = lws[o]
  BY DEF UnpinObjects, Lists
<1> QED
  BY <1>1 DEF Tracked

\* Only what the GPU has passed is retired, unless it is given up.
LEMMA TrackedRetire ==
  ASSUME TypeInv, Tracked, NEW r \in requests, RetireRequest(r),
         r <= hwSeqno \/ wedged,
         UNCHANGED <<hwSeqno, wd, wedged, ghostVars>>
  PROVE  Tracked'
<1>0. DataOK
  BY DEF TypeInv, TypeOK
<1>1. \A o \in Obj : lrs[o] > hwSeqno /\ ~wedged =>
        list'[o] = list[o] /\ lrs'[o] = lrs[o] /\ lws'[o] = lws[o]
  BY <1>0 DEF RetireRequest, Rendered, DataOK
<1>2. \A o \in Obj : gpuUse[o] \in Nat /\ flushAt[o] \in Nat /\ lrs[o] \in Nat
  BY <1>0 DEF DataOK
<1>3. hwSeqno \in Nat
  BY <1>0 DEF DataOK
<1> QED
  BY <1>1, <1>2, <1>3 DEF Tracked

\* An object that is not active has nothing left to be done.
LEMMA IdleClean ==
  ASSUME TypeInv, Lists, Tracked, NEW o \in Obj, o \notin active, ~wedged
  PROVE  gpuUse[o] <= hwSeqno /\ gpuDirty[o] = {} /\ flushAt[o] <= hwSeqno
<1>0. DataOK
  BY DEF TypeInv, TypeOK
<1>1. list[o] # "active" /\ ~GpuWritten(o)
  BY DEF Lists
<1>2. ~(gpuUse[o] > hwSeqno) /\ ~(flushAt[o] > hwSeqno)
  BY <1>1 DEF Tracked
<1>3. gpuDirty[o] = {}
  BY <1>0, <1>1 DEF Tracked, GpuWritten, DataOK
<1> QED
  BY <1>0, <1>2, <1>3 DEF DataOK

\* No batch and no write is forgotten.
LEMMA TrackedStep ==
  ASSUME TypeInv, Places, WorkerPlaces, Seqnos, Lists, Pending, Tracked,
         Forgotten, Waiting, [Next]_vars
  PROVE  Tracked'
<1>0. DataOK /\ ThreadOK /\ ThreadInv
  BY DEF TypeInv, TypeOK
<1>1. ASSUME NEW t \in Client, \E op \in ClientOps, o \in Obj : Call(t, op, o)
      PROVE  Tracked'
  <2>1. UNCHANGED <<hwSeqno, list, lrs, lws, wd, wedged, ghostVars>>
    BY <1>1 DEF Call
  <2> QED
    BY <2>1 DEF Tracked
<1>2. ASSUME NEW t \in Client, ReadLock(t)
      PROVE  Tracked'
  <2>1. UNCHANGED <<hwSeqno, list, lrs, lws, wd, wedged, ghostVars>>
    BY <1>2 DEF ReadLock
  <2> QED
    BY <2>1 DEF Tracked
<1>3. ASSUME NEW t \in Client, WriteLock(t)
      PROVE  Tracked'
  <2>1. UNCHANGED <<hwSeqno, list, lrs, lws, wd, wedged, ghostVars>>
    BY <1>3 DEF WriteLock
  <2> QED
    BY <2>1 DEF Tracked
<1>4. ASSUME NEW t \in Client, ExecLockAny(t)
      PROVE  Tracked'
  <2>1. UNCHANGED <<hwSeqno, list, lrs, lws, wd, wedged, ghostVars>>
    BY <1>4 DEF ExecLockAny, ExecLock
  <2> QED
    BY <2>1 DEF Tracked
<1>5. ASSUME NEW t \in Client, AccessHold(t)
      PROVE  Tracked'
  <2>1. UNCHANGED <<hwSeqno, list, lrs, lws, wd, wedged, ghostVars>>
    BY <1>5 DEF AccessHold, Hold
  <2> QED
    BY <2>1 DEF Tracked
<1>6. ASSUME NEW t \in Client, SetDomainHold(t)
      PROVE  Tracked'
  <2>1. UNCHANGED <<hwSeqno, list, lrs, lws, wd, wedged, ghostVars>>
    BY <1>6 DEF SetDomainHold, Hold
  <2> QED
    BY <2>1 DEF Tracked
<1>7. ASSUME NEW t \in Client, UnbindHold(t)
      PROVE  Tracked'
  <2>1. UNCHANGED <<hwSeqno, list, lrs, lws, wd, wedged, ghostVars>>
    BY <1>7 DEF UnbindHold, Hold
  <2> QED
    BY <2>1 DEF Tracked
<1>8. ASSUME NEW t \in Client, PinHold(t)
      PROVE  Tracked'
  <2>1. UNCHANGED <<hwSeqno, list, lrs, lws, wd, wedged, ghostVars>>
    BY <1>8 DEF PinHold, Hold
  <2> QED
    BY <2>1 DEF Tracked
<1>9. ASSUME NEW t \in Client, UnpinHold(t)
      PROVE  Tracked'
  <2>1. UNCHANGED <<hwSeqno, wd, wedged, ghostVars>>
    BY <1>9 DEF UnpinHold, Hold
  <2>2. UnpinObjects({th[t].obj}) \/ UNCHANGED <<listVars, pin>>
    BY <1>9 DEF UnpinHold
  <2>3. CASE UNCHANGED <<listVars, pin>>
    BY <2>1, <2>3 DEF Tracked
  <2> QED
    BY <2>1, <2>2, <2>3, TrackedUnpin
<1>10. ASSUME NEW t \in Client, Bind(t)
      PROVE  Tracked'
  <2>1. UNCHANGED <<hwSeqno, wd, wedged, ghostVars>>
    BY <1>10 DEF Bind
  <2>2. th[t].obj \in bound \/ list[th[t].obj] = "none"
    BY <1>10, <1>0 DEF Bind, Lists, ThreadInv, NoObjectPcs
  <2>3. CASE UNCHANGED <<list, lrs, lws>>
    BY <2>1, <2>3 DEF Tracked
  <2>4. CASE PinObject(th[t].obj) /\ UNCHANGED <<lrs, lws>>
    <3>1. \A p \in Obj : p \in active => list'[p] = list[p]
      BY <2>4, <1>0 DEF PinObject, DataOK
    <3> QED
      BY <2>1, <2>4, <3>1 DEF Tracked, Lists
  <2>5. CASE /\ th[t].obj \notin bound
             /\ \A p \in Obj : p # th[t].obj =>
                  list'[p] = list[p] /\ lrs'[p] = lrs[p] /\ lws'[p] = lws[p]
    <3>1. \A p \in Obj : list[p] = "active" =>
            list'[p] = list[p] /\ lrs'[p] = lrs[p] /\ lws'[p] = lws[p]
      BY <2>2, <2>5
    <3> QED
      BY <2>1, <3>1 DEF Tracked
  <2>6. \/ UNCHANGED <<list, lrs, lws>>
        \/ PinObject(th[t].obj) /\ UNCHANGED <<lrs, lws>>
        \/ /\ th[t].obj \notin bound
           /\ \A p \in Obj : p # th[t].obj =>
                list'[p] = list[p] /\ lrs'[p] = lrs[p] /\ lws'[p] = lws[p]
    BY <1>10, <1>0 DEF Bind, DataOK
  <2> QED
    BY <2>3, <2>4, <2>5, <2>6
<1>11. ASSUME NEW t \in Client, Flush(t)
      PROVE  Tracked'
  <2>1. PICK ok \in BOOLEAN : GemFlush({wd[th[t].obj]}, ok)
    BY <1>11 DEF Flush, AllocOutcome
  <2>2. FlushEffect({wd[th[t].obj]}) /\ UNCHANGED <<hwSeqno, gpuUse, wedged>>
    BY <1>11, <2>1, GemFlushEffect DEF Flush
  <2> QED
    BY <2>2, TrackedFlush
<1>12. ASSUME NEW t \in Client, Wait(t)
      PROVE  Tracked'
  <2>1. UNCHANGED <<hwSeqno, list, lrs, lws, wd, wedged, ghostVars>>
    BY <1>12 DEF Wait
  <2> QED
    BY <2>1 DEF Tracked
<1>13. ASSUME NEW t \in Client, Wake(t)
      PROVE  Tracked'
  <2>1. UNCHANGED <<hwSeqno, list, lrs, lws, wd, wedged, ghostVars>>
    BY <1>13 DEF Wake
  <2> QED
    BY <2>1 DEF Tracked
<1>14. ASSUME NEW t \in Client, Interrupt(t)
      PROVE  Tracked'
  <2>1. UNCHANGED <<hwSeqno, list, lrs, lws, wd, wedged, ghostVars>>
    BY <1>14 DEF Interrupt
  <2> QED
    BY <2>1 DEF Tracked
<1>15. ASSUME NEW t \in Client, Retire(t)
      PROVE  Tracked'
  <2>1. PICK r \in requests :
               RetireRequest(r) /\ (r <= th[t].seq \/ wedged)
    BY <1>15, <1>0, ThreadAssumption DEF Retire, SeqnoPassed, ThreadOK
  <2>2. th[t].seq <= hwSeqno /\ th[t].seq \in Nat
    BY <1>15, <1>0, ThreadAssumption DEF Retire, Places, WorkerPlaces,
       ThreadOK
  <2>3. r \in Nat
    BY <1>0 DEF DataOK
  <2>4. UNCHANGED <<hwSeqno, wd, wedged, ghostVars>>
    BY <1>15 DEF Retire
  <2>5. r <= hwSeqno \/ wedged
    BY <1>0, <2>1, <2>2, <2>3 DEF DataOK
  <2> QED
    BY <2>1, <2>4, <2>5, TrackedRetire
<1>16. ASSUME NEW t \in Client, RetireEnd(t)
      PROVE  Tracked'
  <2>1. UNCHANGED <<hwSeqno, list, lrs, lws, wd, wedged, ghostVars>>
    BY <1>16 DEF RetireEnd
  <2> QED
    BY <2>1 DEF Tracked
<1>17. ASSUME NEW t \in Client, GttDomain(t)
      PROVE  Tracked'
  <2> DEFINE o == th[t].obj
  <2>0. o \in Obj /\ (~wedged => gpuDirty[o] = {})
    BY <1>17, <1>0 DEF GttDomain, ThreadInv, NoObjectPcs, Waiting, Waits,
       Clean, AfterFlush, Places
  <2>1. UNCHANGED <<hwSeqno, list, lrs, lws, wedged, ghostVars>>
    BY <1>17 DEF GttDomain
  <2>2. \A p \in Obj \ {o} : wd'[p] = wd[p]
    BY <1>17, <1>0 DEF GttDomain, DataOK
  <2> QED
    BY <2>0, <2>1, <2>2 DEF Tracked
<1>18. ASSUME NEW t \in Client, Unbind(t)
      PROVE  Tracked'
  <2> DEFINE o == th[t].obj
  <2>1. o \in Obj /\ o \notin active /\ UnbindObject(o)
    BY <1>18, <1>0 DEF Unbind, ThreadInv, NoObjectPcs, Waiting, Waits, Clean,
       AfterFlush, WriteOps
  <2>2. UNCHANGED <<hwSeqno, wedged, ghostVars>>
    BY <1>18 DEF Unbind
  <2>3. DataOK
    BY <1>0
  <2>4. \A p \in Obj \ {o} : wd'[p] = wd[p] /\ list'[p] = list[p]
    BY <2>1, <2>3 DEF UnbindObject, DataOK
  <2>5. ~wedged =>
          gpuUse[o] <= hwSeqno /\ gpuDirty[o] = {} /\ flushAt[o] <= hwSeqno
    BY <2>1, IdleClean
  <2>6. UNCHANGED <<lrs, lws>>
    BY <2>1 DEF UnbindObject
  <2> QED
    BY <2>1, <2>2, <2>3, <2>4, <2>5, <2>6 DEF Tracked, DataOK
<1>19. ASSUME NEW t \in Client, Unpin(t)
      PROVE  Tracked'
  <2>1. /\ UnpinObjects({th[t].obj})
        /\ UNCHANGED <<hwSeqno, wd, wedged, ghostVars>>
    BY <1>19 DEF Unpin
  <2> QED
    BY <2>1, TrackedUnpin
<1>20. ASSUME NEW t \in Client, Return(t)
      PROVE  Tracked'
  <2>1. UNCHANGED <<hwSeqno, list, lrs, lws, wd, wedged, ghostVars>>
    BY <1>20 DEF Return
  <2> QED
    BY <2>1 DEF Tracked
<1>21. ASSUME NEW t \in Client, Busy(t)
      PROVE  Tracked'
  <2>1. CASE th[t].obj \in active
    <3>1. PICK ok \in BOOLEAN : GemFlush({wd[th[t].obj]}, ok)
      BY <1>21, <2>1 DEF Busy, AllocOutcome
    <3>2. /\ FlushEffect({wd[th[t].obj]})
          /\ UNCHANGED <<hwSeqno, gpuUse, wedged>>
      BY <1>21, <3>1, GemFlushEffect DEF Busy
    <3> QED
      BY <3>2, TrackedFlush
  <2>2. CASE th[t].obj \notin active
    BY <1>21, <2>2 DEF Busy, Tracked
  <2> QED
    BY <2>1, <2>2
<1>22. ASSUME NEW t \in Client, \E o \in Obj : ExecPin(t, o)
      PROVE  Tracked'
  <2>1. PICK o \in Obj : ExecPin(t, o)
    BY <1>22
  <2>2. UNCHANGED <<hwSeqno, lrs, lws, wd, wedged, ghostVars>>
    BY <2>1 DEF ExecPin
  <2>3. UNCHANGED list \/ PinObject(o)
    BY <2>1 DEF ExecPin
  <2>4. \A p \in Obj : p \in active => list'[p] = list[p]
    BY <2>3, <1>0 DEF PinObject, DataOK
  <2> QED
    BY <2>2, <2>4 DEF Tracked, Lists
<1>23. ASSUME NEW t \in Client, ExecRelocError(t)
      PROVE  Tracked'
  <2>1. /\ UnpinObjects({th[t].obj})
        /\ UNCHANGED <<hwSeqno, wd, wedged, ghostVars>>
    BY <1>23 DEF ExecRelocError
  <2> QED
    BY <2>1, TrackedUnpin
<1>24. ASSUME NEW t \in Client, ExecFlush(t)
      PROVE  Tracked'
  <2>1. PICK ok \in BOOLEAN : GemFlush(UNION {FlushOf(o) : o \in inExec}, ok)
    BY <1>24 DEF ExecFlush, AllocOutcome
  <2>2. /\ FlushEffect(UNION {FlushOf(o) : o \in inExec})
        /\ UNCHANGED <<hwSeqno, gpuUse, wedged>>
    BY <1>24, <2>1, GemFlushEffect DEF ExecFlush
  <2> QED
    BY <2>2, TrackedFlush
<1>25. ASSUME NEW t \in Client, ExecDispatch(t)
      PROVE  Tracked'
  <2>1. UNCHANGED <<hwSeqno, wedged, flushAt>>
    BY <1>25 DEF ExecDispatch
  <2>2. Execs(t) /\ th[t].pc = "exec_dispatch"
    BY <1>25 DEF ExecDispatch, Execs, Places
  <2>3. SUFFICES ASSUME NEW o \in Obj, ~wedged
        PROVE  /\ gpuUse'[o] > hwSeqno =>
                    list'[o] = "active" /\ lrs'[o] >= gpuUse'[o]
               /\ gpuDirty'[o] # {} => gpuDirty'[o] = {wd'[o]}
               /\ flushAt[o] > hwSeqno =>
                    /\ list'[o] = "active"
                    /\ lrs'[o] >= flushAt[o] /\ lws'[o] >= flushAt[o]
    BY <2>1, <2>3 DEF Tracked
  <2>4. CASE o \in inExec
    <3>1. /\ wd'[o] = pwd[o] /\ list'[o] = "active" /\ lrs'[o] = nextSeqno
          /\ lws'[o] \in {lws[o], nextSeqno} /\ gpuUse'[o] = nextSeqno
          /\ \/ gpuDirty'[o] = gpuDirty[o]
             \/ gpuDirty'[o] = gpuDirty[o] \cup {pwd[o]}
      BY <1>25, <2>4 DEF ExecDispatch, MoveToActive
    <3>2. gpuDirty[o] \subseteq {pwd[o]}
      BY <2>2, <2>3, <2>4 DEF Pending
    <3>3. nextSeqno \in Nat /\ flushAt[o] \in Nat /\ flushAt[o] <= nextSeqno
      BY <1>0 DEF DataOK, Seqnos
    <3> QED
      BY <2>3, <3>1, <3>2, <3>3 DEF Tracked
  <2>5. CASE o \notin inExec
    <3>1. /\ wd'[o] = wd[o] /\ list'[o] = list[o] /\ lrs'[o] = lrs[o]
          /\ lws'[o] = lws[o] /\ gpuUse'[o] = gpuUse[o]
          /\ gpuDirty'[o] = gpuDirty[o]
      BY <1>25, <2>5 DEF ExecDispatch, MoveToActive
    <3> QED
      BY <2>3, <3>1 DEF Tracked
  <2> QED
    BY <2>4, <2>5
<1>26. ASSUME NEW t \in Client, ExecExit(t)
      PROVE  Tracked'
  <2>1. /\ UnpinObjects({o \in Obj : held[o] = t})
        /\ UNCHANGED <<hwSeqno, wd, wedged, ghostVars>>
    BY <1>26 DEF ExecExit
  <2> QED
    BY <2>1, TrackedUnpin
<1>27. CASE \E task \in {"retire", "hung"} : RunTask(task)
  <2>1. UNCHANGED <<hwSeqno, list, lrs, lws, wd, wedged, ghostVars>>
    BY <1>27 DEF RunTask
  <2> QED
    BY <2>1 DEF Tracked
<1>28. CASE WriteLock(Worker)
  <2>1. UNCHANGED <<hwSeqno, list, lrs, lws, wd, wedged, ghostVars>>
    BY <1>28 DEF WriteLock
  <2> QED
    BY <2>1 DEF Tracked
<1>29. CASE Retire(Worker)
  <2>1. PICK r \in requests :
               RetireRequest(r) /\ (r <= th[Worker].seq \/ wedged)
    BY <1>29, <1>0, ThreadAssumption DEF Retire, SeqnoPassed, ThreadOK
  <2>2. th[Worker].seq <= hwSeqno /\ th[Worker].seq \in Nat
    BY <1>29, <1>0, ThreadAssumption DEF Retire, Places, WorkerPlaces,
       ThreadOK
  <2>3. r \in Nat
    BY <1>0 DEF DataOK
  <2>4. UNCHANGED <<hwSeqno, wd, wedged, ghostVars>>
    BY <1>29 DEF Retire
  <2>5. r <= hwSeqno \/ wedged
    BY <1>0, <2>1, <2>2, <2>3 DEF DataOK
  <2> QED
    BY <2>1, <2>4, <2>5, TrackedRetire
<1>30. CASE RetireEnd(Worker)
  <2>1. UNCHANGED <<hwSeqno, list, lrs, lws, wd, wedged, ghostVars>>
    BY <1>30 DEF RetireEnd
  <2> QED
    BY <2>1 DEF Tracked
<1>31. CASE HungReset
  <2>1. UNCHANGED <<hwSeqno, list, lrs, lws, wd, wedged>>
    BY <1>31 DEF HungReset
  <2>2. \/ UNCHANGED ghostVars
        \/ \A o \in Obj :
             gpuUse'[o] = 0 /\ gpuDirty'[o] = {} /\ flushAt'[o] = 0
    BY <1>31 DEF HungReset
  <2> QED
    BY <2>1, <2>2, <1>0 DEF Tracked, DataOK
<1>32. CASE HungRelock
  <2>1. UNCHANGED <<hwSeqno, list, lrs, lws, wd, wedged, ghostVars>>
    BY <1>32 DEF HungRelock
  <2> QED
    BY <2>1 DEF Tracked
<1>33. CASE HungClear
  <2>1. wedged'
    BY <1>33, <1>0 DEF HungClear, WorkerPlaces, ThreadInv
  <2> QED
    BY <2>1 DEF Tracked
<1>34. CASE \E o \in Obj : HungEvict(o)
  <2>0. PICK o \in Obj : HungEvict(o)
    BY <1>34
  <2>1. o \in Obj /\ o \notin active /\ UnbindObject(o)
    BY <2>0 DEF HungEvict, Lists
  <2>2. UNCHANGED <<hwSeqno, wedged, ghostVars>>
    BY <2>0 DEF HungEvict
  <2>3. DataOK
    BY <1>0
  <2>4. \A p \in Obj \ {o} : wd'[p] = wd[p] /\ list'[p] = list[p]
    BY <2>1, <2>3 DEF UnbindObject, DataOK
  <2>5. ~wedged =>
          gpuUse[o] <= hwSeqno /\ gpuDirty[o] = {} /\ flushAt[o] <= hwSeqno
    BY <2>1, IdleClean
  <2>6. UNCHANGED <<lrs, lws>>
    BY <2>1 DEF UnbindObject
  <2> QED
    BY <2>1, <2>2, <2>3, <2>4, <2>5, <2>6 DEF Tracked, DataOK
<1>35. CASE HungEnd
  <2>1. UNCHANGED <<hwSeqno, list, lrs, lws, wd, ghostVars>>
    BY <1>35 DEF HungEnd
  <2>2. CASE wedged'
    BY <2>2 DEF Tracked
  <2>3. CASE ~wedged'
    <3>1. th[Worker].op = "hung" /\ th[Worker].pc = "hung_evict"
      BY <1>35, <1>0 DEF HungEnd, WorkerPlaces, ThreadInv
    <3>2. HasReset
      BY <1>35, <2>3, <3>1 DEF HungEnd, WorkerPlaces
    <3>3. \A o \in Obj : gpuUse[o] = 0 /\ gpuDirty[o] = {} /\ flushAt[o] = 0
      BY <3>1, <3>2 DEF Forgotten
    <3> QED
      BY <2>1, <3>3, <1>0 DEF Tracked, DataOK
  <2> QED
    BY <2>2, <2>3
<1>36. CASE GpuProgress
  <2>1. hwSeqno <= hwSeqno' /\ hwSeqno' \in Nat
    BY <1>36, <1>0 DEF GpuProgress, Seqnos, DataOK
  <2>2. UNCHANGED <<list, lrs, lws, wd, wedged, ghostVars>>
    BY <1>36 DEF GpuProgress
  <2> QED
    BY <2>1, <2>2, <1>0 DEF Tracked, DataOK
<1>37. CASE RetireTimeout
  <2>1. UNCHANGED <<hwSeqno, list, lrs, lws, wd, wedged, ghostVars>>
    BY <1>37 DEF RetireTimeout
  <2> QED
    BY <2>1 DEF Tracked
<1>38. CASE HangCheck
  <2>1. wedged'
    BY <1>38 DEF HangCheck
  <2> QED
    BY <2>1 DEF Tracked
<1>39. CASE UNCHANGED vars
  <2>1. UNCHANGED <<hwSeqno, list, lrs, lws, wd, wedged, ghostVars>>
    BY <1>39 DEF vars
  <2> QED
    BY <2>1 DEF Tracked
<1> QED
  BY <1>1, <1>2, <1>3, <1>4, <1>5, <1>6, <1>7, <1>8, <1>9, <1>10, <1>11,
     <1>12, <1>13, <1>14, <1>15, <1>16, <1>17, <1>18, <1>19, <1>20, <1>21,
     <1>22, <1>23, <1>24, <1>25, <1>26, <1>27, <1>28, <1>29, <1>30, <1>31,
     <1>32, <1>33, <1>34, <1>35, <1>36, <1>37, <1>38, <1>39 DEF Next,
     Continue, Work

-----------------------------------------------------------------------------
(* The batch being put together.                                           *)

LEMMA OneExec ==
  ASSUME TypeInv, Locks
  PROVE  /\ \A t, u \in Client : Execs(t) /\ Execs(u) => t = u
         /\ \A t \in Client : Execs(t) => drmW = t /\ drmR = {}
<1>1. \A t \in Client : Execs(t) => drmW = t
  BY DEF Locks, Inside, WriteLockOps, Execs, TypeInv, ThreadInv, Places,
     NoObjectPcs, ObjectPcs
<1> QED
  BY <1>1, ThreadAssumption DEF Locks

\* The driver goes on without touching the batch.
LEMMA PendingKept ==
  ASSUME Pending, UNCHANGED <<inExec, prd, pwd>>, ~wedged' => ~wedged,
         \A t \in Client : Execs(t)' /\ th'[t].pc # "exec_err" =>
           /\ Execs(t) /\ th[t].pc # "exec_err"
           /\ th'[t].pc = "exec_dispatch" <=> th[t].pc = "exec_dispatch"
           /\ th[t].pc = "exec_dispatch" => \A o \in inExec :
                mapped'[o] = "w" => mapped[o] = "w",
         \A o \in inExec : gpuDirty'[o] \subseteq gpuDirty[o]
  PROVE  Pending'
  BY DEF Pending

\* A batch that is put together has GPU domains only, and when it is
\* dispatched no cache but the one it writes with holds writes to its objects.
LEMMA PendingStep ==
  ASSUME GpuAccesses, TypeInv, Places, WorkerPlaces, Locks, Lists, Pending,
         Tracked, WriteMappingTracked, [Next]_vars
  PROVE  Pending'
<1>0. /\ DataOK /\ ThreadOK /\ ThreadInv /\ inExec \subseteq Obj /\ Places
  BY DEF TypeInv, TypeOK, DataOK
<1>1. ASSUME NEW t \in Client, \E op \in ClientOps, o \in Obj : Call(t, op, o)
      PROVE  Pending'
  <2>1. UNCHANGED <<inExec, prd, pwd, mapped, gpuDirty, wedged>>
    BY <1>1 DEF Call
  <2>2. \A u \in Client : Execs(u)' /\ th'[u].pc # "exec_err" =>
          /\ Execs(u) /\ th[u].pc # "exec_err"
          /\ th'[u].pc = "exec_dispatch" <=> th[u].pc = "exec_dispatch"
    BY <1>1, <1>0, OpsAssumption DEF Call, NoLockOps, Execs, ExecOps, Places,
       ThreadOK, ThreadInv, ObjectPcs, NoObjectPcs
  <2> QED
    BY <2>1, <2>2, PendingKept
<1>2. ASSUME NEW t \in Client, ReadLock(t)
      PROVE  Pending'
  <2>1. UNCHANGED <<inExec, prd, pwd, mapped, gpuDirty, wedged>>
    BY <1>2 DEF ReadLock
  <2>2. \A u \in Client : Execs(u)' /\ th'[u].pc # "exec_err" =>
          /\ Execs(u) /\ th[u].pc # "exec_err"
          /\ th'[u].pc = "exec_dispatch" <=> th[u].pc = "exec_dispatch"
    BY <1>2, <1>0 DEF ReadLock, ReadLockOps, Execs, ExecOps, Places,
       ThreadOK, ThreadInv, ObjectPcs, NoObjectPcs
  <2> QED
    BY <2>1, <2>2, PendingKept
<1>3. ASSUME NEW t \in Client, WriteLock(t)
      PROVE  Pending'
  <2>1. UNCHANGED <<inExec, prd, pwd, mapped, gpuDirty, wedged>>
    BY <1>3 DEF WriteLock
  <2>2. \A u \in Client : Execs(u)' /\ th'[u].pc # "exec_err" =>
          /\ Execs(u) /\ th[u].pc # "exec_err"
          /\ th'[u].pc = "exec_dispatch" <=> th[u].pc = "exec_dispatch"
    BY <1>3, <1>0 DEF WriteLock, Execs, ExecOps, Places, ThreadOK, ThreadInv,
       ObjectPcs, NoObjectPcs
  <2> QED
    BY <2>1, <2>2, PendingKept
<1>4. ASSUME NEW t \in Client, ExecLockAny(t)
      PROVE  Pending'
  <2>1. CASE wedged
    BY <1>4, <2>1, <1>0 DEF ExecLockAny, ExecLock, Pending, Execs, ThreadOK
  <2>2. CASE ~wedged
    <3>0. PICK batch \in SUBSET Obj \ {{}} :
            \E acc \in [batch -> Accesses] : ExecLock(t, batch, acc)
      BY <1>4 DEF ExecLockAny
    <3>1. PICK acc \in [batch -> Accesses] : ExecLock(t, batch, acc)
      BY <3>0
    <3>2. /\ drmW = NoThread /\ th' = [th EXCEPT ![t].pc = "exec_pin"]
          /\ inExec' = batch
          /\ prd' = [o \in Obj |-> IF o \in batch THEN acc[o].r ELSE prd[o]]
          /\ pwd' = [o \in Obj |-> IF o \in batch THEN acc[o].w ELSE pwd[o]]
      BY <2>2, <3>1 DEF ExecLock
    <3>3. \A u \in Client : ~Execs(u)
      BY <3>2, OneExec, ThreadAssumption
    <3>4. \A u \in Client : Execs(u)' => th'[u].pc = "exec_pin"
      BY <3>2, <3>3, <1>0 DEF Execs, ThreadOK
    <3>5. ASSUME NEW o \in batch
          PROVE  /\ pwd'[o] \in GpuDomain \cup {NoDomain}
                 /\ prd'[o] \cap GpuDomain # {}
                 /\ pwd'[o] = NoDomain \/ pwd'[o] \in prd'[o]
      <4>1. acc[o] \in Accesses /\ prd'[o] = acc[o].r /\ pwd'[o] = acc[o].w
        BY <3>2, <3>5
      <4> QED
        BY <4>1 DEF GpuAccesses
    <3> QED
      BY <3>2, <3>4, <3>5 DEF Pending
  <2> QED
    BY <2>1, <2>2
<1>5. ASSUME NEW t \in Client, AccessHold(t)
      PROVE  Pending'
  <2>1. UNCHANGED <<inExec, prd, pwd, mapped, gpuDirty, wedged>>
    BY <1>5 DEF AccessHold, Hold
  <2>2. \A u \in Client : Execs(u)' /\ th'[u].pc # "exec_err" =>
          /\ Execs(u) /\ th[u].pc # "exec_err"
          /\ th'[u].pc = "exec_dispatch" <=> th[u].pc = "exec_dispatch"
    BY <1>5, <1>0 DEF AccessHold, Hold, Execs, ExecOps, Places, ThreadOK,
       ThreadInv, ObjectPcs, NoObjectPcs
  <2> QED
    BY <2>1, <2>2, PendingKept
<1>6. ASSUME NEW t \in Client, SetDomainHold(t)
      PROVE  Pending'
  <2>1. UNCHANGED <<inExec, prd, pwd, mapped, gpuDirty, wedged>>
    BY <1>6 DEF SetDomainHold, Hold
  <2>2. \A u \in Client : Execs(u)' /\ th'[u].pc # "exec_err" =>
          /\ Execs(u) /\ th[u].pc # "exec_err"
          /\ th'[u].pc = "exec_dispatch" <=> th[u].pc = "exec_dispatch"
    BY <1>6, <1>0 DEF SetDomainHold, Hold, Execs, ExecOps, Places, ThreadOK,
       ThreadInv, ObjectPcs, NoObjectPcs
  <2> QED
    BY <2>1, <2>2, PendingKept
<1>7. ASSUME NEW t \in Client, UnbindHold(t)
      PROVE  Pending'
  <2>1. UNCHANGED <<inExec, prd, pwd, mapped, gpuDirty, wedged>>
    BY <1>7 DEF UnbindHold, Hold
  <2>2. \A u \in Client : Execs(u)' /\ th'[u].pc # "exec_err" =>
          /\ Execs(u) /\ th[u].pc # "exec_err"
          /\ th'[u].pc = "exec_dispatch" <=> th[u].pc = "exec_dispatch"
    BY <1>7, <1>0 DEF UnbindHold, Hold, Execs, ExecOps, Places, ThreadOK,
       ThreadInv, ObjectPcs, NoObjectPcs
  <2> QED
    BY <2>1, <2>2, PendingKept
<1>8. ASSUME NEW t \in Client, PinHold(t)
      PROVE  Pending'
  <2>1. UNCHANGED <<inExec, prd, pwd, mapped, gpuDirty, wedged>>
    BY <1>8 DEF PinHold, Hold
  <2>2. \A u \in Client : Execs(u)' /\ th'[u].pc # "exec_err" =>
          /\ Execs(u) /\ th[u].pc # "exec_err"
          /\ th'[u].pc = "exec_dispatch" <=> th[u].pc = "exec_dispatch"
    BY <1>8, <1>0 DEF PinHold, Hold, Execs, ExecOps, Places, ThreadOK,
       ThreadInv, ObjectPcs, NoObjectPcs
  <2> QED
    BY <2>1, <2>2, PendingKept
<1>9. ASSUME NEW t \in Client, UnpinHold(t)
      PROVE  Pending'
  <2>1. UNCHANGED <<inExec, prd, pwd, mapped, gpuDirty, wedged>>
    BY <1>9 DEF UnpinHold, Hold
  <2>2. \A u \in Client : Execs(u)' /\ th'[u].pc # "exec_err" =>
          /\ Execs(u) /\ th[u].pc # "exec_err"
          /\ th'[u].pc = "exec_dispatch" <=> th[u].pc = "exec_dispatch"
    BY <1>9, <1>0 DEF UnpinHold, Hold, Execs, ExecOps, Places, ThreadOK,
       ThreadInv, ObjectPcs, NoObjectPcs
  <2> QED
    BY <2>1, <2>2, PendingKept
<1>10. ASSUME NEW t \in Client, Bind(t)
      PROVE  Pending'
  <2>1. UNCHANGED <<inExec, prd, pwd, mapped, gpuDirty, wedged>>
    BY <1>10 DEF Bind
  <2>2. \A u \in Client : Execs(u)' /\ th'[u].pc # "exec_err" =>
          /\ Execs(u) /\ th[u].pc # "exec_err"
          /\ th'[u].pc = "exec_dispatch" <=> th[u].pc = "exec_dispatch"
    BY <1>10, <1>0 DEF Bind, Execs, ExecOps, Places, ThreadOK, ThreadInv,
       ObjectPcs, NoObjectPcs
  <2> QED
    BY <2>1, <2>2, PendingKept
<1>11. ASSUME NEW t \in Client, Flush(t)
      PROVE  Pending'
  <2>1. UNCHANGED <<inExec, prd, pwd, mapped, wedged, th>>
    BY <1>11 DEF Flush
  <2>2. \A u \in Client : Execs(u)' /\ th'[u].pc # "exec_err" =>
          /\ Execs(u) /\ th[u].pc # "exec_err"
          /\ th'[u].pc = "exec_dispatch" <=> th[u].pc = "exec_dispatch"
    BY <1>11, <1>0 DEF Flush, Execs, ExecOps, Places, ThreadOK, ThreadInv,
       ObjectPcs, NoObjectPcs
  <2>4. PICK ok \in BOOLEAN : GemFlush({wd[th[t].obj]}, ok)
    BY <1>11 DEF Flush, AllocOutcome
  <2>5. FlushEffect({wd[th[t].obj]})
    BY <2>4, GemFlushEffect
  <2>3. \A o \in Obj : gpuDirty'[o] \subseteq gpuDirty[o]
    BY <2>5 DEF FlushEffect
  <2> QED
    BY <2>1, <2>2, <2>3, <1>0, PendingKept
<1>12. ASSUME NEW t \in Client, Wait(t)
      PROVE  Pending'
  <2>0. WaitTo(t)
    BY <1>12, Moves
  <2>1. UNCHANGED <<inExec, prd, pwd, mapped, gpuDirty, wedged>>
    BY <1>12 DEF Wait
  <2>2. \A u \in Client : Execs(u)' /\ th'[u].pc # "exec_err" =>
          /\ Execs(u) /\ th[u].pc # "exec_err"
          /\ th'[u].pc = "exec_dispatch" <=> th[u].pc = "exec_dispatch"
    BY <1>12, <1>0, <2>0 DEF WaitTo, ErrorPc, Execs, ExecOps, Places,
       ThreadOK, ThreadInv, ObjectPcs, NoObjectPcs
  <2> QED
    BY <2>1, <2>2, PendingKept
<1>13. ASSUME NEW t \in Client, Wake(t)
      PROVE  Pending'
  <2>0. WakeTo(t)
    BY <1>13, Moves
  <2>1. UNCHANGED <<inExec, prd, pwd, mapped, gpuDirty, wedged>>
    BY <1>13 DEF Wake
  <2>2. \A u \in Client : Execs(u)' /\ th'[u].pc # "exec_err" =>
          /\ Execs(u) /\ th[u].pc # "exec_err"
          /\ th'[u].pc = "exec_dispatch" <=> th[u].pc = "exec_dispatch"
    BY <1>13, <1>0, <2>0 DEF WakeTo, ErrorPc, Execs, ExecOps, Places,
       ThreadOK, ThreadInv, ObjectPcs, NoObjectPcs
  <2> QED
    BY <2>1, <2>2, PendingKept
<1>14. ASSUME NEW t \in Client, Interrupt(t)
      PROVE  Pending'
  <2>1. UNCHANGED <<inExec, prd, pwd, mapped, gpuDirty, wedged>>
    BY <1>14 DEF Interrupt
  <2>2. \A u \in Client : Execs(u)' /\ th'[u].pc # "exec_err" =>
          /\ Execs(u) /\ th[u].pc # "exec_err"
          /\ th'[u].pc = "exec_dispatch" <=> th[u].pc = "exec_dispatch"
    BY <1>14, <1>0 DEF Interrupt, ErrorPc, Execs, ExecOps, Places, ThreadOK,
       ThreadInv, ObjectPcs, NoObjectPcs
  <2> QED
    BY <2>1, <2>2, PendingKept
<1>15. ASSUME NEW t \in Client, Retire(t)
      PROVE  Pending'
  <2>1. UNCHANGED <<inExec, prd, pwd, mapped, gpuDirty, wedged>>
    BY <1>15 DEF Retire
  <2>2. \A u \in Client : Execs(u)' /\ th'[u].pc # "exec_err" =>
          /\ Execs(u) /\ th[u].pc # "exec_err"
          /\ th'[u].pc = "exec_dispatch" <=> th[u].pc = "exec_dispatch"
    BY <1>15, <1>0 DEF Retire, Execs, ExecOps, Places, ThreadOK, ThreadInv,
       ObjectPcs, NoObjectPcs
  <2> QED
    BY <2>1, <2>2, PendingKept
<1>16. ASSUME NEW t \in Client, RetireEnd(t)
      PROVE  Pending'
  <2>1. UNCHANGED <<inExec, prd, pwd, mapped, gpuDirty, wedged>>
    BY <1>16 DEF RetireEnd
  <2>2. \A u \in Client : Execs(u)' /\ th'[u].pc # "exec_err" =>
          /\ Execs(u) /\ th[u].pc # "exec_err"
          /\ th'[u].pc = "exec_dispatch" <=> th[u].pc = "exec_dispatch"
    BY <1>16, <1>0 DEF RetireEnd, Execs, ExecOps, Places, ThreadOK,
       ThreadInv, ObjectPcs, NoObjectPcs
  <2> QED
    BY <2>1, <2>2, PendingKept
<1>17. ASSUME NEW t \in Client, GttDomain(t)
      PROVE  Pending'
  <2>1. UNCHANGED <<inExec, prd, pwd, gpuDirty, wedged>>
    BY <1>17 DEF GttDomain
  <2>2. \A u \in Client : Execs(u)' /\ th'[u].pc # "exec_err" =>
          /\ Execs(u) /\ th[u].pc # "exec_err"
          /\ th'[u].pc = "exec_dispatch" <=> th[u].pc = "exec_dispatch"
    BY <1>17, <1>0 DEF GttDomain, Execs, ExecOps, Places, ThreadOK,
       ThreadInv, ObjectPcs, NoObjectPcs
  <2>3. \A u \in Client : Execs(u) => mapped' = mapped
    <3>1. CASE th[t].op \in {"fault_r", "fault_w"}
      BY <1>17, <3>1, OneExec DEF GttDomain, Locks, Inside, ReadLockOps
    <3>2. CASE th[t].op \notin {"fault_r", "fault_w"}
      BY <1>17, <3>2 DEF GttDomain
    <3> QED
      BY <3>1, <3>2
  <2> QED
    BY <2>1, <2>2, <2>3, PendingKept
<1>18. ASSUME NEW t \in Client, Unbind(t)
      PROVE  Pending'
  <2>1. /\ UNCHANGED <<inExec, prd, pwd, gpuDirty, wedged>>
        /\ UnbindObject(th[t].obj)
    BY <1>18 DEF Unbind
  <2>2. \A u \in Client : Execs(u)' /\ th'[u].pc # "exec_err" =>
          /\ Execs(u) /\ th[u].pc # "exec_err"
          /\ th'[u].pc = "exec_dispatch" <=> th[u].pc = "exec_dispatch"
    BY <1>18, <1>0 DEF Unbind, Execs, ExecOps, Places, ThreadOK, ThreadInv,
       ObjectPcs, NoObjectPcs
  <2>3. \A p \in Obj : mapped'[p] = "w" => mapped[p] = "w"
    BY <2>1, <1>0 DEF UnbindObject, DataOK
  <2> QED
    BY <2>1, <2>2, <2>3, <1>0, PendingKept
<1>19. ASSUME NEW t \in Client, Unpin(t)
      PROVE  Pending'
  <2>1. UNCHANGED <<inExec, prd, pwd, mapped, gpuDirty, wedged>>
    BY <1>19 DEF Unpin
  <2>2. \A u \in Client : Execs(u)' /\ th'[u].pc # "exec_err" =>
          /\ Execs(u) /\ th[u].pc # "exec_err"
          /\ th'[u].pc = "exec_dispatch" <=> th[u].pc = "exec_dispatch"
    BY <1>19, <1>0 DEF Unpin, Execs, ExecOps, Places, ThreadOK, ThreadInv,
       ObjectPcs, NoObjectPcs
  <2> QED
    BY <2>1, <2>2, PendingKept
<1>20. ASSUME NEW t \in Client, Return(t)
      PROVE  Pending'
  <2>1. UNCHANGED <<inExec, prd, pwd, mapped, gpuDirty, wedged>>
    BY <1>20 DEF Return
  <2>2. \A u \in Client : Execs(u)' /\ th'[u].pc # "exec_err" =>
          /\ Execs(u) /\ th[u].pc # "exec_err"
          /\ th'[u].pc = "exec_dispatch" <=> th[u].pc = "exec_dispatch"
    BY <1>20, <1>0 DEF Return, Execs, ExecOps, Places, ThreadOK, ThreadInv,
       ObjectPcs, NoObjectPcs
  <2> QED
    BY <2>1, <2>2, PendingKept
<1>21. ASSUME NEW t \in Client, Busy(t)
      PROVE  Pending'
  <2>1. UNCHANGED <<inExec, prd, pwd, mapped, wedged>>
    BY <1>21 DEF Busy
  <2>2. \A u \in Client : Execs(u)' /\ th'[u].pc # "exec_err" =>
          /\ Execs(u) /\ th[u].pc # "exec_err"
          /\ th'[u].pc = "exec_dispatch" <=> th[u].pc = "exec_dispatch"
    BY <1>21, <1>0 DEF Busy, Execs, ExecOps, Places, ThreadOK, ThreadInv,
       ObjectPcs, NoObjectPcs
  <2>3. \A o \in Obj : gpuDirty'[o] \subseteq gpuDirty[o]
    <3>1. CASE th[t].obj \in active
      BY <1>21, <3>1, GemFlushEffect DEF Busy, AllocOutcome, FlushEffect
    <3>2. CASE th[t].obj \notin active
      BY <1>21, <3>2 DEF Busy
    <3> QED
      BY <3>1, <3>2
  <2> QED
    BY <2>1, <2>2, <2>3, <1>0, PendingKept
<1>22. ASSUME NEW t \in Client, \E o \in Obj : ExecPin(t, o)
      PROVE  Pending'
  <2>00. PICK o \in Obj : ExecPin(t, o)
    BY <1>22
  <2>0. ExecPinTo(t, o)
    BY <2>00, Moves
  <2>1. UNCHANGED <<inExec, prd, pwd, mapped, gpuDirty, wedged>>
    BY <2>00 DEF ExecPin
  <2>2. \A u \in Client : Execs(u)' /\ th'[u].pc # "exec_err" =>
          /\ Execs(u) /\ th[u].pc # "exec_err"
          /\ th'[u].pc = "exec_dispatch" <=> th[u].pc = "exec_dispatch"
    BY <1>22, <1>0, <2>0 DEF ExecPinTo, Execs, ExecOps, Places, ThreadOK,
       ThreadInv, ObjectPcs, NoObjectPcs
  <2> QED
    BY <2>1, <2>2, PendingKept
<1>23. ASSUME NEW t \in Client, ExecRelocError(t)
      PROVE  Pending'
  <2>1. UNCHANGED <<inExec, prd, pwd, mapped, gpuDirty, wedged>>
    BY <1>23 DEF ExecRelocError
  <2>2. \A u \in Client : Execs(u)' /\ th'[u].pc # "exec_err" =>
          /\ Execs(u) /\ th[u].pc # "exec_err"
          /\ th'[u].pc = "exec_dispatch" <=> th[u].pc = "exec_dispatch"
    BY <1>23, <1>0 DEF ExecRelocError, Execs, ExecOps, Places, ThreadOK,
       ThreadInv, ObjectPcs, NoObjectPcs
  <2> QED
    BY <2>1, <2>2, PendingKept
<1>24. ASSUME NEW t \in Client, ExecFlush(t)
      PROVE  Pending'
  <2> DEFINE flush == UNION {FlushOf(o) : o \in inExec}
  <2>1. /\ th[t].pc = "exec_pin" /\ UNCHANGED <<inExec, wedged>>
        /\ th' = [th EXCEPT ![t].pc = "exec_dispatch"]
    BY <1>24 DEF ExecFlush
  <2>2. Execs(t) /\ th[t].pc # "exec_err"
    BY <2>1, <1>0 DEF Execs, Places
  <2>3. \A u \in Client : Execs(u)' => u = t /\ th'[u].pc = "exec_dispatch"
    BY <2>1, <2>2, <1>0, OneExec DEF Execs, ThreadOK
  <2>4. PICK ok \in BOOLEAN : GemFlush(flush, ok)
    BY <1>24 DEF ExecFlush, AllocOutcome
  <2>5. \A o \in Obj : gpuDirty'[o] = gpuDirty[o] \ flush
    BY <2>4, GemFlushEffect DEF FlushEffect
  <2>6. ASSUME NEW o \in inExec
        PROVE  /\ pwd'[o] \in GpuDomain \cup {NoDomain}
               /\ mapped'[o] # "w"
               /\ ~wedged => gpuDirty'[o] \subseteq {pwd'[o]}
    <3>1. /\ pwd[o] \in GpuDomain \cup {NoDomain}
          /\ prd[o] \cap GpuDomain # {}
          /\ pwd[o] = NoDomain \/ pwd[o] \in prd[o]
      BY <2>1, <2>2 DEF Pending
    <3>2. o \in Obj /\ FlushOf(o) \subseteq flush
      BY <1>0
    <3>3. /\ pwd'[o] = IF FlushOf(o) = {} /\ pwd[o] = NoDomain THEN wd[o] ELSE pwd[o]
          /\ mapped'[o] = IF Wipes(o) THEN "none" ELSE mapped[o]
      BY <1>24, <3>2 DEF ExecFlush
    <3>4. prd[o] \subseteq NewReads(o) /\ NewReads(o) \cap GpuDomain # {}
      BY <3>1 DEF NewReads
    <3>5. FlushOf(o) = {} => wd[o] = NoDomain \/ NewReads(o) = {wd[o]}
      BY DEF FlushOf
    <3>6. FlushOf(o) # {} => FlushOf(o) = {wd[o]}
      BY DEF FlushOf
    <3>7. pwd'[o] \in GpuDomain \cup {NoDomain}
      BY <3>1, <3>3, <3>4, <3>5
    <3>8. mapped'[o] # "w"
      <4>1. CASE mapped[o] = "w"
        <5>1. wd[o] = "GTT"
          BY <3>2, <4>1 DEF WriteMappingTracked
        <5>2. FlushOf(o) = {"GTT"}
          BY <3>4, <5>1, DomainAssumption DEF FlushOf
        <5> QED
          BY <3>3, <5>2 DEF Wipes
      <4> QED
        BY <3>3, <4>1
    <3>9. ASSUME ~wedged PROVE gpuDirty'[o] \subseteq {pwd'[o]}
      <4>1. gpuDirty[o] \subseteq {wd[o]} /\ gpuDirty[o] \subseteq GpuDomain
        BY <3>2, <3>9, <1>0 DEF Tracked, DataOK
      <4>2. CASE FlushOf(o) # {}
        BY <2>5, <3>2, <3>6, <4>1, <4>2
      <4>3. CASE FlushOf(o) = {} /\ wd[o] = NoDomain
        BY <2>5, <3>2, <4>1, <4>3, DomainAssumption
      <4>4. CASE FlushOf(o) = {} /\ NewReads(o) = {wd[o]}
        BY <2>5, <3>1, <3>2, <3>3, <3>4, <4>1, <4>4
      <4> QED
        BY <3>5, <4>2, <4>3, <4>4
    <3> QED
      BY <3>7, <3>8, <3>9
  <2> QED
    BY <2>1, <2>3, <2>6 DEF Pending
<1>25. ASSUME NEW t \in Client, ExecDispatch(t)
      PROVE  Pending'
  <2>1. \A u \in Client : Execs(u)' => th'[u].pc = "exec_err"
    BY <1>25, <1>0, OneExec DEF ExecDispatch, Execs, Places, ThreadOK
  <2> QED
    BY <2>1 DEF Pending
<1>26. ASSUME NEW t \in Client, ExecExit(t)
      PROVE  Pending'
  <2>1. \A u \in Client : ~Execs(u)'
    BY <1>26, <1>0, OneExec DEF ExecExit, Execs, Places, ThreadOK
  <2> QED
    BY <2>1 DEF Pending
<1>27. CASE \E task \in {"retire", "hung"} : RunTask(task)
  <2>1. UNCHANGED <<inExec, prd, pwd, mapped, gpuDirty, wedged>>
    BY <1>27 DEF RunTask
  <2>2. \A u \in Client : Execs(u)' /\ th'[u].pc # "exec_err" =>
          /\ Execs(u) /\ th[u].pc # "exec_err"
          /\ th'[u].pc = "exec_dispatch" <=> th[u].pc = "exec_dispatch"
    BY <1>27, <1>0, ThreadAssumption DEF RunTask, Execs, ExecOps, Places,
       ThreadOK, ThreadInv, ObjectPcs, NoObjectPcs
  <2> QED
    BY <2>1, <2>2, PendingKept
<1>28. CASE WriteLock(Worker)
  <2>1. UNCHANGED <<inExec, prd, pwd, mapped, gpuDirty, wedged>>
    BY <1>28 DEF WriteLock
  <2>2. \A u \in Client : Execs(u)' /\ th'[u].pc # "exec_err" =>
          /\ Execs(u) /\ th[u].pc # "exec_err"
          /\ th'[u].pc = "exec_dispatch" <=> th[u].pc = "exec_dispatch"
    BY <1>28, <1>0, ThreadAssumption DEF WriteLock, Execs, ExecOps, Places,
       ThreadOK, ThreadInv, ObjectPcs, NoObjectPcs
  <2> QED
    BY <2>1, <2>2, PendingKept
<1>29. CASE Retire(Worker)
  <2>1. UNCHANGED <<inExec, prd, pwd, mapped, gpuDirty, wedged>>
    BY <1>29 DEF Retire
  <2>2. \A u \in Client : Execs(u)' /\ th'[u].pc # "exec_err" =>
          /\ Execs(u) /\ th[u].pc # "exec_err"
          /\ th'[u].pc = "exec_dispatch" <=> th[u].pc = "exec_dispatch"
    BY <1>29, <1>0, ThreadAssumption DEF Retire, Execs, ExecOps, Places,
       ThreadOK, ThreadInv, ObjectPcs, NoObjectPcs
  <2> QED
    BY <2>1, <2>2, PendingKept
<1>30. CASE RetireEnd(Worker)
  <2>1. UNCHANGED <<inExec, prd, pwd, mapped, gpuDirty, wedged>>
    BY <1>30 DEF RetireEnd
  <2>2. \A u \in Client : Execs(u)' /\ th'[u].pc # "exec_err" =>
          /\ Execs(u) /\ th[u].pc # "exec_err"
          /\ th'[u].pc = "exec_dispatch" <=> th[u].pc = "exec_dispatch"
    BY <1>30, <1>0, ThreadAssumption DEF RetireEnd, Execs, ExecOps, Places,
       ThreadOK, ThreadInv, ObjectPcs, NoObjectPcs
  <2> QED
    BY <2>1, <2>2, PendingKept
<1>31. CASE HungReset
  <2>1. UNCHANGED <<inExec, prd, pwd, mapped, wedged>>
    BY <1>31 DEF HungReset
  <2>2. \A u \in Client : Execs(u)' /\ th'[u].pc # "exec_err" =>
          /\ Execs(u) /\ th[u].pc # "exec_err"
          /\ th'[u].pc = "exec_dispatch" <=> th[u].pc = "exec_dispatch"
    BY <1>31, <1>0, ThreadAssumption DEF HungReset, Execs, ExecOps, Places,
       ThreadOK, ThreadInv, ObjectPcs, NoObjectPcs
  <2>3. \A o \in Obj : gpuDirty'[o] = {} \/ gpuDirty'[o] = gpuDirty[o]
    BY <1>31 DEF HungReset
  <2> QED
    BY <2>1, <2>2, <2>3, <1>0, PendingKept
<1>32. CASE HungRelock
  <2>1. UNCHANGED <<inExec, prd, pwd, mapped, gpuDirty, wedged>>
    BY <1>32 DEF HungRelock
  <2>2. \A u \in Client : Execs(u)' /\ th'[u].pc # "exec_err" =>
          /\ Execs(u) /\ th[u].pc # "exec_err"
          /\ th'[u].pc = "exec_dispatch" <=> th[u].pc = "exec_dispatch"
    BY <1>32, <1>0, ThreadAssumption DEF HungRelock, Execs, ExecOps, Places,
       ThreadOK, ThreadInv, ObjectPcs, NoObjectPcs
  <2> QED
    BY <2>1, <2>2, PendingKept
<1>33. CASE HungClear
  <2>1. UNCHANGED <<inExec, prd, pwd, mapped, gpuDirty, wedged>>
    BY <1>33 DEF HungClear
  <2>2. \A u \in Client : Execs(u)' /\ th'[u].pc # "exec_err" =>
          /\ Execs(u) /\ th[u].pc # "exec_err"
          /\ th'[u].pc = "exec_dispatch" <=> th[u].pc = "exec_dispatch"
    BY <1>33, <1>0, ThreadAssumption DEF HungClear, Execs, ExecOps, Places,
       ThreadOK, ThreadInv, ObjectPcs, NoObjectPcs
  <2> QED
    BY <2>1, <2>2, PendingKept
<1>34. CASE \E o \in Obj : HungEvict(o)
  <2>0. PICK o \in Obj : HungEvict(o)
    BY <1>34
  <2>1. UNCHANGED <<inExec, prd, pwd, gpuDirty, wedged>> /\ UnbindObject(o)
    BY <2>0 DEF HungEvict
  <2>2. UNCHANGED th
    BY <2>0 DEF HungEvict
  <2>3. \A p \in Obj : mapped'[p] = "w" => mapped[p] = "w"
    BY <2>1, <1>0 DEF UnbindObject, DataOK
  <2> QED
    BY <2>1, <2>2, <2>3, <1>0, PendingKept DEF Execs
<1>35. CASE HungEnd
  <2>1. \A u \in Client : ~Execs(u) /\ th'[u] = th[u]
    BY <1>35, <1>0, OneExec, ThreadAssumption DEF HungEnd, Locks, Inside,
       WriteLockOps,
       WorkerPlaces, ThreadInv, ThreadOK
  <2> QED
    BY <2>1 DEF Pending, Execs
<1>36. CASE GpuProgress
  <2>1. UNCHANGED <<inExec, prd, pwd, mapped, gpuDirty, wedged>>
    BY <1>36 DEF GpuProgress
  <2>2. \A u \in Client : Execs(u)' /\ th'[u].pc # "exec_err" =>
          /\ Execs(u) /\ th[u].pc # "exec_err"
          /\ th'[u].pc = "exec_dispatch" <=> th[u].pc = "exec_dispatch"
    BY <1>36, <1>0, ThreadAssumption DEF GpuProgress, Execs, ExecOps, Places,
       ThreadOK, ThreadInv, ObjectPcs, NoObjectPcs
  <2> QED
    BY <2>1, <2>2, PendingKept
<1>37. CASE RetireTimeout
  <2>1. UNCHANGED <<inExec, prd, pwd, mapped, gpuDirty, wedged>>
    BY <1>37 DEF RetireTimeout
  <2>2. \A u \in Client : Execs(u)' /\ th'[u].pc # "exec_err" =>
          /\ Execs(u) /\ th[u].pc # "exec_err"
          /\ th'[u].pc = "exec_dispatch" <=> th[u].pc = "exec_dispatch"
    BY <1>37, <1>0, ThreadAssumption DEF RetireTimeout, Execs, ExecOps,
       Places, ThreadOK, ThreadInv, ObjectPcs, NoObjectPcs
  <2> QED
    BY <2>1, <2>2, PendingKept
<1>38. CASE HangCheck
  <2>1. UNCHANGED <<inExec, prd, pwd, mapped, gpuDirty>>
    BY <1>38 DEF HangCheck
  <2>2. \A u \in Client : Execs(u)' /\ th'[u].pc # "exec_err" =>
          /\ Execs(u) /\ th[u].pc # "exec_err"
          /\ th'[u].pc = "exec_dispatch" <=> th[u].pc = "exec_dispatch"
    BY <1>38, <1>0 DEF HangCheck, Execs, ExecOps, Places, ThreadOK,
       ThreadInv, ObjectPcs, NoObjectPcs
  <2>3. wedged'
    BY <1>38 DEF HangCheck
  <2> QED
    BY <2>1, <2>2, <2>3, PendingKept
<1>39. CASE UNCHANGED vars
  <2>1. UNCHANGED <<inExec, prd, pwd, mapped, gpuDirty, wedged>>
    BY <1>39 DEF vars
  <2>2. \A u \in Client : Execs(u)' /\ th'[u].pc # "exec_err" =>
          /\ Execs(u) /\ th[u].pc # "exec_err"
          /\ th'[u].pc = "exec_dispatch" <=> th[u].pc = "exec_dispatch"
    BY <1>39, <1>0, ThreadAssumption DEF vars, Execs, ExecOps, Places,
       ThreadOK, ThreadInv, ObjectPcs, NoObjectPcs
  <2> QED
    BY <2>1, <2>2, PendingKept
<1> QED
  BY <1>1, <1>2, <1>3, <1>4, <1>5, <1>6, <1>7, <1>8, <1>9, <1>10, <1>11,
     <1>12, <1>13, <1>14, <1>15, <1>16, <1>17, <1>18, <1>19, <1>20, <1>21,
     <1>22, <1>23, <1>24, <1>25, <1>26, <1>27, <1>28, <1>29, <1>30, <1>31,
     <1>32, <1>33, <1>34, <1>35, <1>36, <1>37, <1>38, <1>39 DEF Next,
     Continue, Work

-----------------------------------------------------------------------------
(* The reset, and the user mappings.                                       *)

LEMMA ForgottenKept ==
  ASSUME Forgotten, UNCHANGED ghostVars, th'[Worker] = th[Worker],
         \A u \in Client : Execs(u)' => Execs(u)
  PROVE  Forgotten'
  BY DEF Forgotten

\* A flush adds no access to those the reset has forgotten.
LEMMA ForgottenFlush ==
  ASSUME TypeInv, Forgotten, NEW doms, FlushEffect(doms), UNCHANGED gpuUse,
         th'[Worker] = th[Worker], \A u \in Client : Execs(u)' => Execs(u)
  PROVE  Forgotten'
  BY DEF Forgotten, FlushEffect

\* The reset leaves the GPU nothing to do, and no batch is put together
\* before it has ended.
LEMMA ForgottenStep ==
  ASSUME TypeInv, Places, WorkerPlaces, Locks, Lists, Forgotten, [Next]_vars
  PROVE  Forgotten'
<1>0. ThreadOK /\ ThreadInv /\ Places
  BY DEF TypeInv, TypeOK
<1>1. ASSUME NEW t \in Client, \E op \in ClientOps, o \in Obj : Call(t, op, o)
      PROVE  Forgotten'
  <2>1. UNCHANGED ghostVars /\ th'[Worker] = th[Worker]
    BY <1>1, <1>0, ThreadAssumption DEF Call, ThreadOK
  <2>2. \A u \in Client : Execs(u)' => Execs(u)
    BY <1>1, <1>0, OpsAssumption DEF Call, NoLockOps, Execs, ExecOps, Places,
       ThreadOK, ThreadInv
  <2> QED
    BY <2>1, <2>2, ForgottenKept
<1>2. ASSUME NEW t \in Client, ReadLock(t)
      PROVE  Forgotten'
  <2>1. UNCHANGED ghostVars /\ th'[Worker] = th[Worker]
    BY <1>2, <1>0, ThreadAssumption DEF ReadLock, ThreadOK
  <2>2. \A u \in Client : Execs(u)' => Execs(u)
    BY <1>2, <1>0 DEF ReadLock, ReadLockOps, Execs, ExecOps, Places,
       ThreadOK, ThreadInv
  <2> QED
    BY <2>1, <2>2, ForgottenKept
<1>3. ASSUME NEW t \in Client, WriteLock(t)
      PROVE  Forgotten'
  <2>1. UNCHANGED ghostVars /\ th'[Worker] = th[Worker]
    BY <1>3, <1>0, ThreadAssumption DEF WriteLock, ThreadOK
  <2>2. \A u \in Client : Execs(u)' => Execs(u)
    BY <1>3, <1>0 DEF WriteLock, Execs, ExecOps, Places, ThreadOK, ThreadInv
  <2> QED
    BY <2>1, <2>2, ForgottenKept
<1>4. ASSUME NEW t \in Client, ExecLockAny(t)
      PROVE  Forgotten'
  <2>1. UNCHANGED ghostVars /\ th'[Worker] = th[Worker]
    BY <1>4, <1>0, ThreadAssumption DEF ExecLockAny, ExecLock, ThreadOK
  <2>2. CASE wedged
    <3>1. \A u \in Client : Execs(u)' => Execs(u)
      BY <1>4, <1>0, <2>2 DEF ExecLockAny, ExecLock, Execs, ThreadOK
    <3> QED
      BY <2>1, <3>1, ForgottenKept
  <2>3. CASE ~wedged
    <3>1. th[Worker].op # "hung"
      BY <2>3 DEF WorkerPlaces
    <3> QED
      BY <2>1, <3>1 DEF Forgotten
  <2> QED
    BY <2>2, <2>3
<1>5. ASSUME NEW t \in Client, AccessHold(t)
      PROVE  Forgotten'
  <2>1. UNCHANGED ghostVars /\ th'[Worker] = th[Worker]
    BY <1>5, <1>0, ThreadAssumption DEF AccessHold, Hold, ThreadOK
  <2>2. \A u \in Client : Execs(u)' => Execs(u)
    BY <1>5, <1>0 DEF AccessHold, Hold, Execs, ExecOps, Places, ThreadOK,
       ThreadInv
  <2> QED
    BY <2>1, <2>2, ForgottenKept
<1>6. ASSUME NEW t \in Client, SetDomainHold(t)
      PROVE  Forgotten'
  <2>1. UNCHANGED ghostVars /\ th'[Worker] = th[Worker]
    BY <1>6, <1>0, ThreadAssumption DEF SetDomainHold, Hold, ThreadOK
  <2>2. \A u \in Client : Execs(u)' => Execs(u)
    BY <1>6, <1>0 DEF SetDomainHold, Hold, Execs, ExecOps, Places, ThreadOK,
       ThreadInv
  <2> QED
    BY <2>1, <2>2, ForgottenKept
<1>7. ASSUME NEW t \in Client, UnbindHold(t)
      PROVE  Forgotten'
  <2>1. UNCHANGED ghostVars /\ th'[Worker] = th[Worker]
    BY <1>7, <1>0, ThreadAssumption DEF UnbindHold, Hold, ThreadOK
  <2>2. \A u \in Client : Execs(u)' => Execs(u)
    BY <1>7, <1>0 DEF UnbindHold, Hold, Execs, ExecOps, Places, ThreadOK,
       ThreadInv
  <2> QED
    BY <2>1, <2>2, ForgottenKept
<1>8. ASSUME NEW t \in Client, PinHold(t)
      PROVE  Forgotten'
  <2>1. UNCHANGED ghostVars /\ th'[Worker] = th[Worker]
    BY <1>8, <1>0, ThreadAssumption DEF PinHold, Hold, ThreadOK
  <2>2. \A u \in Client : Execs(u)' => Execs(u)
    BY <1>8, <1>0 DEF PinHold, Hold, Execs, ExecOps, Places, ThreadOK,
       ThreadInv
  <2> QED
    BY <2>1, <2>2, ForgottenKept
<1>9. ASSUME NEW t \in Client, UnpinHold(t)
      PROVE  Forgotten'
  <2>1. UNCHANGED ghostVars /\ th'[Worker] = th[Worker]
    BY <1>9, <1>0, ThreadAssumption DEF UnpinHold, Hold, ThreadOK
  <2>2. \A u \in Client : Execs(u)' => Execs(u)
    BY <1>9, <1>0 DEF UnpinHold, Hold, Execs, ExecOps, Places, ThreadOK,
       ThreadInv
  <2> QED
    BY <2>1, <2>2, ForgottenKept
<1>10. ASSUME NEW t \in Client, Bind(t)
      PROVE  Forgotten'
  <2>1. UNCHANGED ghostVars /\ th'[Worker] = th[Worker]
    BY <1>10, <1>0, ThreadAssumption DEF Bind, ThreadOK
  <2>2. \A u \in Client : Execs(u)' => Execs(u)
    BY <1>10, <1>0 DEF Bind, Execs, ExecOps, Places, ThreadOK, ThreadInv
  <2> QED
    BY <2>1, <2>2, ForgottenKept
<1>11. ASSUME NEW t \in Client, Flush(t)
      PROVE  Forgotten'
  <2>1. PICK ok \in BOOLEAN : GemFlush({wd[th[t].obj]}, ok)
    BY <1>11 DEF Flush, AllocOutcome
  <2>2. FlushEffect({wd[th[t].obj]}) /\ UNCHANGED gpuUse
    BY <1>11, <2>1, GemFlushEffect DEF Flush
  <2>3. th'[Worker] = th[Worker]
    BY <1>11, <1>0, ThreadAssumption DEF Flush, ThreadOK
  <2>4. \A u \in Client : Execs(u)' => Execs(u)
    BY <1>11, <1>0 DEF Flush, Execs, ExecOps, Places, ThreadOK, ThreadInv
  <2> QED
    BY <2>2, <2>3, <2>4, ForgottenFlush
<1>12. ASSUME NEW t \in Client, Wait(t)
      PROVE  Forgotten'
  <2>0. WaitTo(t)
    BY <1>12, Moves
  <2>1. UNCHANGED ghostVars
    BY <1>12 DEF Wait
  <2>2. th'[Worker] = th[Worker] /\ \A u \in Client : Execs(u)' => Execs(u)
    BY <1>0, <2>0, ThreadAssumption DEF WaitTo, ErrorPc, Execs, ExecOps,
       Places, ThreadOK, ThreadInv
  <2> QED
    BY <2>1, <2>2, ForgottenKept
<1>13. ASSUME NEW t \in Client, Wake(t)
      PROVE  Forgotten'
  <2>0. WakeTo(t)
    BY <1>13, Moves
  <2>1. UNCHANGED ghostVars
    BY <1>13 DEF Wake
  <2>2. th'[Worker] = th[Worker] /\ \A u \in Client : Execs(u)' => Execs(u)
    BY <1>0, <2>0, ThreadAssumption DEF WakeTo, ErrorPc, Execs, ExecOps,
       Places, ThreadOK, ThreadInv
  <2> QED
    BY <2>1, <2>2, ForgottenKept
<1>14. ASSUME NEW t \in Client, Interrupt(t)
      PROVE  Forgotten'
  <2>1. UNCHANGED ghostVars /\ th'[Worker] = th[Worker]
    BY <1>14, <1>0, ThreadAssumption DEF Interrupt, ThreadOK
  <2>2. \A u \in Client : Execs(u)' => Execs(u)
    BY <1>14, <1>0 DEF Interrupt, ErrorPc, Execs, ExecOps, Places, ThreadOK,
       ThreadInv
  <2> QED
    BY <2>1, <2>2, ForgottenKept
<1>15. ASSUME NEW t \in Client, Retire(t)
      PROVE  Forgotten'
  <2>1. UNCHANGED ghostVars /\ th'[Worker] = th[Worker]
    BY <1>15, <1>0, ThreadAssumption DEF Retire, ThreadOK
  <2>2. \A u \in Client : Execs(u)' => Execs(u)
    BY <1>15, <1>0 DEF Retire, Execs, ExecOps, Places, ThreadOK, ThreadInv
  <2> QED
    BY <2>1, <2>2, ForgottenKept
<1>16. ASSUME NEW t \in Client, RetireEnd(t)
      PROVE  Forgotten'
  <2>1. UNCHANGED ghostVars /\ th'[Worker] = th[Worker]
    BY <1>16, <1>0, ThreadAssumption DEF RetireEnd, ThreadOK
  <2>2. \A u \in Client : Execs(u)' => Execs(u)
    BY <1>16, <1>0 DEF RetireEnd, Execs, ExecOps, Places, ThreadOK, ThreadInv
  <2> QED
    BY <2>1, <2>2, ForgottenKept
<1>17. ASSUME NEW t \in Client, GttDomain(t)
      PROVE  Forgotten'
  <2>1. UNCHANGED ghostVars /\ th'[Worker] = th[Worker]
    BY <1>17, <1>0, ThreadAssumption DEF GttDomain, ThreadOK
  <2>2. \A u \in Client : Execs(u)' => Execs(u)
    BY <1>17, <1>0 DEF GttDomain, Execs, ExecOps, Places, ThreadOK, ThreadInv
  <2> QED
    BY <2>1, <2>2, ForgottenKept
<1>18. ASSUME NEW t \in Client, Unbind(t)
      PROVE  Forgotten'
  <2>1. UNCHANGED ghostVars /\ th'[Worker] = th[Worker]
    BY <1>18, <1>0, ThreadAssumption DEF Unbind, ThreadOK
  <2>2. \A u \in Client : Execs(u)' => Execs(u)
    BY <1>18, <1>0 DEF Unbind, Execs, ExecOps, Places, ThreadOK, ThreadInv
  <2> QED
    BY <2>1, <2>2, ForgottenKept
<1>19. ASSUME NEW t \in Client, Unpin(t)
      PROVE  Forgotten'
  <2>1. UNCHANGED ghostVars /\ th'[Worker] = th[Worker]
    BY <1>19, <1>0, ThreadAssumption DEF Unpin, ThreadOK
  <2>2. \A u \in Client : Execs(u)' => Execs(u)
    BY <1>19, <1>0 DEF Unpin, Execs, ExecOps, Places, ThreadOK, ThreadInv
  <2> QED
    BY <2>1, <2>2, ForgottenKept
<1>20. ASSUME NEW t \in Client, Return(t)
      PROVE  Forgotten'
  <2>1. UNCHANGED ghostVars /\ th'[Worker] = th[Worker]
    BY <1>20, <1>0, ThreadAssumption DEF Return, ThreadOK
  <2>2. \A u \in Client : Execs(u)' => Execs(u)
    BY <1>20, <1>0 DEF Return, Execs, ExecOps, Places, ThreadOK, ThreadInv
  <2> QED
    BY <2>1, <2>2, ForgottenKept
<1>21. ASSUME NEW t \in Client, Busy(t)
      PROVE  Forgotten'
  <2>1. th'[Worker] = th[Worker] /\ UNCHANGED gpuUse
    BY <1>21, <1>0, ThreadAssumption DEF Busy, ThreadOK
  <2>2. \A u \in Client : Execs(u)' => Execs(u)
    BY <1>21, <1>0 DEF Busy, Execs, ExecOps, Places, ThreadOK, ThreadInv
  <2>3. CASE th[t].obj \in active
    <3>1. PICK ok \in BOOLEAN : GemFlush({wd[th[t].obj]}, ok)
      BY <1>21, <2>3 DEF Busy, AllocOutcome
    <3>2. FlushEffect({wd[th[t].obj]})
      BY <3>1, GemFlushEffect
    <3> QED
      BY <2>1, <2>2, <3>2, ForgottenFlush
  <2>4. CASE th[t].obj \notin active
    <3>1. UNCHANGED ghostVars
      BY <1>21, <2>4 DEF Busy
    <3> QED
      BY <2>1, <2>2, <3>1, ForgottenKept
  <2> QED
    BY <2>3, <2>4
<1>22. ASSUME NEW t \in Client, \E o \in Obj : ExecPin(t, o)
      PROVE  Forgotten'
  <2>0. PICK o \in Obj : ExecPin(t, o)
    BY <1>22
  <2>1. UNCHANGED ghostVars /\ ExecPinTo(t, o)
    BY <2>0, Moves DEF ExecPin
  <2>2. th'[Worker] = th[Worker] /\ \A u \in Client : Execs(u)' => Execs(u)
    BY <1>0, <2>1, ThreadAssumption DEF ExecPinTo, Execs, ExecOps, Places,
       ThreadOK, ThreadInv
  <2> QED
    BY <2>1, <2>2, ForgottenKept
<1>23. ASSUME NEW t \in Client, ExecRelocError(t)
      PROVE  Forgotten'
  <2>1. UNCHANGED ghostVars /\ th'[Worker] = th[Worker]
    BY <1>23, <1>0, ThreadAssumption DEF ExecRelocError, ThreadOK
  <2>2. \A u \in Client : Execs(u)' => Execs(u)
    BY <1>23, <1>0 DEF ExecRelocError, Execs, ExecOps, Places, ThreadOK,
       ThreadInv
  <2> QED
    BY <2>1, <2>2, ForgottenKept
<1>24. ASSUME NEW t \in Client, ExecFlush(t)
      PROVE  Forgotten'
  <2>1. PICK ok \in BOOLEAN : GemFlush(UNION {FlushOf(o) : o \in inExec}, ok)
    BY <1>24 DEF ExecFlush, AllocOutcome
  <2>2. FlushEffect(UNION {FlushOf(o) : o \in inExec}) /\ UNCHANGED gpuUse
    BY <1>24, <2>1, GemFlushEffect DEF ExecFlush
  <2>3. th'[Worker] = th[Worker]
    BY <1>24, <1>0, ThreadAssumption DEF ExecFlush, ThreadOK
  <2>4. \A u \in Client : Execs(u)' => Execs(u)
    BY <1>24, <1>0 DEF ExecFlush, Execs, ExecOps, Places, ThreadOK, ThreadInv
  <2> QED
    BY <2>2, <2>3, <2>4, ForgottenFlush
<1>25. ASSUME NEW t \in Client, ExecDispatch(t)
      PROVE  Forgotten'
  <2>1. Execs(t) /\ th'[Worker] = th[Worker]
    BY <1>25, <1>0, ThreadAssumption DEF ExecDispatch, Execs, Places, ThreadOK
  <2> QED
    BY <2>1 DEF Forgotten
<1>26. ASSUME NEW t \in Client, ExecExit(t)
      PROVE  Forgotten'
  <2>1. UNCHANGED ghostVars /\ th'[Worker] = th[Worker]
    BY <1>26, <1>0, ThreadAssumption DEF ExecExit, ThreadOK
  <2>2. \A u \in Client : Execs(u)' => Execs(u)
    BY <1>26, <1>0 DEF ExecExit, Execs, ExecOps, Places, ThreadOK, ThreadInv
  <2> QED
    BY <2>1, <2>2, ForgottenKept
<1>27. CASE \E task \in {"retire", "hung"} : RunTask(task)
  <2>1. ~(th'[Worker].op = "hung" /\ th'[Worker].pc \in
            {"relock", "retire", "hung_clear", "hung_evict"})
    BY <1>27, <1>0, ThreadAssumption DEF RunTask, ThreadOK
  <2> QED
    BY <2>1 DEF Forgotten
<1>28. CASE WriteLock(Worker)
  <2>1. ~(th'[Worker].op = "hung" /\ th'[Worker].pc \in
            {"relock", "retire", "hung_clear", "hung_evict"})
    BY <1>28, <1>0, ThreadAssumption DEF WriteLock, ThreadOK
  <2> QED
    BY <2>1 DEF Forgotten
<1>29. CASE Retire(Worker)
  <2>1. UNCHANGED ghostVars /\ (\A u \in Client : th'[u] = th[u])
    BY <1>29, <1>0, ThreadAssumption DEF Retire, ThreadOK
  <2>2. /\ th'[Worker].op = th[Worker].op
        /\ (th'[Worker].op = "hung" => th[Worker].pc \in {"retire", "hung_clear"})
    BY <1>29, <1>0, ThreadAssumption DEF Retire, ThreadOK
  <2> QED
    BY <2>1, <2>2, <1>0 DEF Forgotten, Execs
<1>30. CASE RetireEnd(Worker)
  <2>1. UNCHANGED ghostVars /\ (\A u \in Client : th'[u] = th[u])
    BY <1>30, <1>0, ThreadAssumption DEF RetireEnd, ThreadOK
  <2>2. /\ th[Worker].pc = "retire"
        /\ (th'[Worker].op = "hung" => th[Worker].op = "hung")
    BY <1>30, <1>0, ThreadAssumption DEF RetireEnd, ThreadOK
  <2> QED
    BY <2>1, <2>2, <1>0 DEF Forgotten, Execs
<1>31. CASE HungReset
  <2>1. \A u \in Client : ~Execs(u) /\ th'[u] = th[u]
    BY <1>31, <1>0, OneExec, ThreadAssumption DEF HungReset, Locks, Inside,
       WriteLockOps,
       WorkerPlaces, ThreadInv, ThreadOK
  <2>2. HasReset => \A o \in Obj :
          gpuUse'[o] = 0 /\ gpuDirty'[o] = {} /\ flushAt'[o] = 0
    BY <1>31 DEF HungReset
  <2> QED
    BY <2>1, <2>2 DEF Forgotten, Execs
<1>32. CASE HungRelock
  <2>1. UNCHANGED ghostVars /\ (\A u \in Client : th'[u] = th[u])
    BY <1>32, <1>0, ThreadAssumption DEF HungRelock, ThreadOK
  <2>2. /\ th[Worker].pc = "relock"
        /\ (th'[Worker].op = "hung" => th[Worker].op = "hung")
    BY <1>32, <1>0, ThreadAssumption DEF HungRelock, ThreadOK
  <2> QED
    BY <2>1, <2>2, <1>0 DEF Forgotten, Execs
<1>33. CASE HungClear
  <2>1. UNCHANGED ghostVars /\ (\A u \in Client : th'[u] = th[u])
    BY <1>33, <1>0, ThreadAssumption DEF HungClear, ThreadOK
  <2>2. /\ th'[Worker].op = th[Worker].op
        /\ (th'[Worker].op = "hung" => th[Worker].pc \in {"retire", "hung_clear"})
    BY <1>33, <1>0, ThreadAssumption DEF HungClear, ThreadOK
  <2> QED
    BY <2>1, <2>2, <1>0 DEF Forgotten, Execs
<1>34. CASE \E o \in Obj : HungEvict(o)
  <2>1. UNCHANGED ghostVars /\ th'[Worker] = th[Worker]
    BY <1>34, <1>0, ThreadAssumption DEF HungEvict, ThreadOK
  <2>2. \A u \in Client : Execs(u)' => Execs(u)
    BY <1>34, <1>0 DEF HungEvict, Execs, ExecOps, Places, ThreadOK, ThreadInv
  <2> QED
    BY <2>1, <2>2, ForgottenKept
<1>35. CASE HungEnd
  <2>1. ~(th'[Worker].op = "hung" /\ th'[Worker].pc \in
            {"relock", "retire", "hung_clear", "hung_evict"})
    BY <1>35, <1>0, ThreadAssumption DEF HungEnd, ThreadOK
  <2> QED
    BY <2>1 DEF Forgotten
<1>36. CASE GpuProgress
  <2>1. UNCHANGED ghostVars /\ th'[Worker] = th[Worker]
    BY <1>36, <1>0, ThreadAssumption DEF GpuProgress, ThreadOK
  <2>2. \A u \in Client : Execs(u)' => Execs(u)
    BY <1>36, <1>0 DEF GpuProgress, Execs, ExecOps, Places, ThreadOK,
       ThreadInv
  <2> QED
    BY <2>1, <2>2, ForgottenKept
<1>37. CASE RetireTimeout
  <2>1. UNCHANGED ghostVars /\ th'[Worker] = th[Worker]
    BY <1>37, <1>0, ThreadAssumption DEF RetireTimeout, ThreadOK
  <2>2. \A u \in Client : Execs(u)' => Execs(u)
    BY <1>37, <1>0 DEF RetireTimeout, Execs, ExecOps, Places, ThreadOK,
       ThreadInv
  <2> QED
    BY <2>1, <2>2, ForgottenKept
<1>38. CASE HangCheck
  <2>1. UNCHANGED ghostVars /\ th'[Worker] = th[Worker]
    BY <1>38, <1>0, ThreadAssumption DEF HangCheck, ThreadOK
  <2>2. \A u \in Client : Execs(u)' => Execs(u)
    BY <1>38, <1>0 DEF HangCheck, Execs, ExecOps, Places, ThreadOK, ThreadInv
  <2> QED
    BY <2>1, <2>2, ForgottenKept
<1>39. CASE UNCHANGED vars
  <2>1. UNCHANGED ghostVars /\ th'[Worker] = th[Worker]
    BY <1>39, <1>0, ThreadAssumption DEF vars, ThreadOK
  <2>2. \A u \in Client : Execs(u)' => Execs(u)
    BY <1>39, <1>0 DEF vars, Execs, ExecOps, Places, ThreadOK, ThreadInv
  <2> QED
    BY <2>1, <2>2, ForgottenKept
<1> QED
  BY <1>1, <1>2, <1>3, <1>4, <1>5, <1>6, <1>7, <1>8, <1>9, <1>10, <1>11,
     <1>12, <1>13, <1>14, <1>15, <1>16, <1>17, <1>18, <1>19, <1>20, <1>21,
     <1>22, <1>23, <1>24, <1>25, <1>26, <1>27, <1>28, <1>29, <1>30, <1>31,
     <1>32, <1>33, <1>34, <1>35, <1>36, <1>37, <1>38, <1>39 DEF Next,
     Continue, Work

\* Nothing but unbinding or a new GPU domain ends the GTT write domain of an
\* object that may be written through a mapping, and both remove the mapping.
LEMMA MappingStep ==
  ASSUME TypeInv, Places, Lists, Pending, WriteMappingTracked, [Next]_vars
  PROVE  WriteMappingTracked'
<1>0. DataOK
  BY DEF TypeInv, TypeOK
<1>1. ASSUME NEW t \in Client, \E op \in ClientOps, o \in Obj : Call(t, op, o)
      PROVE  WriteMappingTracked'
  <2>1. UNCHANGED <<mapped, wd>>
    BY <1>1 DEF Call
  <2> QED
    BY <2>1 DEF WriteMappingTracked
<1>2. ASSUME NEW t \in Client, ReadLock(t)
      PROVE  WriteMappingTracked'
  <2>1. UNCHANGED <<mapped, wd>>
    BY <1>2 DEF ReadLock
  <2> QED
    BY <2>1 DEF WriteMappingTracked
<1>3. ASSUME NEW t \in Client, WriteLock(t)
      PROVE  WriteMappingTracked'
  <2>1. UNCHANGED <<mapped, wd>>
    BY <1>3 DEF WriteLock
  <2> QED
    BY <2>1 DEF WriteMappingTracked
<1>4. ASSUME NEW t \in Client, ExecLockAny(t)
      PROVE  WriteMappingTracked'
  <2>1. UNCHANGED <<mapped, wd>>
    BY <1>4 DEF ExecLockAny, ExecLock
  <2> QED
    BY <2>1 DEF WriteMappingTracked
<1>5. ASSUME NEW t \in Client, AccessHold(t)
      PROVE  WriteMappingTracked'
  <2>1. UNCHANGED <<mapped, wd>>
    BY <1>5 DEF AccessHold, Hold
  <2> QED
    BY <2>1 DEF WriteMappingTracked
<1>6. ASSUME NEW t \in Client, SetDomainHold(t)
      PROVE  WriteMappingTracked'
  <2>1. UNCHANGED <<mapped, wd>>
    BY <1>6 DEF SetDomainHold, Hold
  <2> QED
    BY <2>1 DEF WriteMappingTracked
<1>7. ASSUME NEW t \in Client, UnbindHold(t)
      PROVE  WriteMappingTracked'
  <2>1. UNCHANGED <<mapped, wd>>
    BY <1>7 DEF UnbindHold, Hold
  <2> QED
    BY <2>1 DEF WriteMappingTracked
<1>8. ASSUME NEW t \in Client, PinHold(t)
      PROVE  WriteMappingTracked'
  <2>1. UNCHANGED <<mapped, wd>>
    BY <1>8 DEF PinHold, Hold
  <2> QED
    BY <2>1 DEF WriteMappingTracked
<1>9. ASSUME NEW t \in Client, UnpinHold(t)
      PROVE  WriteMappingTracked'
  <2>1. UNCHANGED <<mapped, wd>>
    BY <1>9 DEF UnpinHold, Hold
  <2> QED
    BY <2>1 DEF WriteMappingTracked
<1>10. ASSUME NEW t \in Client, Bind(t)
      PROVE  WriteMappingTracked'
  <2>1. UNCHANGED <<mapped, wd>>
    BY <1>10 DEF Bind
  <2> QED
    BY <2>1 DEF WriteMappingTracked
<1>11. ASSUME NEW t \in Client, Flush(t)
      PROVE  WriteMappingTracked'
  <2>1. PICK ok \in BOOLEAN : GemFlush({wd[th[t].obj]}, ok)
    BY <1>11 DEF Flush, AllocOutcome
  <2>2. FlushEffect({wd[th[t].obj]})
    BY <2>1, GemFlushEffect
  <2>3. \A o \in Obj : mapped'[o] = "w" => mapped[o] = "w"
    BY <1>11 DEF Flush
  <2> QED
    BY <2>2, <2>3, DomainAssumption DEF FlushEffect, FlushedBy, GpuWritten,
       WriteMappingTracked
<1>12. ASSUME NEW t \in Client, Wait(t)
      PROVE  WriteMappingTracked'
  <2>1. UNCHANGED <<mapped, wd>>
    BY <1>12 DEF Wait
  <2> QED
    BY <2>1 DEF WriteMappingTracked
<1>13. ASSUME NEW t \in Client, Wake(t)
      PROVE  WriteMappingTracked'
  <2>1. UNCHANGED <<mapped, wd>>
    BY <1>13 DEF Wake
  <2> QED
    BY <2>1 DEF WriteMappingTracked
<1>14. ASSUME NEW t \in Client, Interrupt(t)
      PROVE  WriteMappingTracked'
  <2>1. UNCHANGED <<mapped, wd>>
    BY <1>14 DEF Interrupt
  <2> QED
    BY <2>1 DEF WriteMappingTracked
<1>15. ASSUME NEW t \in Client, Retire(t)
      PROVE  WriteMappingTracked'
  <2>1. UNCHANGED <<mapped, wd>>
    BY <1>15 DEF Retire
  <2> QED
    BY <2>1 DEF WriteMappingTracked
<1>16. ASSUME NEW t \in Client, RetireEnd(t)
      PROVE  WriteMappingTracked'
  <2>1. UNCHANGED <<mapped, wd>>
    BY <1>16 DEF RetireEnd
  <2> QED
    BY <2>1 DEF WriteMappingTracked
<1>17. ASSUME NEW t \in Client, GttDomain(t)
      PROVE  WriteMappingTracked'
  <2>1. \A p \in Obj : p # th[t].obj =>
          wd'[p] = wd[p] /\ mapped'[p] = mapped[p]
    BY <1>17, <1>0 DEF GttDomain, DataOK
  <2>2. CASE th[t].op \in WriteOps
    BY <1>17, <1>0, <2>1, <2>2 DEF GttDomain, DataOK, WriteMappingTracked
  <2>3. CASE th[t].op \notin WriteOps
    <3>1. \A p \in Obj : /\ mapped'[p] = "w" => mapped[p] = "w"
                         /\ wd[p] = "GTT" => wd'[p] = "GTT"
      BY <1>17, <1>0, <2>3 DEF GttDomain, DataOK, WriteOps
    <3> QED
      BY <3>1 DEF WriteMappingTracked
  <2> QED
    BY <2>2, <2>3
<1>18. ASSUME NEW t \in Client, Unbind(t)
      PROVE  WriteMappingTracked'
  <2>1. UnbindObject(th[t].obj)
    BY <1>18 DEF Unbind
  <2>2. \A p \in Obj : \/ wd'[p] = wd[p] /\ mapped'[p] = mapped[p]
                       \/ mapped'[p] # "w"
    BY <2>1, <1>0 DEF UnbindObject, DataOK, WriteMappingTracked
  <2> QED
    BY <2>2 DEF WriteMappingTracked
<1>19. ASSUME NEW t \in Client, Unpin(t)
      PROVE  WriteMappingTracked'
  <2>1. UNCHANGED <<mapped, wd>>
    BY <1>19 DEF Unpin
  <2> QED
    BY <2>1 DEF WriteMappingTracked
<1>20. ASSUME NEW t \in Client, Return(t)
      PROVE  WriteMappingTracked'
  <2>1. UNCHANGED <<mapped, wd>>
    BY <1>20 DEF Return
  <2> QED
    BY <2>1 DEF WriteMappingTracked
<1>21. ASSUME NEW t \in Client, Busy(t)
      PROVE  WriteMappingTracked'
  <2>1. CASE th[t].obj \in active
    <3>1. PICK ok \in BOOLEAN : GemFlush({wd[th[t].obj]}, ok)
      BY <1>21, <2>1 DEF Busy, AllocOutcome
    <3>2. FlushEffect({wd[th[t].obj]})
      BY <3>1, GemFlushEffect
    <3>3. mapped' = mapped
      BY <1>21 DEF Busy
    <3> QED
      BY <3>2, <3>3, DomainAssumption DEF FlushEffect, FlushedBy, GpuWritten,
         WriteMappingTracked
  <2>2. CASE th[t].obj \notin active
    BY <1>21, <2>2 DEF Busy, WriteMappingTracked
  <2> QED
    BY <2>1, <2>2
<1>22. ASSUME NEW t \in Client, \E o \in Obj : ExecPin(t, o)
      PROVE  WriteMappingTracked'
  <2>1. UNCHANGED <<mapped, wd>>
    BY <1>22 DEF ExecPin
  <2> QED
    BY <2>1 DEF WriteMappingTracked
<1>23. ASSUME NEW t \in Client, ExecRelocError(t)
      PROVE  WriteMappingTracked'
  <2>1. UNCHANGED <<mapped, wd>>
    BY <1>23 DEF ExecRelocError
  <2> QED
    BY <2>1 DEF WriteMappingTracked
<1>24. ASSUME NEW t \in Client, ExecFlush(t)
      PROVE  WriteMappingTracked'
  <2>1. PICK ok \in BOOLEAN : GemFlush(UNION {FlushOf(o) : o \in inExec}, ok)
    BY <1>24 DEF ExecFlush, AllocOutcome
  <2>2. FlushEffect(UNION {FlushOf(o) : o \in inExec})
    BY <2>1, GemFlushEffect
  <2>3. \A o \in Obj : mapped'[o] = "w" => mapped[o] = "w"
    BY <1>24 DEF ExecFlush
  <2> QED
    BY <2>2, <2>3, DomainAssumption DEF FlushEffect, FlushedBy, GpuWritten,
       WriteMappingTracked
<1>25. ASSUME NEW t \in Client, ExecDispatch(t)
      PROVE  WriteMappingTracked'
  <2>1. \A o \in inExec : mapped[o] # "w"
    BY <1>25, <1>0 DEF ExecDispatch, Pending, Execs, Places
  <2> QED
    BY <1>25, <2>1 DEF ExecDispatch, WriteMappingTracked
<1>26. ASSUME NEW t \in Client, ExecExit(t)
      PROVE  WriteMappingTracked'
  <2>1. UNCHANGED <<mapped, wd>>
    BY <1>26 DEF ExecExit
  <2> QED
    BY <2>1 DEF WriteMappingTracked
<1>27. CASE \E task \in {"retire", "hung"} : RunTask(task)
  <2>1. UNCHANGED <<mapped, wd>>
    BY <1>27 DEF RunTask
  <2> QED
    BY <2>1 DEF WriteMappingTracked
<1>28. CASE WriteLock(Worker)
  <2>1. UNCHANGED <<mapped, wd>>
    BY <1>28 DEF WriteLock
  <2> QED
    BY <2>1 DEF WriteMappingTracked
<1>29. CASE Retire(Worker)
  <2>1. UNCHANGED <<mapped, wd>>
    BY <1>29 DEF Retire
  <2> QED
    BY <2>1 DEF WriteMappingTracked
<1>30. CASE RetireEnd(Worker)
  <2>1. UNCHANGED <<mapped, wd>>
    BY <1>30 DEF RetireEnd
  <2> QED
    BY <2>1 DEF WriteMappingTracked
<1>31. CASE HungReset
  <2>1. UNCHANGED <<mapped, wd>>
    BY <1>31 DEF HungReset
  <2> QED
    BY <2>1 DEF WriteMappingTracked
<1>32. CASE HungRelock
  <2>1. UNCHANGED <<mapped, wd>>
    BY <1>32 DEF HungRelock
  <2> QED
    BY <2>1 DEF WriteMappingTracked
<1>33. CASE HungClear
  <2>1. mapped' = mapped /\ \A o \in Obj : wd[o] = "GTT" => wd'[o] = "GTT"
    BY <1>33, DomainAssumption DEF HungClear
  <2> QED
    BY <2>1 DEF WriteMappingTracked
<1>34. CASE \E o \in Obj : HungEvict(o)
  <2>1. PICK o \in Obj : UnbindObject(o)
    BY <1>34 DEF HungEvict
  <2>2. \A p \in Obj : \/ wd'[p] = wd[p] /\ mapped'[p] = mapped[p]
                       \/ mapped'[p] # "w"
    BY <2>1, <1>0 DEF UnbindObject, DataOK, WriteMappingTracked
  <2> QED
    BY <2>2 DEF WriteMappingTracked
<1>35. CASE HungEnd
  <2>1. UNCHANGED <<mapped, wd>>
    BY <1>35 DEF HungEnd
  <2> QED
    BY <2>1 DEF WriteMappingTracked
<1>36. CASE GpuProgress
  <2>1. UNCHANGED <<mapped, wd>>
    BY <1>36 DEF GpuProgress
  <2> QED
    BY <2>1 DEF WriteMappingTracked
<1>37. CASE RetireTimeout
  <2>1. UNCHANGED <<mapped, wd>>
    BY <1>37 DEF RetireTimeout
  <2> QED
    BY <2>1 DEF WriteMappingTracked
<1>38. CASE HangCheck
  <2>1. UNCHANGED <<mapped, wd>>
    BY <1>38 DEF HangCheck
  <2> QED
    BY <2>1 DEF WriteMappingTracked
<1>39. CASE UNCHANGED vars
  <2>1. UNCHANGED <<mapped, wd>>
    BY <1>39 DEF vars
  <2> QED
    BY <2>1 DEF WriteMappingTracked
<1> QED
  BY <1>1, <1>2, <1>3, <1>4, <1>5, <1>6, <1>7, <1>8, <1>9, <1>10, <1>11,
     <1>12, <1>13, <1>14, <1>15, <1>16, <1>17, <1>18, <1>19, <1>20, <1>21,
     <1>22, <1>23, <1>24, <1>25, <1>26, <1>27, <1>28, <1>29, <1>30, <1>31,
     <1>32, <1>33, <1>34, <1>35, <1>36, <1>37, <1>38, <1>39 DEF Next,
     Continue, Work

-----------------------------------------------------------------------------
(* What a waiting client knows.                                            *)

\* The object has no more to wait for than before.
Calmer(o) ==
    /\ wd'[o] \in GpuDomain => wd[o] \in GpuDomain
    /\ ~wedged' => /\ ~wedged /\ gpuDirty'[o] \subseteq gpuDirty[o]
                   /\ flushAt'[o] <= flushAt[o] /\ gpuUse'[o] <= gpuUse[o]
    /\ o \in active' => o \in active /\ lrs'[o] <= lrs[o]

\* Where neither caches nor GPU accesses change, every object stays calm.
LEMMA CalmKept ==
  ASSUME TypeInv, UNCHANGED <<wd, active, wedged, ghostVars>>,
         \A o \in Obj : lrs'[o] = lrs[o] \/ lrs'[o] = 0
  PROVE  \A o \in Obj : Calmer(o)
<1>0. DataOK
  BY DEF TypeInv, TypeOK
<1>1. \A o \in Obj : lrs[o] \in Nat /\ flushAt[o] \in Nat /\ gpuUse[o] \in Nat
  BY <1>0 DEF DataOK
<1>2. \A o \in Obj : lrs'[o] <= lrs[o]
  BY <1>1
<1>3. UNCHANGED <<wd, active, wedged, gpuUse, gpuDirty, flushAt>>
  OBVIOUS
<1>4. \A o \in Obj : flushAt[o] <= flushAt[o] /\ gpuUse[o] <= gpuUse[o]
  BY <1>1
<1> QED
  BY <1>2, <1>3, <1>4 DEF Calmer, GpuWritten

\* A flush does not disturb those who wait: their objects need none.
LEMMA CalmFlush ==
  ASSUME TypeInv, Waiting, NEW doms, FlushEffect(doms),
         UNCHANGED <<wedged, gpuUse>>,
         NEW u \in Client, Waits(u)
  PROVE  Calmer(th[u].obj)
<1> DEFINE o == th[u].obj
<1>0. DataOK /\ o \in Obj
  BY DEF TypeInv, TypeOK, ThreadInv, Waits, AfterFlush, NoObjectPcs
<1>1. ~GpuWritten(o) /\ (~wedged => gpuDirty[o] = {})
  BY DEF Waiting, Clean
<1>2. ~FlushedBy(o, doms)
  BY <1>1 DEF FlushedBy
<1>3. /\ lrs'[o] = lrs[o] /\ wd'[o] = wd[o] /\ (o \in active' <=> o \in active)
      /\ gpuDirty'[o] = gpuDirty[o] \ doms
      /\ ~wedged => flushAt'[o] = flushAt[o]
  BY <1>0, <1>1, <1>2 DEF FlushEffect
<1>4. lrs[o] \in Nat /\ flushAt[o] \in Nat /\ gpuUse[o] \in Nat
  BY <1>0 DEF DataOK
<1> QED
  BY <1>3, <1>4 DEF Calmer, GpuWritten

\* Who waits for an object that stays calm still finds it clean.
LEMMA CleanKept ==
  ASSUME TypeInv, NEW u \in Client, Waits(u), Clean(u), th'[u] = th[u],
         hwSeqno' \in Nat, hwSeqno <= hwSeqno',
         Calmer(th[u].obj),
         \/ gpuUse'[th[u].obj] \in Nat /\ flushAt'[th[u].obj] \in Nat
         \/ wedged',
         th[u].obj \in active' => lrs'[th[u].obj] \in Nat
  PROVE  Clean(u)'
<1> DEFINE o == th[u].obj
<1>0. /\ DataOK /\ o \in Obj /\ th[u].seq \in Nat
  BY DEF TypeInv, TypeOK, ThreadOK, ThreadInv, Waits, AfterFlush, NoObjectPcs
<1>1. /\ hwSeqno \in Nat /\ lrs[o] \in Nat /\ flushAt[o] \in Nat
      /\ gpuUse[o] \in Nat
  BY <1>0 DEF DataOK
<1>2. Until(u) \in Nat /\ Until(u)' \in Nat /\ Until(u) <= Until(u)'
  BY <1>0, <1>1 DEF Until
<1>3. wd'[o] \notin GpuDomain
  BY DEF Clean, Calmer, GpuWritten
<1>4. ASSUME ~wedged'
      PROVE  /\ gpuDirty'[o] = {} /\ flushAt'[o] <= Until(u)'
             /\ th[u].op \in WriteOps => gpuUse'[o] <= Until(u)'
  <2>1. /\ ~wedged /\ gpuDirty'[o] \subseteq gpuDirty[o]
        /\ flushAt'[o] <= flushAt[o] /\ gpuUse'[o] <= gpuUse[o]
        /\ flushAt'[o] \in Nat /\ gpuUse'[o] \in Nat
    BY <1>4 DEF Calmer
  <2>2. /\ gpuDirty[o] = {} /\ flushAt[o] <= Until(u)
        /\ th[u].op \in WriteOps => gpuUse[o] <= Until(u)
    BY <2>1 DEF Clean
  <2> QED
    BY <1>1, <1>2, <2>1, <2>2
<1>5. ASSUME th[u].op \in WriteOps, o \in active',
             th[u].pc \in {"sleep", "retire"}
      PROVE  lrs'[o] <= th[u].seq
  BY <1>0, <1>1, <1>5 DEF Clean, Calmer
<1>6. ASSUME th[u].op \in WriteOps, th[u].pc = "domain"
      PROVE  o \notin active'
  BY <1>6 DEF Clean, Calmer
<1> QED
  BY <1>3, <1>4, <1>5, <1>6 DEF Clean, GpuWritten

\* Where every object stays calm and nobody new starts to wait.
LEMMA WaitingKept ==
  ASSUME TypeInv, TypeInv', Waiting, hwSeqno <= hwSeqno',
         \A u \in Client : Waits(u)' =>
            \/ Clean(u)'
            \/ Waits(u) /\ th'[u] = th[u] /\ Calmer(th[u].obj)
  PROVE  Waiting'
<1>0. DataOK' /\ ThreadOK' /\ ThreadInv'
  BY DEF TypeInv, TypeOK
<1>1. ASSUME NEW u \in Client, Waits(u), th'[u] = th[u], Calmer(th[u].obj)
      PROVE  Clean(u)'
  <2>1. th[u].obj \in Obj
    BY <1>1 DEF TypeInv, ThreadInv, Waits, AfterFlush, NoObjectPcs
  <2>2. /\ hwSeqno' \in Nat /\ gpuUse'[th[u].obj] \in Nat
        /\ flushAt'[th[u].obj] \in Nat /\ lrs'[th[u].obj] \in Nat
    BY <1>0, <2>1 DEF DataOK
  <2>3. Clean(u)
    BY <1>1 DEF Waiting
  <2> QED
    BY <1>1, <2>2, <2>3, CleanKept
<1> QED
  BY <1>1 DEF Waiting

\* Whoever has waited for an object finds it clean, and no other thread
\* makes it otherwise.
LEMMA WaitingStep ==
  ASSUME TypeInv, TypeInv', Places, WorkerPlaces, Holds, Seqnos, Lists,
         Tracked, Forgotten, Waiting, [Next]_vars
  PROVE  Waiting'
<1>0. DataOK /\ ThreadOK /\ ThreadInv
  BY DEF TypeInv, TypeOK
<1>00. hwSeqno <= hwSeqno
  BY <1>0 DEF DataOK
<1>000. \A u \in Client : Waits(u) => th[u].obj \in Obj
  BY <1>0 DEF Waits, AfterFlush, ThreadInv, NoObjectPcs
<1>1. ASSUME NEW t \in Client, \E op \in ClientOps, o \in Obj : Call(t, op, o)
      PROVE  Waiting'
  <2>1. /\ UNCHANGED <<hwSeqno, wd, active, wedged, ghostVars>>
        /\ \A o \in Obj : lrs'[o] = lrs[o] \/ lrs'[o] = 0
    BY <1>1, <1>0 DEF Call, DataOK
  <2>2. \A u \in Client : Waits(u)' => Waits(u) /\ th'[u] = th[u]
    BY <1>1, <1>0 DEF Call, Waits, AfterFlush, ThreadOK, ThreadInv
  <2> QED
    BY <2>1, <2>2, <1>00, <1>000, CalmKept, WaitingKept
<1>2. ASSUME NEW t \in Client, ReadLock(t)
      PROVE  Waiting'
  <2>1. /\ UNCHANGED <<hwSeqno, wd, active, wedged, ghostVars>>
        /\ \A o \in Obj : lrs'[o] = lrs[o] \/ lrs'[o] = 0
    BY <1>2, <1>0 DEF ReadLock, DataOK
  <2>2. \A u \in Client : Waits(u)' => Waits(u) /\ th'[u] = th[u]
    BY <1>2, <1>0 DEF ReadLock, Waits, AfterFlush, ThreadOK, ThreadInv
  <2> QED
    BY <2>1, <2>2, <1>00, <1>000, CalmKept, WaitingKept
<1>3. ASSUME NEW t \in Client, WriteLock(t)
      PROVE  Waiting'
  <2>1. /\ UNCHANGED <<hwSeqno, wd, active, wedged, ghostVars>>
        /\ \A o \in Obj : lrs'[o] = lrs[o] \/ lrs'[o] = 0
    BY <1>3, <1>0 DEF WriteLock, DataOK
  <2>2. \A u \in Client : Waits(u)' => Waits(u) /\ th'[u] = th[u]
    BY <1>3, <1>0 DEF WriteLock, Waits, AfterFlush, ThreadOK, ThreadInv
  <2> QED
    BY <2>1, <2>2, <1>00, <1>000, CalmKept, WaitingKept
<1>4. ASSUME NEW t \in Client, ExecLockAny(t)
      PROVE  Waiting'
  <2>1. /\ UNCHANGED <<hwSeqno, wd, active, wedged, ghostVars>>
        /\ \A o \in Obj : lrs'[o] = lrs[o] \/ lrs'[o] = 0
    BY <1>4, <1>0 DEF ExecLockAny, ExecLock, DataOK
  <2>2. \A u \in Client : Waits(u)' => Waits(u) /\ th'[u] = th[u]
    BY <1>4, <1>0 DEF ExecLockAny, ExecLock, Waits, AfterFlush, ThreadOK,
       ThreadInv
  <2> QED
    BY <2>1, <2>2, <1>00, <1>000, CalmKept, WaitingKept
<1>5. ASSUME NEW t \in Client, AccessHold(t)
      PROVE  Waiting'
  <2>1. /\ UNCHANGED <<hwSeqno, wd, active, wedged, ghostVars>>
        /\ \A o \in Obj : lrs'[o] = lrs[o] \/ lrs'[o] = 0
    BY <1>5, <1>0 DEF AccessHold, Hold, DataOK
  <2>2. \A u \in Client : Waits(u)' => Waits(u) /\ th'[u] = th[u]
    BY <1>5, <1>0 DEF AccessHold, Hold, Waits, AfterFlush, ThreadOK, ThreadInv
  <2> QED
    BY <2>1, <2>2, <1>00, <1>000, CalmKept, WaitingKept
<1>6. ASSUME NEW t \in Client, SetDomainHold(t)
      PROVE  Waiting'
  <2>1. /\ UNCHANGED <<hwSeqno, wd, active, wedged, ghostVars>>
        /\ \A o \in Obj : lrs'[o] = lrs[o] \/ lrs'[o] = 0
    BY <1>6, <1>0 DEF SetDomainHold, Hold, DataOK
  <2>2. \A u \in Client : Waits(u)' => Waits(u) /\ th'[u] = th[u]
    BY <1>6, <1>0 DEF SetDomainHold, Hold, Waits, AfterFlush, ThreadOK,
       ThreadInv
  <2> QED
    BY <2>1, <2>2, <1>00, <1>000, CalmKept, WaitingKept
<1>7. ASSUME NEW t \in Client, UnbindHold(t)
      PROVE  Waiting'
  <2>1. /\ UNCHANGED <<hwSeqno, wd, active, wedged, ghostVars>>
        /\ \A o \in Obj : lrs'[o] = lrs[o] \/ lrs'[o] = 0
    BY <1>7, <1>0 DEF UnbindHold, Hold, DataOK
  <2>2. \A u \in Client : Waits(u)' => Waits(u) /\ th'[u] = th[u]
    BY <1>7, <1>0 DEF UnbindHold, Hold, Waits, AfterFlush, ThreadOK, ThreadInv
  <2> QED
    BY <2>1, <2>2, <1>00, <1>000, CalmKept, WaitingKept
<1>8. ASSUME NEW t \in Client, PinHold(t)
      PROVE  Waiting'
  <2>1. /\ UNCHANGED <<hwSeqno, wd, active, wedged, ghostVars>>
        /\ \A o \in Obj : lrs'[o] = lrs[o] \/ lrs'[o] = 0
    BY <1>8, <1>0 DEF PinHold, Hold, DataOK
  <2>2. \A u \in Client : Waits(u)' => Waits(u) /\ th'[u] = th[u]
    BY <1>8, <1>0 DEF PinHold, Hold, Waits, AfterFlush, ThreadOK, ThreadInv
  <2> QED
    BY <2>1, <2>2, <1>00, <1>000, CalmKept, WaitingKept
<1>9. ASSUME NEW t \in Client, UnpinHold(t)
      PROVE  Waiting'
  <2>1. /\ UNCHANGED <<hwSeqno, wd, active, wedged, ghostVars>>
        /\ \A o \in Obj : lrs'[o] = lrs[o] \/ lrs'[o] = 0
    BY <1>9, <1>0 DEF UnpinHold, Hold, UnpinObjects, DataOK
  <2>2. \A u \in Client : Waits(u)' => Waits(u) /\ th'[u] = th[u]
    BY <1>9, <1>0 DEF UnpinHold, Hold, Waits, AfterFlush, ThreadOK, ThreadInv
  <2> QED
    BY <2>1, <2>2, <1>00, <1>000, CalmKept, WaitingKept
<1>10. ASSUME NEW t \in Client, Bind(t)
      PROVE  Waiting'
  <2>1. /\ UNCHANGED <<hwSeqno, wd, active, wedged, ghostVars>>
        /\ \A o \in Obj : lrs'[o] = lrs[o] \/ lrs'[o] = 0
    BY <1>10, <1>0 DEF Bind, DataOK
  <2>2. \A u \in Client : Waits(u)' => Waits(u) /\ th'[u] = th[u]
    BY <1>10, <1>0 DEF Bind, Waits, AfterFlush, ThreadOK, ThreadInv
  <2> QED
    BY <2>1, <2>2, <1>00, <1>000, CalmKept, WaitingKept
<1>11. ASSUME NEW t \in Client, Flush(t)
      PROVE  Waiting'
  <2>1. PICK ok \in BOOLEAN : GemFlush({wd[th[t].obj]}, ok)
    BY <1>11 DEF Flush, AllocOutcome
  <2>2. FlushEffect({wd[th[t].obj]}) /\ UNCHANGED <<hwSeqno, wedged, gpuUse>>
    BY <1>11, <2>1, GemFlushEffect DEF Flush
  <2>3. \A u \in Client : Waits(u)' => Waits(u) /\ th'[u] = th[u]
    BY <1>11, <1>0 DEF Flush, Waits, AfterFlush, ThreadOK
  <2>4. \A u \in Client : Waits(u) => Calmer(th[u].obj)
    BY <2>2, CalmFlush
  <2> QED
    BY <2>2, <2>3, <2>4, <1>00, <1>000, WaitingKept
<1>12. ASSUME NEW t \in Client, Wait(t)
      PROVE  Waiting'
  <2> DEFINE o == th[t].obj
  <2>0. WaitTo(t)
    BY <1>12, Moves
  <2>1. UNCHANGED <<hwSeqno, wd, active, list, lrs, lws, wedged, ghostVars>>
    BY <1>12 DEF Wait
  <2>2. /\ \A u \in Client : u # t =>
             th'[u] = th[u] /\ (Waits(u)' => Waits(u))
        /\ th'[t].obj = o /\ th'[t].op = th[t].op
    BY <1>0, <2>0 DEF WaitTo, Waits, ThreadOK
  <2>3. o \in Obj /\ ~GpuWritten(o)
    BY <1>12, <1>0 DEF Wait, ThreadInv, NoObjectPcs, GpuWritten
  <2>4. /\ hwSeqno \in Nat /\ gpuUse[o] \in Nat /\ flushAt[o] \in Nat
        /\ lrs[o] \in Nat /\ lws[o] \in Nat /\ gpuDirty[o] \subseteq GpuDomain
    BY <1>0, <2>3 DEF DataOK
  <2>5. CASE o \notin active
    <3>1. th'[t].pc = "domain"
      BY <1>12, <1>0, <2>5 DEF Wait, ThreadOK
    <3>2. Until(t)' = hwSeqno
      BY <2>1, <3>1 DEF Until
    <3>3. ~wedged =>
            gpuUse[o] <= hwSeqno /\ gpuDirty[o] = {} /\ flushAt[o] <= hwSeqno
      BY <2>3, <2>5, IdleClean
    <3>4. Clean(t)'
      BY <2>1, <2>2, <2>3, <2>5, <3>1, <3>2, <3>3 DEF Clean, GpuWritten
    <3> QED
      BY <2>1, <2>2, <3>4, <1>00, <1>000, CalmKept, WaitingKept
  <2>6. CASE th'[t].pc = "sleep" /\ th'[t].seq = WaitSeqno(t) /\ ~wedged
    <3>1. Until(t)' = IF WaitSeqno(t) > hwSeqno THEN WaitSeqno(t) ELSE hwSeqno
      BY <2>1, <2>6 DEF Until
    <3>2. gpuDirty[o] = {}
      BY <2>3, <2>4, <2>6 DEF Tracked, GpuWritten
    <3>3. flushAt[o] > hwSeqno => lrs[o] >= flushAt[o] /\ lws[o] >= flushAt[o]
      BY <2>3, <2>6 DEF Tracked
    <3>4. gpuUse[o] > hwSeqno => lrs[o] >= gpuUse[o]
      BY <2>3, <2>6 DEF Tracked
    <3>5. flushAt[o] <= Until(t)'
      BY <2>4, <3>1, <3>3 DEF WaitSeqno
    <3>6. th[t].op \in WriteOps =>
            gpuUse[o] <= Until(t)' /\ lrs[o] <= WaitSeqno(t)
      BY <2>4, <3>1, <3>4 DEF WaitSeqno
    <3>7. Clean(t)'
      BY <2>1, <2>2, <2>3, <2>6, <3>2, <3>5, <3>6 DEF Clean, GpuWritten
    <3> QED
      BY <2>1, <2>2, <3>7, <1>00, <1>000, CalmKept, WaitingKept
  <2>7. CASE ~Waits(t)'
    BY <2>1, <2>2, <2>7, <1>00, <1>000, CalmKept, WaitingKept
  <2>8. \/ o \notin active
        \/ th'[t].pc = "sleep" /\ th'[t].seq = WaitSeqno(t) /\ ~wedged
        \/ th'[t].pc = ErrorPc(th[t].op)
    <3>1. CASE wedged
      BY <1>12, <1>0, <3>1 DEF Wait, ThreadOK
    <3>2. CASE ~wedged /\ WaitSeqno(t) # nextSeqno
      BY <1>12, <1>0, <3>2 DEF Wait, ThreadOK
    <3>3. CASE ~wedged /\ WaitSeqno(t) = nextSeqno /\ o \in active
      <4>1. \/ th' = [th EXCEPT ![t].pc = "sleep", ![t].seq = WaitSeqno(t)]
            \/ th' = [th EXCEPT ![t].pc = ErrorPc(th[t].op), ![t].seq = WaitSeqno(t)]
        BY <1>12, <3>3 DEF Wait
      <4> QED
        BY <1>0, <3>3, <4>1 DEF ThreadOK
    <3> QED
      BY <3>1, <3>2, <3>3
  <2>9. th'[t].pc = ErrorPc(th[t].op) => ~Waits(t)'
    BY DEF ErrorPc, Waits, AfterFlush
  <2> QED
    BY <2>5, <2>6, <2>7, <2>8, <2>9
<1>13. ASSUME NEW t \in Client, Wake(t)
      PROVE  Waiting'
  <2> DEFINE o == th[t].obj
  <2>1. UNCHANGED <<hwSeqno, wd, active, lrs, wedged, ghostVars>>
    BY <1>13 DEF Wake
  <2>2. \A u \in Client : u # t => th'[u] = th[u] /\ (Waits(u)' => Waits(u))
    BY <1>13, <1>0 DEF Wake, Waits, ThreadOK
  <2>3. CASE wedged
    <3>1. ~Waits(t)'
      BY <1>13, <1>0, <2>3 DEF Wake, Waits, AfterFlush, ErrorPc, ThreadOK
    <3> QED
      BY <2>1, <2>2, <3>1, <1>00, <1>000, CalmKept, WaitingKept
  <2>4. CASE ~wedged
    <3>1. /\ th[t].pc = "sleep" /\ hwSeqno >= th[t].seq /\ th[t].seq \in Nat
          /\ th'[t].pc = "retire" /\ th'[t].seq = hwSeqno /\ th'[t].obj = o
          /\ th'[t].op = th[t].op
      BY <1>13, <1>0, <2>4 DEF Wake, SeqnoPassed, ThreadOK
    <3>2. Waits(t) /\ Clean(t) /\ o \in Obj
      BY <3>1, <1>0 DEF Waits, AfterFlush, Places, ThreadInv, NoObjectPcs,
         Waiting
    <3>3. Until(t)' = Until(t)
      BY <2>1, <3>1, <1>0 DEF Until, DataOK
    <3>4. o \in active /\ th[t].op \in WriteOps => lrs[o] <= hwSeqno
      BY <3>1, <3>2, <1>0 DEF Clean, DataOK
    <3>5. Clean(t)'
      BY <2>1, <3>1, <3>2, <3>3, <3>4 DEF Clean, GpuWritten
    <3> QED
      BY <2>1, <2>2, <3>5, <1>00, <1>000, CalmKept, WaitingKept
  <2> QED
    BY <2>3, <2>4
<1>14. ASSUME NEW t \in Client, Interrupt(t)
      PROVE  Waiting'
  <2>1. /\ UNCHANGED <<hwSeqno, wd, active, wedged, ghostVars>>
        /\ \A o \in Obj : lrs'[o] = lrs[o] \/ lrs'[o] = 0
    BY <1>14, <1>0 DEF Interrupt, DataOK
  <2>2. \A u \in Client : Waits(u)' => Waits(u) /\ th'[u] = th[u]
    BY <1>14, <1>0 DEF Interrupt, ErrorPc, Waits, AfterFlush, ThreadOK,
       ThreadInv
  <2> QED
    BY <2>1, <2>2, <1>00, <1>000, CalmKept, WaitingKept
<1>15. ASSUME NEW t \in Client, Retire(t)
      PROVE  Waiting'
  <2>1. \A u \in Client : Waits(u)' => Waits(u) /\ th'[u] = th[u]
    BY <1>15, <1>0, ThreadAssumption DEF Retire, Waits, AfterFlush, ThreadOK,
       ThreadInv, WorkerPcs
  <2>2. hwSeqno <= hwSeqno' /\ (\A o \in Obj : Calmer(o))
    <3>1. /\ UNCHANGED <<hwSeqno, wd, wedged, ghostVars>>
          /\ active' \subseteq active
          /\ \A o \in Obj : lrs'[o] \in {lrs[o], 0}
      BY <1>15, <1>0 DEF Retire, RetireRequest, DataOK
    <3> QED
      BY <1>0, <1>00, <3>1 DEF Calmer, GpuWritten, DataOK
  <2> QED
    BY <2>1, <2>2, <1>000, WaitingKept
<1>16. ASSUME NEW t \in Client, RetireEnd(t)
      PROVE  Waiting'
  <2> DEFINE o == th[t].obj
  <2>1. UNCHANGED <<hwSeqno, requests, nextSeqno, wd, active, list, lrs, wedged, ghostVars>>
    BY <1>16 DEF RetireEnd
  <2>2. \A u \in Client : u # t => th'[u] = th[u] /\ (Waits(u)' => Waits(u))
    BY <1>16, <1>0 DEF RetireEnd, Waits, ThreadOK
  <2>3. CASE th[t].op = "busy"
    <3>1. ~Waits(t)'
      BY <1>16, <1>0, <2>3 DEF RetireEnd, Waits, AfterFlush, ThreadOK
    <3> QED
      BY <2>1, <2>2, <3>1, <1>00, <1>000, CalmKept, WaitingKept
  <2>4. CASE th[t].op # "busy"
    <3>1. /\ th[t].pc = "retire" /\ th[t].seq \in Nat
          /\ th'[t].pc = "domain" /\ th'[t].obj = o /\ th'[t].op = th[t].op
      BY <1>16, <1>0, <2>4 DEF RetireEnd, ThreadOK, ThreadInv
    <3>2. Waits(t) /\ Clean(t) /\ o \in Obj /\ th[t].seq <= hwSeqno
      BY <2>4, <3>1, <1>0 DEF Waits, AfterFlush, Places, ThreadInv,
         NoObjectPcs, Waiting
    <3>3. \A r \in requests : ~(th[t].seq >= r)
      BY <1>16 DEF RetireEnd, SeqnoPassed
    <3>4. ASSUME th[t].op \in WriteOps PROVE o \notin active
      <4>1. SUFFICES ASSUME o \in active PROVE FALSE
        OBVIOUS
      <4>2. lrs[o] <= th[t].seq /\ ~GpuWritten(o)
        BY <3>1, <3>2, <3>4, <4>1 DEF Clean
      <4>3. list[o] = "active"
        BY <3>2, <4>1, <4>2 DEF Lists
      <4>4. lrs[o] \in requests \cup {nextSeqno}
        BY <3>2, <4>3 DEF Lists
      <4>5. lrs[o] # nextSeqno
        BY <3>1, <3>2, <4>2, <1>0 DEF Seqnos, DataOK
      <4> QED
        BY <3>1, <3>3, <4>2, <4>4, <4>5, <1>0 DEF DataOK
    <3>5. Until(t)' = Until(t)
      BY <2>1, <3>1 DEF Until
    <3>6. Clean(t)'
      BY <2>1, <3>1, <3>2, <3>4, <3>5 DEF Clean, GpuWritten
    <3> QED
      BY <2>1, <2>2, <3>6, <1>00, <1>000, CalmKept, WaitingKept
  <2> QED
    BY <2>3, <2>4
<1>17. ASSUME NEW t \in Client, GttDomain(t)
      PROVE  Waiting'
  <2> DEFINE o == th[t].obj
  <2>1. UNCHANGED <<hwSeqno, active, lrs, wedged, ghostVars>>
    BY <1>17 DEF GttDomain
  <2>2. Waits(t) /\ Clean(t) /\ o \in Obj
    BY <1>17, <1>0 DEF GttDomain, Waits, AfterFlush, Places, ThreadInv,
       NoObjectPcs, Waiting
  <2>3. \A p \in Obj : wd'[p] \in {wd[p], "GTT", NoDomain}
    BY <1>17, <1>0 DEF GttDomain, DataOK
  <2>4. \A p \in Obj : Calmer(p)
    BY <1>0, <2>1, <2>3, DomainAssumption DEF Calmer, GpuWritten, DataOK
  <2>5. /\ \A u \in Client : u # t => th'[u] = th[u]
        /\ th[t].pc = "domain" /\ th'[t].op = th[t].op /\ th'[t].obj = o
        /\ th'[t].pc \in {"exec_pin", "access", "out"}
    BY <1>17, <1>0 DEF GttDomain, ThreadOK
  <2>6. Clean(t)'
    <3>1. Until(t)' = Until(t)
      BY <2>1, <2>5 DEF Until
    <3>2. wd'[o] \notin GpuDomain
      BY <2>2, <2>4 DEF Clean, Calmer, GpuWritten
    <3> QED
      BY <2>1, <2>2, <2>5, <3>1, <3>2 DEF Clean, GpuWritten
  <2>7. \A u \in Client : u # t => th'[u] = th[u] /\ (Waits(u)' => Waits(u))
    BY <2>5 DEF Waits
  <2>8. \A u \in Client : Waits(u) => th[u].obj \in Obj
    BY <1>0 DEF Waits, AfterFlush, ThreadInv, NoObjectPcs
  <2>9. hwSeqno <= hwSeqno'
    BY <2>1, <1>0 DEF DataOK
  <2> QED
    BY <2>4, <2>6, <2>7, <2>8, <2>9, <1>000, WaitingKept
<1>18. ASSUME NEW t \in Client, Unbind(t)
      PROVE  Waiting'
  <2>1. /\ UNCHANGED <<hwSeqno, wedged, active, lrs, ghostVars>>
        /\ \A p \in Obj : wd'[p] \in {wd[p], "CPU"}
    BY <1>18, <1>0 DEF Unbind, UnbindObject, DataOK
  <2>2. \A p \in Obj : Calmer(p)
    BY <1>0, <2>1, DomainAssumption DEF Calmer, GpuWritten, DataOK
  <2>3. \A u \in Client : Waits(u)' => Waits(u) /\ th'[u] = th[u]
    BY <1>18, <1>0 DEF Unbind, Waits, AfterFlush, ThreadOK
  <2> QED
    BY <2>1, <2>2, <2>3, <1>00, <1>000, WaitingKept
<1>19. ASSUME NEW t \in Client, Unpin(t)
      PROVE  Waiting'
  <2>1. /\ UNCHANGED <<hwSeqno, wd, active, wedged, ghostVars>>
        /\ \A o \in Obj : lrs'[o] = lrs[o] \/ lrs'[o] = 0
    BY <1>19, <1>0 DEF Unpin, UnpinObjects, DataOK
  <2>2. \A u \in Client : Waits(u)' => Waits(u) /\ th'[u] = th[u]
    BY <1>19, <1>0 DEF Unpin, Places, Waits, AfterFlush, ThreadOK, ThreadInv
  <2> QED
    BY <2>1, <2>2, <1>00, <1>000, CalmKept, WaitingKept
<1>20. ASSUME NEW t \in Client, Return(t)
      PROVE  Waiting'
  <2>1. /\ UNCHANGED <<hwSeqno, wd, active, wedged, ghostVars>>
        /\ \A o \in Obj : lrs'[o] = lrs[o] \/ lrs'[o] = 0
    BY <1>20, <1>0 DEF Return, DataOK
  <2>2. \A u \in Client : Waits(u)' => Waits(u) /\ th'[u] = th[u]
    BY <1>20, <1>0 DEF Return, Waits, AfterFlush, ThreadOK, ThreadInv
  <2> QED
    BY <2>1, <2>2, <1>00, <1>000, CalmKept, WaitingKept
<1>21. ASSUME NEW t \in Client, Busy(t)
      PROVE  Waiting'
  <2>1. UNCHANGED <<hwSeqno, wedged, gpuUse>>
    BY <1>21 DEF Busy
  <2>2. \A u \in Client : Waits(u)' => Waits(u) /\ th'[u] = th[u]
    BY <1>21, <1>0 DEF Busy, Waits, AfterFlush, ThreadOK, Places
  <2>3. \A u \in Client : Waits(u) => Calmer(th[u].obj)
    <3>1. CASE th[t].obj \in active
      <4>1. PICK ok \in BOOLEAN : GemFlush({wd[th[t].obj]}, ok)
        BY <1>21, <3>1 DEF Busy, AllocOutcome
      <4>2. FlushEffect({wd[th[t].obj]})
        BY <4>1, GemFlushEffect
      <4> QED
        BY <2>1, <4>2, CalmFlush
    <3>2. CASE th[t].obj \notin active
      <4>1. UNCHANGED <<wd, active, wedged, ghostVars, lrs>>
        BY <1>21, <3>2 DEF Busy
      <4>2. \A o \in Obj : Calmer(o)
        BY <4>1, CalmKept
      <4> QED
        BY <4>2, <1>0 DEF ThreadInv, Waits, AfterFlush, NoObjectPcs
    <3> QED
      BY <3>1, <3>2
  <2> QED
    BY <2>1, <2>2, <2>3, <1>00, <1>000, WaitingKept
<1>22. ASSUME NEW t \in Client, \E o \in Obj : ExecPin(t, o)
      PROVE  Waiting'
  <2>0. PICK o \in Obj : ExecPin(t, o)
    BY <1>22
  <2>1. /\ UNCHANGED <<hwSeqno, wd, active, wedged, ghostVars, lrs>>
        /\ ExecPinTo(t, o)
    BY <2>0, Moves DEF ExecPin
  <2>2. \A u \in Client : Waits(u)' => Waits(u) /\ th'[u] = th[u]
    BY <1>0, <2>1 DEF ExecPinTo, Waits, AfterFlush, ThreadOK
  <2> QED
    BY <2>1, <2>2, <1>00, <1>000, CalmKept, WaitingKept
<1>23. ASSUME NEW t \in Client, ExecRelocError(t)
      PROVE  Waiting'
  <2>1. /\ UNCHANGED <<hwSeqno, wd, active, wedged, ghostVars>>
        /\ \A o \in Obj : lrs'[o] = lrs[o] \/ lrs'[o] = 0
    BY <1>23, <1>0 DEF ExecRelocError, UnpinObjects, DataOK
  <2>2. \A u \in Client : Waits(u)' => Waits(u) /\ th'[u] = th[u]
    BY <1>23, <1>0 DEF ExecRelocError, Waits, AfterFlush, ThreadOK, ThreadInv
  <2> QED
    BY <2>1, <2>2, <1>00, <1>000, CalmKept, WaitingKept
<1>24. ASSUME NEW t \in Client, ExecFlush(t)
      PROVE  Waiting'
  <2>1. PICK ok \in BOOLEAN : GemFlush(UNION {FlushOf(o) : o \in inExec}, ok)
    BY <1>24 DEF ExecFlush, AllocOutcome
  <2>2. /\ FlushEffect(UNION {FlushOf(o) : o \in inExec})
        /\ UNCHANGED <<hwSeqno, wedged, gpuUse>>
    BY <1>24, <2>1, GemFlushEffect DEF ExecFlush
  <2>3. \A u \in Client : Waits(u)' => Waits(u) /\ th'[u] = th[u]
    BY <1>24, <1>0 DEF ExecFlush, Waits, AfterFlush, ThreadOK
  <2>4. \A u \in Client : Waits(u) => Calmer(th[u].obj)
    BY <2>2, CalmFlush
  <2> QED
    BY <2>2, <2>3, <2>4, <1>00, <1>000, WaitingKept
<1>25. ASSUME NEW t \in Client, ExecDispatch(t)
      PROVE  Waiting'
  <2>1. /\ UNCHANGED <<hwSeqno, wedged, flushAt>>
        /\ \A o \in Obj \ inExec :
             /\ wd'[o] = wd[o] /\ (o \in active' <=> o \in active)
                                  /\ lrs'[o] = lrs[o]
                                  /\ gpuUse'[o] = gpuUse[o]
                                  /\ gpuDirty'[o] = gpuDirty[o]
    BY <1>25 DEF ExecDispatch, MoveToActive
  <2>2. \A u \in Client : Waits(u)' => Waits(u) /\ th'[u] = th[u] /\ u # t
    BY <1>25, <1>0 DEF ExecDispatch, Waits, AfterFlush, ThreadOK
  <2>3. \A o \in inExec : held[o] = t
    BY <1>25, <1>0 DEF ExecDispatch, Holds, Execs, Places
  <2>4. \A u \in Client : Waits(u) /\ u # t => th[u].obj \in Obj \ inExec
    BY <1>0, <2>3 DEF Waits, AfterFlush, ThreadInv, NoObjectPcs, Holds,
       Holding, HoldPcs
  <2>5. \A o \in Obj \ inExec : Calmer(o)
    BY <1>0, <2>1 DEF Calmer, GpuWritten, DataOK
  <2> QED
    BY <2>1, <2>2, <2>4, <2>5, <1>00, <1>000, WaitingKept
<1>26. ASSUME NEW t \in Client, ExecExit(t)
      PROVE  Waiting'
  <2>1. /\ UNCHANGED <<hwSeqno, wd, active, wedged, ghostVars>>
        /\ \A o \in Obj : lrs'[o] = lrs[o] \/ lrs'[o] = 0
    BY <1>26, <1>0 DEF ExecExit, UnpinObjects, DataOK
  <2>2. \A u \in Client : Waits(u)' => Waits(u) /\ th'[u] = th[u]
    BY <1>26, <1>0 DEF ExecExit, Waits, AfterFlush, ThreadOK, ThreadInv
  <2> QED
    BY <2>1, <2>2, <1>00, <1>000, CalmKept, WaitingKept
<1>27. CASE \E task \in {"retire", "hung"} : RunTask(task)
  <2>1. /\ UNCHANGED <<hwSeqno, wd, active, wedged, ghostVars>>
        /\ \A o \in Obj : lrs'[o] = lrs[o] \/ lrs'[o] = 0
    BY <1>27, <1>0 DEF RunTask, DataOK
  <2>2. \A u \in Client : Waits(u)' => Waits(u) /\ th'[u] = th[u]
    BY <1>27, <1>0, ThreadAssumption DEF RunTask, Waits, AfterFlush,
       ThreadOK, ThreadInv
  <2> QED
    BY <2>1, <2>2, <1>00, <1>000, CalmKept, WaitingKept
<1>28. CASE WriteLock(Worker)
  <2>1. /\ UNCHANGED <<hwSeqno, wd, active, wedged, ghostVars>>
        /\ \A o \in Obj : lrs'[o] = lrs[o] \/ lrs'[o] = 0
    BY <1>28, <1>0 DEF WriteLock, DataOK
  <2>2. \A u \in Client : Waits(u)' => Waits(u) /\ th'[u] = th[u]
    BY <1>28, <1>0, ThreadAssumption DEF WriteLock, Waits, AfterFlush,
       ThreadOK, ThreadInv
  <2> QED
    BY <2>1, <2>2, <1>00, <1>000, CalmKept, WaitingKept
<1>29. CASE Retire(Worker)
  <2>1. \A u \in Client : Waits(u)' => Waits(u) /\ th'[u] = th[u]
    BY <1>29, <1>0, ThreadAssumption DEF Retire, Waits, AfterFlush, ThreadOK,
       ThreadInv, WorkerPcs
  <2>2. hwSeqno <= hwSeqno' /\ (\A o \in Obj : Calmer(o))
    <3>1. /\ UNCHANGED <<hwSeqno, wd, wedged, ghostVars>>
          /\ active' \subseteq active
          /\ \A o \in Obj : lrs'[o] \in {lrs[o], 0}
      BY <1>29, <1>0 DEF Retire, RetireRequest, DataOK
    <3> QED
      BY <1>0, <1>00, <3>1 DEF Calmer, GpuWritten, DataOK
  <2> QED
    BY <2>1, <2>2, <1>000, WaitingKept
<1>30. CASE RetireEnd(Worker)
  <2>1. UNCHANGED <<hwSeqno, wd, wedged, active, lrs, ghostVars>>
    BY <1>30 DEF RetireEnd
  <2>2. \A u \in Client : Waits(u)' => Waits(u) /\ th'[u] = th[u]
    BY <1>30, <1>0, ThreadAssumption DEF RetireEnd, Waits, ThreadOK
  <2> QED
    BY <2>1, <2>2, <1>00, <1>000, CalmKept, WaitingKept
<1>31. CASE HungReset
  <2>1. \A u \in Client : Waits(u)' => Waits(u) /\ th'[u] = th[u]
    BY <1>31, <1>0, ThreadAssumption DEF HungReset, Waits, AfterFlush,
       ThreadOK, ThreadInv, WorkerPcs
  <2>2. hwSeqno <= hwSeqno' /\ (\A o \in Obj : Calmer(o))
    <3>1. /\ UNCHANGED <<hwSeqno, wd, wedged, active, lrs>>
          /\ \A o \in Obj : /\ gpuDirty'[o] \in {gpuDirty[o], {}}
                             /\ flushAt'[o] \in {flushAt[o], 0}
                             /\ gpuUse'[o] \in {gpuUse[o], 0}
      BY <1>31, <1>0 DEF HungReset, DataOK
    <3> QED
      BY <1>0, <1>00, <3>1 DEF Calmer, GpuWritten, DataOK
  <2> QED
    BY <2>1, <2>2, <1>000, WaitingKept
<1>32. CASE HungRelock
  <2>1. /\ UNCHANGED <<hwSeqno, wd, active, wedged, ghostVars>>
        /\ \A o \in Obj : lrs'[o] = lrs[o] \/ lrs'[o] = 0
    BY <1>32, <1>0 DEF HungRelock, DataOK
  <2>2. \A u \in Client : Waits(u)' => Waits(u) /\ th'[u] = th[u]
    BY <1>32, <1>0, ThreadAssumption DEF HungRelock, Waits, AfterFlush,
       ThreadOK, ThreadInv
  <2> QED
    BY <2>1, <2>2, <1>00, <1>000, CalmKept, WaitingKept
<1>33. CASE HungClear
  <2>1. \A u \in Client : Waits(u)' => Waits(u) /\ th'[u] = th[u]
    BY <1>33, <1>0, ThreadAssumption DEF HungClear, Waits, AfterFlush,
       ThreadOK, ThreadInv, WorkerPcs
  <2>2. hwSeqno <= hwSeqno' /\ (\A o \in Obj : Calmer(o))
    <3>1. /\ UNCHANGED <<hwSeqno, wedged, ghostVars>>
          /\ active' \subseteq active
          /\ \A o \in Obj : lrs'[o] \in {lrs[o], 0}
          /\ \A o \in Obj : wd'[o] \in {wd[o], NoDomain}
      BY <1>33, <1>0 DEF HungClear, DataOK
    <3> QED
      BY <1>0, <1>00, <3>1, DomainAssumption DEF Calmer, GpuWritten, DataOK
  <2> QED
    BY <2>1, <2>2, <1>000, WaitingKept
<1>34. CASE \E o \in Obj : HungEvict(o)
  <2>0. PICK o \in Obj : HungEvict(o)
    BY <1>34
  <2>1. /\ UNCHANGED <<hwSeqno, wedged, active, lrs, ghostVars, th>>
        /\ \A p \in Obj : wd'[p] \in {wd[p], "CPU"}
    BY <1>0, <2>0 DEF HungEvict, UnbindObject, DataOK
  <2>2. \A p \in Obj : Calmer(p)
    BY <1>0, <2>1, DomainAssumption DEF Calmer, GpuWritten, DataOK
  <2> QED
    BY <2>1, <2>2, <1>00, <1>000, WaitingKept DEF Waits
<1>35. CASE HungEnd
  <2>1. /\ UNCHANGED <<hwSeqno, wd, active, lrs, ghostVars>>
        /\ (wedged => wedged' \/ HasReset)
    BY <1>35, <1>0 DEF HungEnd, DataOK
  <2>2. \A u \in Client : Waits(u)' => Waits(u) /\ th'[u] = th[u]
    BY <1>35, <1>0, ThreadAssumption DEF HungEnd, Waits, ThreadOK
  <2>3. th[Worker].op = "hung" /\ th[Worker].pc = "hung_evict" /\ wedged
    BY <1>35, <1>0 DEF HungEnd, WorkerPlaces, ThreadInv
  <2>4. ASSUME ~wedged'
        PROVE  \A o \in Obj :
                 gpuUse[o] = 0 /\ gpuDirty[o] = {} /\ flushAt[o] = 0
    BY <2>1, <2>3, <2>4 DEF Forgotten
  <2>5. ASSUME NEW u \in Client, Waits(u)'
        PROVE  Clean(u)'
    <3>1. Waits(u) /\ th'[u] = th[u] /\ Clean(u)
      BY <2>2, <2>5 DEF Waiting
    <3>2. th[u].obj \in Obj /\ Until(u)' = Until(u) /\ Until(u) \in Nat
      BY <2>1, <3>1, <1>0, <1>000 DEF ThreadOK, DataOK, Until
    <3> QED
      BY <2>1, <2>4, <3>1, <3>2 DEF Clean, GpuWritten
  <2> QED
    BY <2>5 DEF Waiting
<1>36. CASE GpuProgress
  <2>1. UNCHANGED <<wd, wedged, active, lrs, ghostVars, th>>
    BY <1>36 DEF GpuProgress
  <2>2. hwSeqno <= hwSeqno'
    BY <1>36, <1>0 DEF GpuProgress, Seqnos, DataOK
  <2> QED
    BY <2>1, <2>2, <1>000, CalmKept, WaitingKept DEF Waits
<1>37. CASE RetireTimeout
  <2>1. /\ UNCHANGED <<hwSeqno, wd, active, wedged, ghostVars>>
        /\ \A o \in Obj : lrs'[o] = lrs[o] \/ lrs'[o] = 0
    BY <1>37, <1>0 DEF RetireTimeout, DataOK
  <2>2. \A u \in Client : Waits(u)' => Waits(u) /\ th'[u] = th[u]
    BY <1>37, <1>0 DEF RetireTimeout, Waits, AfterFlush, ThreadOK, ThreadInv
  <2> QED
    BY <2>1, <2>2, <1>00, <1>000, CalmKept, WaitingKept
<1>38. CASE HangCheck
  <2>1. UNCHANGED <<hwSeqno, wd, active, lrs, th>> /\ wedged'
    BY <1>38 DEF HangCheck
  <2>2. \A o \in Obj : Calmer(o)
    BY <1>0, <2>1 DEF Calmer, GpuWritten, DataOK
  <2> QED
    BY <2>1, <2>2, <1>00, <1>000, WaitingKept DEF Waits
<1>39. CASE UNCHANGED vars
  <2>1. /\ UNCHANGED <<hwSeqno, wd, active, wedged, ghostVars>>
        /\ \A o \in Obj : lrs'[o] = lrs[o] \/ lrs'[o] = 0
    BY <1>39, <1>0 DEF vars, DataOK
  <2>2. \A u \in Client : Waits(u)' => Waits(u) /\ th'[u] = th[u]
    BY <1>39, <1>0 DEF vars, Waits, AfterFlush, ThreadOK, ThreadInv
  <2> QED
    BY <2>1, <2>2, <1>00, <1>000, CalmKept, WaitingKept
<1> QED
  BY <1>1, <1>2, <1>3, <1>4, <1>5, <1>6, <1>7, <1>8, <1>9, <1>10, <1>11,
     <1>12, <1>13, <1>14, <1>15, <1>16, <1>17, <1>18, <1>19, <1>20, <1>21,
     <1>22, <1>23, <1>24, <1>25, <1>26, <1>27, <1>28, <1>29, <1>30, <1>31,
     <1>32, <1>33, <1>34, <1>35, <1>36, <1>37, <1>38, <1>39 DEF Next,
     Continue, Work

-----------------------------------------------------------------------------
(* What the invariant gives.                                               *)

\* The invariant holds at attach.
LEMMA SafeInit ==
  ASSUME Init
  PROVE  SafeInv
<1>0. TypeInv
  BY InitTypeInv
<1>1. \A t \in Thread : th[t] = Idle
  BY DEF Init
<1>2. Places /\ WorkerPlaces /\ Locks /\ Waiting
  BY <1>1, ThreadAssumption DEF Init, Places, WorkerPlaces, Locks, Inside,
     WriteLockOps, ReadLockOps, Waiting, Waits, AfterFlush
<1>3. Holds /\ Bound /\ Pending /\ Forgotten
  BY <1>1, ThreadAssumption DEF Init, Holds, Holding, HoldPcs, Execs, Bound,
     Pending, Forgotten
<1>4. Seqnos /\ Lists /\ Tracked /\ WriteMappingTracked
  BY DomainAssumption DEF Init, Seqnos, Lists, GpuWritten, Tracked,
     WriteMappingTracked
<1> QED
  BY <1>2, <1>3, <1>4 DEF SafeInv

\* The invariant is inductive, with the type invariant.
LEMMA SafeStep ==
  ASSUME GpuAccesses, TypeInv, SafeInv, [Next]_vars
  PROVE  SafeInv'
<1>1. TypeInv'
  BY DataStep, ThreadStep DEF TypeInv, TypeOK
<1>2. /\ Places /\ WorkerPlaces /\ Locks /\ Holds /\ Seqnos /\ Lists /\ Bound
      /\ Pending /\ Tracked /\ Forgotten /\ Waiting /\ WriteMappingTracked
  BY DEF SafeInv
<1>3. Places' /\ WorkerPlaces' /\ Locks' /\ Holds' /\ Seqnos'
  BY <1>2, PlacesStep, WorkerStep, LocksStep, HoldsStep, SeqnosStep
<1>4. Lists' /\ Bound'
  BY <1>2, ListsStep, BoundStep
<1>5. Tracked' /\ Pending'
  BY <1>2, TrackedStep, PendingStep
<1>6. Forgotten' /\ WriteMappingTracked'
  BY <1>2, ForgottenStep, MappingStep
<1>7. Waiting'
  BY <1>1, <1>2, WaitingStep
<1> QED
  BY <1>3, <1>4, <1>5, <1>6, <1>7 DEF SafeInv

\* So it holds in every state.
LEMMA Safe ==
  ASSUME GpuAccesses
  PROVE  Spec => [](TypeInv /\ SafeInv)
<1>1. Init => TypeInv /\ SafeInv
  BY InitTypeInv, SafeInit
<1>2. TypeInv /\ SafeInv /\ [Next]_vars => (TypeInv /\ SafeInv)'
  BY SafeStep, DataStep, ThreadStep DEF TypeInv, TypeOK
<1> QED
  BY <1>1, <1>2, PTL DEF Spec

\* i915_gem_retire_request goes by seqnos alone, and no object leaves the
\* active list before the GPU has executed every batch that uses it.
THEOREM RetiredIsDone ==
  ASSUME GpuAccesses
  PROVE  Spec => []RetireSafe
<1>1. TypeInv /\ SafeInv => RetireSafe
  BY DEF SafeInv, Tracked, RetireSafe
<1> QED
  BY <1>1, Safe, PTL

\* Writes in a GPU cache stay on the GPU write list until a flush is queued,
\* and their object stays active until that flush has completed.
THEOREM NoWriteForgotten ==
  ASSUME GpuAccesses
  PROVE  Spec => []WritesTracked
<1>1. TypeInv /\ SafeInv => WritesTracked
  <2>1. SUFFICES ASSUME TypeInv, SafeInv, NEW o \in Obj, ~wedged
        PROVE  /\ gpuDirty[o] # {} => o \in gpuWrite /\ gpuDirty[o] = {wd[o]}
               /\ flushAt[o] > hwSeqno =>
                    /\ list[o] = "active"
                    /\ lrs[o] >= flushAt[o] /\ lws[o] >= flushAt[o]
    BY DEF WritesTracked
  <2>2. gpuDirty[o] \subseteq GpuDomain /\ Lists /\ Tracked
    BY <2>1 DEF TypeInv, TypeOK, DataOK, SafeInv
  <2> QED
    BY <2>1, <2>2 DEF Tracked, Lists, GpuWritten
<1> QED
  BY <1>1, Safe, PTL

\* Every active object waits for a seqno on the request list, or for the next
\* one, so that some retirement meets it at the head of the active list.
THEOREM NobodyStranded ==
  ASSUME GpuAccesses
  PROVE  Spec => []NoneStranded
<1>1. TypeInv /\ SafeInv => NoneStranded
  BY DEF SafeInv, Lists, NoneStranded
<1> QED
  BY <1>1, Safe, PTL

\* The KASSERTs of the domain changes hold.
THEOREM AssertsOfDomains ==
  ASSUME GpuAccesses
  PROVE  Spec => []DomainAsserts
<1>1. TypeInv /\ SafeInv => DomainAsserts
  <2>1. SUFFICES ASSUME TypeInv, SafeInv,
                        NEW t \in Client, th[t].pc = "domain"
        PROVE  /\ wd[th[t].obj] \in {NoDomain, "CPU", "GTT"}
               /\ th[t].op = "unbind" => th[t].obj \notin active
    BY DEF DomainAsserts
  <2>2. th[t].obj \in Obj /\ wd[th[t].obj] \in WriteDomain
    BY <2>1 DEF TypeInv, TypeOK, DataOK, ThreadInv, NoObjectPcs
  <2>3. Clean(t)
    BY <2>1 DEF SafeInv, Waiting, Waits, AfterFlush, Places
  <2> QED
    BY <2>1, <2>2, <2>3 DEF Clean, GpuWritten, WriteOps
<1> QED
  BY <1>1, Safe, PTL

\* When the CPU touches the pages of an object, all GPU writes to them have
\* landed, and a writer finds no batch that still uses them.
THEOREM CpuSeesTheGpu ==
  ASSUME GpuAccesses
  PROVE  Spec => []CpuAccessSafe
<1>1. TypeInv /\ SafeInv => CpuAccessSafe
  <2>1. SUFFICES ASSUME TypeInv, SafeInv,
                        NEW t \in Client, Accessing(t), ~wedged
        PROVE  /\ gpuDirty[th[t].obj] = {} /\ flushAt[th[t].obj] <= hwSeqno
               /\ th[t].op \in WriteOps => gpuUse[th[t].obj] <= hwSeqno
    BY DEF CpuAccessSafe
  <2>2. th[t].pc \in {"access", "domain"} /\ Places
    BY <2>1 DEF Accessing, SafeInv
  <2>3. Clean(t)
    BY <2>1, <2>2 DEF SafeInv, Waiting, Waits, AfterFlush, Places
  <2>4. Until(t) = hwSeqno
    BY <2>2 DEF Until
  <2> QED
    BY <2>1, <2>3, <2>4 DEF Clean
<1> QED
  BY <1>1, Safe, PTL

\* A user mapping is writable only while the GTT is the write domain.
THEOREM WritableMeansGtt ==
  ASSUME GpuAccesses
  PROVE  Spec => []WriteMappingTracked
<1>1. TypeInv /\ SafeInv => WriteMappingTracked
  BY DEF SafeInv
<1> QED
  BY <1>1, Safe, PTL

-----------------------------------------------------------------------------
(* Who pins what.                                                          *)

\* A bind of the pin ioctl does not fail (or nobody calls it).
PinKept == BindMayFail => "pin" \notin ClientOps

\* The holder has pinned o itself.
PinPcs == {"flush", "sleep", "retire", "domain", "access", "unpin"}
Pinner(o) ==
    /\ held[o] \in Client
    /\ \/ th[held[o]].op = "exec"
       \/ th[held[o]].op \in {"pread", "pwrite"} /\ th[held[o]].pc \in PinPcs
\* The pin ioctl has counted its user's pin and not pinned yet.
Counting(o) ==
    held[o] \in Client /\ th[held[o]].op = "pin" /\ th[held[o]].pc = "bind"

ByUsers(o) == IF upin[o] > 0 /\ ~Counting(o) THEN 1 ELSE 0
ByHolder(o) == IF Pinner(o) THEN 1 ELSE 0
Pins ==
    /\ \A t \in Client : th[t].op \in ClientOps \cup {"none"}
    /\ \A o \in Obj :
         /\ Counting(o) => upin[o] = 1
         /\ pin[o] = ByUsers(o) + ByHolder(o)

\* Neither the counts nor what their holders are at changes.
LEMMA PinsKept ==
  ASSUME Pins, UNCHANGED <<pin, upin>>,
         \A t \in Client : th'[t].op \in ClientOps \cup {"none"},
         \A o \in Obj : /\ Pinner(o)' <=> Pinner(o)
                        /\ Counting(o)' <=> Counting(o)
  PROVE  Pins'
  BY DEF Pins, ByUsers, ByHolder

\* An object is pinned once for its users and once for its holder.
LEMMA PinsStep ==
  ASSUME PinKept, TypeInv, Places, WorkerPlaces, Holds, Pins, [Next]_vars
  PROVE  Pins'
<1>0. /\ ThreadOK /\ ThreadInv /\ Places /\ Holds /\ Pins
      /\ held \in [Obj -> Thread \cup {NoThread}]
      /\ pin \in [Obj -> Int] /\ upin \in [Obj -> Nat]
  BY DEF TypeInv, TypeOK, DataOK
<1>1. ASSUME NEW t \in Client, \E op \in ClientOps, o \in Obj : Call(t, op, o)
      PROVE  Pins'
  <2>1. UNCHANGED <<pin, upin>>
    BY <1>1 DEF Call
  <2>2. \A u \in Client : th'[u].op \in ClientOps \cup {"none"}
    BY <1>1, <1>0, ThreadAssumption DEF Call, ThreadOK, Pins
  <2>3. ASSUME NEW o \in Obj
        PROVE  (Pinner(o)' <=> Pinner(o)) /\ (Counting(o)' <=> Counting(o))
    BY <1>1, <2>3, <1>0, ThreadAssumption, OpsAssumption DEF Call, Pinner,
       PinPcs, Counting, Holds, Holding,
       HoldPcs, Execs, Places, ThreadOK, ThreadInv
  <2> QED
    BY <2>1, <2>2, <2>3, PinsKept
<1>2. ASSUME NEW t \in Client, ReadLock(t)
      PROVE  Pins'
  <2>1. UNCHANGED <<pin, upin>>
    BY <1>2 DEF ReadLock
  <2>2. \A u \in Client : th'[u].op \in ClientOps \cup {"none"}
    BY <1>2, <1>0, ThreadAssumption DEF ReadLock, ReadLockOps, ThreadOK, Pins
  <2>3. ASSUME NEW o \in Obj
        PROVE  (Pinner(o)' <=> Pinner(o)) /\ (Counting(o)' <=> Counting(o))
    BY <1>2, <2>3, <1>0, ThreadAssumption DEF ReadLock, ReadLockOps, Pinner,
       PinPcs, Counting, Holds, Holding,
       HoldPcs, Execs, Places, ThreadOK, ThreadInv
  <2> QED
    BY <2>1, <2>2, <2>3, PinsKept
<1>3. ASSUME NEW t \in Client, WriteLock(t)
      PROVE  Pins'
  <2>1. UNCHANGED <<pin, upin>>
    BY <1>3 DEF WriteLock
  <2>2. \A u \in Client : th'[u].op \in ClientOps \cup {"none"}
    BY <1>3, <1>0, ThreadAssumption DEF WriteLock, WriteLockOps, ThreadOK,
       Pins
  <2>3. ASSUME NEW o \in Obj
        PROVE  (Pinner(o)' <=> Pinner(o)) /\ (Counting(o)' <=> Counting(o))
    BY <1>3, <2>3, <1>0, ThreadAssumption DEF WriteLock, WriteLockOps,
       Pinner, PinPcs, Counting, Holds, Holding,
       HoldPcs, Execs, Places, ThreadOK, ThreadInv
  <2> QED
    BY <2>1, <2>2, <2>3, PinsKept
<1>4. ASSUME NEW t \in Client, ExecLockAny(t)
      PROVE  Pins'
  <2>1. UNCHANGED <<pin, upin>>
    BY <1>4 DEF ExecLockAny, ExecLock
  <2>2. \A u \in Client : th'[u].op \in ClientOps \cup {"none"}
    BY <1>4, <1>0, ThreadAssumption DEF ExecLockAny, ExecLock, ThreadOK, Pins
  <2>3. ASSUME NEW o \in Obj
        PROVE  (Pinner(o)' <=> Pinner(o)) /\ (Counting(o)' <=> Counting(o))
    BY <1>4, <2>3, <1>0, ThreadAssumption DEF ExecLockAny, ExecLock, Pinner,
       PinPcs, Counting, Holds, Holding,
       HoldPcs, Execs, Places, ThreadOK, ThreadInv
  <2> QED
    BY <2>1, <2>2, <2>3, PinsKept
<1>5. ASSUME NEW t \in Client, AccessHold(t)
      PROVE  Pins'
  <2>1. UNCHANGED <<pin, upin>>
    BY <1>5 DEF AccessHold, Hold
  <2>2. \A u \in Client : th'[u].op \in ClientOps \cup {"none"}
    BY <1>5, <1>0, ThreadAssumption DEF AccessHold, Hold, ThreadOK, Pins
  <2>3. ASSUME NEW o \in Obj
        PROVE  (Pinner(o)' <=> Pinner(o)) /\ (Counting(o)' <=> Counting(o))
    BY <1>5, <2>3, <1>0, ThreadAssumption DEF AccessHold, Hold, Pinner,
       PinPcs, Counting, Holds, Holding,
       HoldPcs, Execs, Places, ThreadOK, ThreadInv
  <2> QED
    BY <2>1, <2>2, <2>3, PinsKept
<1>6. ASSUME NEW t \in Client, SetDomainHold(t)
      PROVE  Pins'
  <2>1. UNCHANGED <<pin, upin>>
    BY <1>6 DEF SetDomainHold, Hold
  <2>2. \A u \in Client : th'[u].op \in ClientOps \cup {"none"}
    BY <1>6, <1>0, ThreadAssumption DEF SetDomainHold, Hold, ThreadOK, Pins
  <2>3. ASSUME NEW o \in Obj
        PROVE  (Pinner(o)' <=> Pinner(o)) /\ (Counting(o)' <=> Counting(o))
    BY <1>6, <2>3, <1>0, ThreadAssumption DEF SetDomainHold, Hold, Pinner,
       PinPcs, Counting, Holds, Holding,
       HoldPcs, Execs, Places, ThreadOK, ThreadInv
  <2> QED
    BY <2>1, <2>2, <2>3, PinsKept
<1>7. ASSUME NEW t \in Client, UnbindHold(t)
      PROVE  Pins'
  <2>1. UNCHANGED <<pin, upin>>
    BY <1>7 DEF UnbindHold, Hold
  <2>2. \A u \in Client : th'[u].op \in ClientOps \cup {"none"}
    BY <1>7, <1>0, ThreadAssumption DEF UnbindHold, Hold, ThreadOK, Pins
  <2>3. ASSUME NEW o \in Obj
        PROVE  (Pinner(o)' <=> Pinner(o)) /\ (Counting(o)' <=> Counting(o))
    BY <1>7, <2>3, <1>0, ThreadAssumption DEF UnbindHold, Hold, Pinner,
       PinPcs, Counting, Holds, Holding,
       HoldPcs, Execs, Places, ThreadOK, ThreadInv
  <2> QED
    BY <2>1, <2>2, <2>3, PinsKept
<1>8. ASSUME NEW t \in Client, PinHold(t)
      PROVE  Pins'
  <2>0. PICK o \in Obj : o = th[t].obj
    BY <1>8, <1>0 DEF PinHold, Hold, ThreadInv, NoObjectPcs
  <2>1. \A u \in Client : th'[u].op \in ClientOps \cup {"none"}
    BY <1>8, <1>0 DEF PinHold, Hold, ThreadOK, Pins
  <2>2. ASSUME NEW p \in Obj, p # o
        PROVE  /\ (Pinner(p)' <=> Pinner(p)) /\ (Counting(p)' <=> Counting(p))
               /\ pin'[p] = pin[p] /\ upin'[p] = upin[p]
    BY <1>8, <2>0, <2>2, <1>0, ThreadAssumption DEF PinHold, Hold, Pinner,
       PinPcs, Counting,
       Holds, Holding, HoldPcs, Execs, Places, ThreadOK, ThreadInv
  <2>3. /\ pin[o] = ByUsers(o) + ByHolder(o)
        /\ Counting(o) => upin[o] = 1
        /\ upin[o] \in Nat
    BY <2>0, <1>0 DEF Pins
  <2>4. /\ Counting(o)' => upin'[o] = 1
        /\ pin'[o] = ByUsers(o)' + ByHolder(o)'
    <3>1. /\ held[o] = NoThread /\ held'[o] = t /\ pin' = pin
          /\ upin'[o] = upin[o] + 1 /\ th[t].op = "pin" /\ th'[t].op = "pin"
          /\ th'[t].pc = IF upin[o] = 0 THEN "bind" ELSE "flush"
      BY <1>8, <2>0, <1>0 DEF PinHold, Hold, ThreadOK
    <3>2. ~Pinner(o) /\ ~Counting(o)
      BY <3>1, ThreadAssumption DEF Pinner, Counting
    <3>3. ~Pinner(o)' /\ (Counting(o)' <=> upin[o] = 0)
      BY <3>1 DEF Pinner, Counting
    <3> QED
      BY <2>3, <3>1, <3>2, <3>3 DEF ByUsers, ByHolder
  <2>5. \A p \in Obj : (Counting(p)' => upin'[p] = 1) /\
                       pin'[p] = ByUsers(p)' + ByHolder(p)'
    BY <2>2, <2>4 DEF Pins, ByUsers, ByHolder
  <2> QED
    BY <2>1, <2>5 DEF Pins
<1>9. ASSUME NEW t \in Client, UnpinHold(t)
      PROVE  Pins'
  <2>0. PICK o \in Obj : o = th[t].obj
    BY <1>9, <1>0 DEF UnpinHold, Hold, ThreadInv, NoObjectPcs
  <2>1. \A u \in Client : th'[u].op \in ClientOps \cup {"none"}
    BY <1>9, <1>0 DEF UnpinHold, Hold, ThreadOK, Pins
  <2>2. ASSUME NEW p \in Obj, p # o
        PROVE  /\ (Pinner(p)' <=> Pinner(p)) /\ (Counting(p)' <=> Counting(p))
               /\ pin'[p] = pin[p] /\ upin'[p] = upin[p]
    BY <1>9, <2>0, <2>2, <1>0, ThreadAssumption DEF UnpinHold, Hold,
       UnpinObjects, Pinner, PinPcs, Counting,
       Holds, Holding, HoldPcs, Execs, Places, ThreadOK, ThreadInv
  <2>3. /\ pin[o] = ByUsers(o) + ByHolder(o)
        /\ Counting(o) => upin[o] = 1
        /\ upin[o] \in Nat
    BY <2>0, <1>0 DEF Pins
  <2>4. /\ Counting(o)' => upin'[o] = 1
        /\ pin'[o] = ByUsers(o)' + ByHolder(o)'
    <3>1. /\ held[o] = NoThread /\ held'[o] = t
          /\ upin'[o] = (IF upin[o] > 0 THEN upin[o] - 1 ELSE upin[o])
          /\ pin'[o] = (IF upin[o] = 1 THEN pin[o] - 1 ELSE pin[o])
          /\ th'[t].op = "unpin" /\ th'[t].pc = "out"
      BY <1>9, <2>0, <1>0 DEF UnpinHold, Hold, UnpinObjects, ThreadOK
    <3>2. ~Pinner(o) /\ ~Counting(o)
      BY <3>1, ThreadAssumption DEF Pinner, Counting
    <3>3. ~Pinner(o)' /\ ~Counting(o)'
      BY <3>1 DEF Pinner, Counting
    <3> QED
      BY <2>3, <3>1, <3>2, <3>3 DEF ByUsers, ByHolder
  <2>5. \A p \in Obj : (Counting(p)' => upin'[p] = 1) /\
                       pin'[p] = ByUsers(p)' + ByHolder(p)'
    BY <2>2, <2>4 DEF Pins, ByUsers, ByHolder
  <2> QED
    BY <2>1, <2>5 DEF Pins
<1>10. ASSUME NEW t \in Client, Bind(t)
      PROVE  Pins'
  <2>0. PICK o \in Obj : o = th[t].obj
    BY <1>10, <1>0 DEF Bind, ThreadInv, NoObjectPcs
  <2>1. \A u \in Client : th'[u].op \in ClientOps \cup {"none"}
    BY <1>10, <1>0 DEF Bind, ThreadOK, Pins
  <2>2. ASSUME NEW p \in Obj, p # o
        PROVE  /\ (Pinner(p)' <=> Pinner(p)) /\ (Counting(p)' <=> Counting(p))
               /\ pin'[p] = pin[p] /\ upin'[p] = upin[p]
    BY <1>10, <2>0, <2>2, <1>0, ThreadAssumption DEF Bind, PinObject, Pinner,
       PinPcs, Counting,
       Holds, Holding, HoldPcs, Execs, Places, ThreadOK, ThreadInv
  <2>3. /\ pin[o] = ByUsers(o) + ByHolder(o)
        /\ Counting(o) => upin[o] = 1
        /\ upin[o] \in Nat
    BY <2>0, <1>0 DEF Pins
  <2>4. /\ Counting(o)' => upin'[o] = 1
        /\ pin'[o] = ByUsers(o)' + ByHolder(o)'
    <3>0. held[o] = t /\ th[t].pc = "bind" /\ held' = held /\ upin' = upin
      BY <1>10, <2>0 DEF Bind, Holds, Holding, HoldPcs, Places
    <3>1. /\ ~Pinner(o) /\ (Counting(o) <=> th[t].op = "pin")
      BY <3>0 DEF Pinner, PinPcs, Counting, Places
    <3>2. CASE th' = [th EXCEPT ![t].pc = "out"] /\ pin' = pin /\ BindMayFail
      <4>1. th[t].op # "pin"
        BY <3>2, <1>0 DEF PinKept, Pins
      <4>2. ~Pinner(o)' /\ ~Counting(o)'
        BY <3>0, <3>1, <3>2, <4>1, <1>0 DEF Pinner, Counting, PinPcs, Places,
           ThreadOK
      <4> QED
        BY <2>3, <3>0, <3>1, <3>2, <4>1, <4>2 DEF ByUsers, ByHolder
    <3>3. CASE /\ th' = [th EXCEPT ![t].pc = "flush"]
               /\ th[t].op \in {"pread", "pwrite", "pin"}
               /\ pin'[o] = pin[o] + 1
      <4>1. ~Counting(o)' /\ (Pinner(o)' <=> th[t].op # "pin")
        BY <3>0, <3>3, <1>0 DEF Pinner, Counting, PinPcs, ThreadOK
      <4> QED
        BY <2>3, <3>0, <3>1, <3>3, <4>1 DEF ByUsers, ByHolder
    <3>4. CASE /\ th' = [th EXCEPT ![t].pc = "flush"]
               /\ th[t].op \notin {"pread", "pwrite", "pin"} /\ pin' = pin
      <4>1. ~Counting(o)' /\ ~Pinner(o)'
        BY <3>0, <3>1, <3>4, <1>0 DEF Pinner, Counting, PinPcs, Places,
           ThreadOK
      <4> QED
        BY <2>3, <3>0, <3>1, <3>4, <4>1 DEF ByUsers, ByHolder
    <3> QED
      BY <1>10, <2>0, <1>0, <3>2, <3>3, <3>4 DEF Bind, PinObject
  <2>5. \A p \in Obj : (Counting(p)' => upin'[p] = 1) /\
                       pin'[p] = ByUsers(p)' + ByHolder(p)'
    BY <2>2, <2>4 DEF Pins, ByUsers, ByHolder
  <2> QED
    BY <2>1, <2>5 DEF Pins
<1>11. ASSUME NEW t \in Client, Flush(t)
      PROVE  Pins'
  <2>1. UNCHANGED <<pin, upin>>
    BY <1>11 DEF Flush
  <2>2. \A u \in Client : th'[u].op \in ClientOps \cup {"none"}
    BY <1>11, <1>0, ThreadAssumption DEF Flush, ThreadOK, Pins
  <2>3. ASSUME NEW o \in Obj
        PROVE  (Pinner(o)' <=> Pinner(o)) /\ (Counting(o)' <=> Counting(o))
    BY <1>11, <2>3, <1>0, ThreadAssumption DEF Flush, Pinner, PinPcs,
       Counting, Holds, Holding,
       HoldPcs, Execs, Places, ThreadOK, ThreadInv
  <2> QED
    BY <2>1, <2>2, <2>3, PinsKept
<1>12. ASSUME NEW t \in Client, Wait(t)
      PROVE  Pins'
  <2>0. WaitTo(t) /\ held' = held
    BY <1>12, Moves DEF Wait
  <2>1. UNCHANGED <<pin, upin>>
    BY <1>12 DEF Wait
  <2>2. \A u \in Client : th'[u].op \in ClientOps \cup {"none"}
    BY <2>0, <1>0, ThreadAssumption DEF WaitTo, ErrorPc, ThreadOK, Pins
  <2>3. ASSUME NEW o \in Obj
        PROVE  (Pinner(o)' <=> Pinner(o)) /\ (Counting(o)' <=> Counting(o))
    BY <2>0, <2>3, <1>0, ThreadAssumption DEF WaitTo, ErrorPc, Pinner,
       PinPcs, Counting, Holds, Holding,
       HoldPcs, Execs, Places, ThreadOK, ThreadInv
  <2> QED
    BY <2>1, <2>2, <2>3, PinsKept
<1>13. ASSUME NEW t \in Client, Wake(t)
      PROVE  Pins'
  <2>0. WakeTo(t) /\ held' = held
    BY <1>13, Moves DEF Wake
  <2>1. UNCHANGED <<pin, upin>>
    BY <1>13 DEF Wake
  <2>2. \A u \in Client : th'[u].op \in ClientOps \cup {"none"}
    BY <2>0, <1>0, ThreadAssumption DEF WakeTo, ErrorPc, ThreadOK, Pins
  <2>3. ASSUME NEW o \in Obj
        PROVE  (Pinner(o)' <=> Pinner(o)) /\ (Counting(o)' <=> Counting(o))
    BY <2>0, <2>3, <1>0, ThreadAssumption DEF WakeTo, ErrorPc, Pinner,
       PinPcs, Counting, Holds, Holding,
       HoldPcs, Execs, Places, ThreadOK, ThreadInv
  <2> QED
    BY <2>1, <2>2, <2>3, PinsKept
<1>14. ASSUME NEW t \in Client, Interrupt(t)
      PROVE  Pins'
  <2>1. UNCHANGED <<pin, upin>>
    BY <1>14 DEF Interrupt
  <2>2. \A u \in Client : th'[u].op \in ClientOps \cup {"none"}
    BY <1>14, <1>0, ThreadAssumption DEF Interrupt, ErrorPc, ThreadOK, Pins
  <2>3. ASSUME NEW o \in Obj
        PROVE  (Pinner(o)' <=> Pinner(o)) /\ (Counting(o)' <=> Counting(o))
    BY <1>14, <2>3, <1>0, ThreadAssumption DEF Interrupt, ErrorPc, Pinner,
       PinPcs, Counting, Holds, Holding,
       HoldPcs, Execs, Places, ThreadOK, ThreadInv
  <2> QED
    BY <2>1, <2>2, <2>3, PinsKept
<1>15. ASSUME NEW t \in Client, Retire(t)
      PROVE  Pins'
  <2>1. UNCHANGED <<pin, upin>>
    BY <1>15 DEF Retire
  <2>2. \A u \in Client : th'[u].op \in ClientOps \cup {"none"}
    BY <1>15, <1>0, ThreadAssumption DEF Retire, ThreadOK, Pins
  <2>3. ASSUME NEW o \in Obj
        PROVE  (Pinner(o)' <=> Pinner(o)) /\ (Counting(o)' <=> Counting(o))
    BY <1>15, <2>3, <1>0, ThreadAssumption DEF Retire, Pinner, PinPcs,
       Counting, Holds, Holding,
       HoldPcs, Execs, Places, ThreadOK, ThreadInv
  <2> QED
    BY <2>1, <2>2, <2>3, PinsKept
<1>16. ASSUME NEW t \in Client, RetireEnd(t)
      PROVE  Pins'
  <2>1. UNCHANGED <<pin, upin>>
    BY <1>16 DEF RetireEnd
  <2>2. \A u \in Client : th'[u].op \in ClientOps \cup {"none"}
    BY <1>16, <1>0, ThreadAssumption DEF RetireEnd, ThreadOK, Pins
  <2>3. ASSUME NEW o \in Obj
        PROVE  (Pinner(o)' <=> Pinner(o)) /\ (Counting(o)' <=> Counting(o))
    BY <1>16, <2>3, <1>0, ThreadAssumption DEF RetireEnd, Pinner, PinPcs,
       Counting, Holds, Holding,
       HoldPcs, Execs, Places, ThreadOK, ThreadInv
  <2> QED
    BY <2>1, <2>2, <2>3, PinsKept
<1>17. ASSUME NEW t \in Client, GttDomain(t)
      PROVE  Pins'
  <2>1. UNCHANGED <<pin, upin>>
    BY <1>17 DEF GttDomain
  <2>2. \A u \in Client : th'[u].op \in ClientOps \cup {"none"}
    BY <1>17, <1>0, ThreadAssumption DEF GttDomain, ReadLockOps, ExecOps,
       ThreadOK, Pins
  <2>3. ASSUME NEW o \in Obj
        PROVE  (Pinner(o)' <=> Pinner(o)) /\ (Counting(o)' <=> Counting(o))
    BY <1>17, <2>3, <1>0, ThreadAssumption DEF GttDomain, ReadLockOps,
       ExecOps, Pinner, PinPcs, Counting, Holds, Holding,
       HoldPcs, Execs, Places, ThreadOK, ThreadInv
  <2> QED
    BY <2>1, <2>2, <2>3, PinsKept
<1>18. ASSUME NEW t \in Client, Unbind(t)
      PROVE  Pins'
  <2>1. UNCHANGED <<pin, upin>>
    BY <1>18 DEF Unbind, UnbindObject
  <2>2. \A u \in Client : th'[u].op \in ClientOps \cup {"none"}
    BY <1>18, <1>0, ThreadAssumption DEF Unbind, ThreadOK, Pins
  <2>3. ASSUME NEW o \in Obj
        PROVE  (Pinner(o)' <=> Pinner(o)) /\ (Counting(o)' <=> Counting(o))
    BY <1>18, <2>3, <1>0, ThreadAssumption DEF Unbind, Pinner, PinPcs,
       Counting, Holds, Holding,
       HoldPcs, Execs, Places, ThreadOK, ThreadInv
  <2> QED
    BY <2>1, <2>2, <2>3, PinsKept
<1>19. ASSUME NEW t \in Client, Unpin(t)
      PROVE  Pins'
  <2>0. PICK o \in Obj : o = th[t].obj
    BY <1>19, <1>0 DEF Unpin, ThreadInv, NoObjectPcs
  <2>1. \A u \in Client : th'[u].op \in ClientOps \cup {"none"}
    BY <1>19, <1>0 DEF Unpin, ThreadOK, Pins
  <2>2. ASSUME NEW p \in Obj, p # o
        PROVE  /\ (Pinner(p)' <=> Pinner(p)) /\ (Counting(p)' <=> Counting(p))
               /\ pin'[p] = pin[p] /\ upin'[p] = upin[p]
    BY <1>19, <2>0, <2>2, <1>0, ThreadAssumption DEF Unpin, UnpinObjects,
       Pinner, PinPcs, Counting,
       Holds, Holding, HoldPcs, Execs, Places, ThreadOK, ThreadInv
  <2>3. /\ pin[o] = ByUsers(o) + ByHolder(o)
        /\ Counting(o) => upin[o] = 1
        /\ upin[o] \in Nat
    BY <2>0, <1>0 DEF Pins
  <2>4. /\ Counting(o)' => upin'[o] = 1
        /\ pin'[o] = ByUsers(o)' + ByHolder(o)'
    <3>1. /\ held[o] = t /\ held' = held /\ upin' = upin
          /\ pin'[o] = pin[o] - 1
          /\ th[t].op \in {"pread", "pwrite"}
          /\ th[t].pc \in {"unpin", "access"}
          /\ th' = [th EXCEPT ![t].pc = "out"]
      BY <1>19, <2>0 DEF Unpin, UnpinObjects, Holds, Holding, HoldPcs, Places
    <3>2. Pinner(o) /\ ~Counting(o) /\ ~Pinner(o)' /\ ~Counting(o)'
      BY <3>1, <1>0 DEF Pinner, PinPcs, Counting, ThreadOK
    <3> QED
      BY <2>3, <3>1, <3>2 DEF ByUsers, ByHolder
  <2>5. \A p \in Obj : (Counting(p)' => upin'[p] = 1) /\
                       pin'[p] = ByUsers(p)' + ByHolder(p)'
    BY <2>2, <2>4 DEF Pins, ByUsers, ByHolder
  <2> QED
    BY <2>1, <2>5 DEF Pins
<1>20. ASSUME NEW t \in Client, Return(t)
      PROVE  Pins'
  <2>1. UNCHANGED <<pin, upin>>
    BY <1>20 DEF Return
  <2>2. \A u \in Client : th'[u].op \in ClientOps \cup {"none"}
    BY <1>20, <1>0, ThreadAssumption DEF Return, ThreadOK, Pins
  <2>3. ASSUME NEW o \in Obj
        PROVE  (Pinner(o)' <=> Pinner(o)) /\ (Counting(o)' <=> Counting(o))
    BY <1>20, <2>3, <1>0, ThreadAssumption DEF Return, Pinner, PinPcs,
       Counting, Holds, Holding,
       HoldPcs, Execs, Places, ThreadOK, ThreadInv
  <2> QED
    BY <2>1, <2>2, <2>3, PinsKept
<1>21. ASSUME NEW t \in Client, Busy(t)
      PROVE  Pins'
  <2>1. UNCHANGED <<pin, upin>>
    BY <1>21 DEF Busy
  <2>2. \A u \in Client : th'[u].op \in ClientOps \cup {"none"}
    BY <1>21, <1>0, ThreadAssumption DEF Busy, ThreadOK, Pins
  <2>3. ASSUME NEW o \in Obj
        PROVE  (Pinner(o)' <=> Pinner(o)) /\ (Counting(o)' <=> Counting(o))
    BY <1>21, <2>3, <1>0, ThreadAssumption DEF Busy, Pinner, PinPcs,
       Counting, Holds, Holding,
       HoldPcs, Execs, Places, ThreadOK, ThreadInv
  <2> QED
    BY <2>1, <2>2, <2>3, PinsKept
<1>22. ASSUME NEW t \in Client, \E o \in Obj : ExecPin(t, o)
      PROVE  Pins'
  <2>1. PICK o \in Obj : ExecPin(t, o)
    BY <1>22
  <2>2. ExecPinTo(t, o) /\ upin' = upin /\ held[o] = NoThread
    BY <2>1, Moves DEF ExecPin
  <2>3. /\ th[t].op = "exec"
        /\ (\A u \in Client : th'[u].op = th[u].op /\ (u # t => th'[u] = th[u]))
    BY <2>2, <1>0 DEF ExecPinTo, Places, ThreadOK
  <2>4. CASE UNCHANGED <<held, pin>>
    <3>1. ASSUME NEW p \in Obj
          PROVE  (Pinner(p)' <=> Pinner(p)) /\ (Counting(p)' <=> Counting(p))
      BY <2>3, <2>4 DEF Pinner, Counting
    <3> QED
      BY <2>2, <2>3, <2>4, <3>1, PinsKept DEF Pins
  <2>5. CASE /\ held' = [held EXCEPT ![o] = t]
             /\ pin' = [pin EXCEPT ![o] = pin[o] + 1]
    <3>1. ASSUME NEW p \in Obj, p # o
          PROVE  /\ (Pinner(p)' <=> Pinner(p))
                 /\ (Counting(p)' <=> Counting(p)) /\ pin'[p] = pin[p]
      BY <2>3, <2>5, <3>1, <1>0 DEF Pinner, Counting
    <3>2. ~Pinner(o) /\ ~Counting(o) /\ Pinner(o)' /\ ~Counting(o)'
      BY <2>2, <2>3, <2>5, <1>0, ThreadAssumption DEF Pinner, Counting
    <3>3. pin'[o] = pin[o] + 1 /\ pin[o] = ByUsers(o) + ByHolder(o)
      BY <2>1, <2>5, <1>0 DEF Pins
    <3>4. pin'[o] = ByUsers(o)' + ByHolder(o)'
      BY <2>2, <3>2, <3>3 DEF ByUsers, ByHolder
    <3> QED
      BY <2>2, <2>3, <3>1, <3>2, <3>4, <1>0 DEF Pins, ByUsers, ByHolder
  <2> QED
    <3>1. CASE PinObject(o) /\ held' = [held EXCEPT ![o] = t]
      BY <2>5, <3>1 DEF PinObject
    <3> QED
      BY <2>1, <2>4, <3>1 DEF ExecPin
<1>23. ASSUME NEW t \in Client, ExecRelocError(t)
      PROVE  Pins'
  <2>0. PICK o \in Obj : o = th[t].obj
    BY <1>23, <1>0 DEF ExecRelocError, ThreadInv, NoObjectPcs
  <2>1. \A u \in Client : th'[u].op \in ClientOps \cup {"none"}
    BY <1>23, <1>0 DEF ExecRelocError, ThreadOK, Pins
  <2>2. ASSUME NEW p \in Obj, p # o
        PROVE  /\ (Pinner(p)' <=> Pinner(p)) /\ (Counting(p)' <=> Counting(p))
               /\ pin'[p] = pin[p] /\ upin'[p] = upin[p]
    BY <1>23, <2>0, <2>2, <1>0, ThreadAssumption DEF ExecRelocError,
       UnpinObjects, Pinner, PinPcs, Counting,
       Holds, Holding, HoldPcs, Execs, Places, ThreadOK, ThreadInv
  <2>3. /\ pin[o] = ByUsers(o) + ByHolder(o)
        /\ Counting(o) => upin[o] = 1
        /\ upin[o] \in Nat
    BY <2>0, <1>0 DEF Pins
  <2>4. /\ Counting(o)' => upin'[o] = 1
        /\ pin'[o] = ByUsers(o)' + ByHolder(o)'
    <3>1. /\ held[o] = t /\ held'[o] = NoThread /\ upin' = upin
          /\ pin'[o] = pin[o] - 1
          /\ th[t].op = "exec"
      BY <1>23, <2>0, <1>0 DEF ExecRelocError, UnpinObjects, Holds, Holding,
         HoldPcs, Places
    <3>2. Pinner(o) /\ ~Counting(o) /\ ~Pinner(o)' /\ ~Counting(o)'
      BY <3>1, ThreadAssumption DEF Pinner, Counting
    <3> QED
      BY <2>3, <3>1, <3>2 DEF ByUsers, ByHolder
  <2>5. \A p \in Obj : (Counting(p)' => upin'[p] = 1) /\
                       pin'[p] = ByUsers(p)' + ByHolder(p)'
    BY <2>2, <2>4 DEF Pins, ByUsers, ByHolder
  <2> QED
    BY <2>1, <2>5 DEF Pins
<1>24. ASSUME NEW t \in Client, ExecFlush(t)
      PROVE  Pins'
  <2>1. UNCHANGED <<pin, upin>>
    BY <1>24 DEF ExecFlush
  <2>2. \A u \in Client : th'[u].op \in ClientOps \cup {"none"}
    BY <1>24, <1>0, ThreadAssumption DEF ExecFlush, ThreadOK, Pins
  <2>3. ASSUME NEW o \in Obj
        PROVE  (Pinner(o)' <=> Pinner(o)) /\ (Counting(o)' <=> Counting(o))
    BY <1>24, <2>3, <1>0, ThreadAssumption DEF ExecFlush, Pinner, PinPcs,
       Counting, Holds, Holding,
       HoldPcs, Execs, Places, ThreadOK, ThreadInv
  <2> QED
    BY <2>1, <2>2, <2>3, PinsKept
<1>25. ASSUME NEW t \in Client, ExecDispatch(t)
      PROVE  Pins'
  <2>1. UNCHANGED <<pin, upin>>
    BY <1>25 DEF ExecDispatch
  <2>2. \A u \in Client : th'[u].op \in ClientOps \cup {"none"}
    BY <1>25, <1>0, ThreadAssumption DEF ExecDispatch, ThreadOK, Pins
  <2>3. ASSUME NEW o \in Obj
        PROVE  (Pinner(o)' <=> Pinner(o)) /\ (Counting(o)' <=> Counting(o))
    BY <1>25, <2>3, <1>0, ThreadAssumption DEF ExecDispatch, Pinner, PinPcs,
       Counting, Holds, Holding,
       HoldPcs, Execs, Places, ThreadOK, ThreadInv
  <2> QED
    BY <2>1, <2>2, <2>3, PinsKept
<1>26. ASSUME NEW t \in Client, ExecExit(t)
      PROVE  Pins'
  <2>1. /\ th[t].pc = "exec_err" /\ upin' = upin
        /\ th' = [th EXCEPT ![t] = Idle]
        /\ \A p \in Obj :
             /\ pin'[p] = IF held[p] = t THEN pin[p] - 1 ELSE pin[p]
             /\ held'[p] = IF held[p] = t THEN NoThread ELSE held[p]
    BY <1>26 DEF ExecExit, UnpinObjects
  <2>2. th[t].op = "exec"
    BY <2>1 DEF Places
  <2>3. \A u \in Client : th'[u].op \in ClientOps \cup {"none"}
    BY <2>1, <1>0 DEF ThreadOK, Pins
  <2>4. ASSUME NEW p \in Obj
        PROVE  /\ Counting(p)' => upin[p] = 1
               /\ pin'[p] = ByUsers(p)' + ByHolder(p)'
    <3>0. pin[p] = ByUsers(p) + ByHolder(p)
      BY DEF Pins
    <3>1. CASE held[p] = t
      <4>1. Pinner(p) /\ ~Counting(p) /\ ~Pinner(p)' /\ ~Counting(p)'
        BY <2>1, <2>2, <3>1, ThreadAssumption DEF Pinner, Counting
      <4> QED
        BY <2>1, <3>0, <3>1, <4>1 DEF ByUsers, ByHolder
    <3>2. CASE held[p] # t
      <4>1. (Pinner(p)' <=> Pinner(p)) /\ (Counting(p)' <=> Counting(p))
        BY <2>1, <3>2, <1>0 DEF Pinner, Counting, ThreadOK
      <4> QED
        BY <2>1, <3>0, <3>2, <4>1 DEF Pins, ByUsers, ByHolder
    <3> QED
      BY <3>1, <3>2
  <2> QED
    BY <2>1, <2>3, <2>4 DEF Pins
<1>27. CASE \E task \in {"retire", "hung"} : RunTask(task)
  <2>1. UNCHANGED <<pin, upin>>
    BY <1>27 DEF RunTask
  <2>2. \A u \in Client : th'[u].op \in ClientOps \cup {"none"}
    BY <1>27, <1>0, ThreadAssumption DEF RunTask, ThreadOK, Pins
  <2>3. ASSUME NEW o \in Obj
        PROVE  (Pinner(o)' <=> Pinner(o)) /\ (Counting(o)' <=> Counting(o))
    BY <1>27, <2>3, <1>0, ThreadAssumption DEF RunTask, Pinner, PinPcs,
       Counting, Holds, Holding,
       HoldPcs, Execs, Places, ThreadOK, ThreadInv
  <2> QED
    BY <2>1, <2>2, <2>3, PinsKept
<1>28. CASE WriteLock(Worker)
  <2>1. UNCHANGED <<pin, upin>>
    BY <1>28 DEF WriteLock
  <2>2. \A u \in Client : th'[u].op \in ClientOps \cup {"none"}
    BY <1>28, <1>0, ThreadAssumption DEF WriteLock, ThreadOK, Pins
  <2>3. ASSUME NEW o \in Obj
        PROVE  (Pinner(o)' <=> Pinner(o)) /\ (Counting(o)' <=> Counting(o))
    BY <1>28, <2>3, <1>0, ThreadAssumption DEF WriteLock, Pinner, PinPcs,
       Counting, Holds, Holding,
       HoldPcs, Execs, Places, ThreadOK, ThreadInv
  <2> QED
    BY <2>1, <2>2, <2>3, PinsKept
<1>29. CASE Retire(Worker)
  <2>1. UNCHANGED <<pin, upin>>
    BY <1>29 DEF Retire
  <2>2. \A u \in Client : th'[u].op \in ClientOps \cup {"none"}
    BY <1>29, <1>0, ThreadAssumption DEF Retire, ThreadOK, Pins
  <2>3. ASSUME NEW o \in Obj
        PROVE  (Pinner(o)' <=> Pinner(o)) /\ (Counting(o)' <=> Counting(o))
    BY <1>29, <2>3, <1>0, ThreadAssumption DEF Retire, Pinner, PinPcs,
       Counting, Holds, Holding,
       HoldPcs, Execs, Places, ThreadOK, ThreadInv
  <2> QED
    BY <2>1, <2>2, <2>3, PinsKept
<1>30. CASE RetireEnd(Worker)
  <2>1. UNCHANGED <<pin, upin>>
    BY <1>30 DEF RetireEnd
  <2>2. \A u \in Client : th'[u].op \in ClientOps \cup {"none"}
    BY <1>30, <1>0, ThreadAssumption DEF RetireEnd, ThreadOK, Pins
  <2>3. ASSUME NEW o \in Obj
        PROVE  (Pinner(o)' <=> Pinner(o)) /\ (Counting(o)' <=> Counting(o))
    BY <1>30, <2>3, <1>0, ThreadAssumption DEF RetireEnd, Pinner, PinPcs,
       Counting, Holds, Holding,
       HoldPcs, Execs, Places, ThreadOK, ThreadInv
  <2> QED
    BY <2>1, <2>2, <2>3, PinsKept
<1>31. CASE HungReset
  <2>1. UNCHANGED <<pin, upin>>
    BY <1>31 DEF HungReset
  <2>2. \A u \in Client : th'[u].op \in ClientOps \cup {"none"}
    BY <1>31, <1>0, ThreadAssumption DEF HungReset, ThreadOK, Pins
  <2>3. ASSUME NEW o \in Obj
        PROVE  (Pinner(o)' <=> Pinner(o)) /\ (Counting(o)' <=> Counting(o))
    BY <1>31, <2>3, <1>0, ThreadAssumption DEF HungReset, Pinner, PinPcs,
       Counting, Holds, Holding,
       HoldPcs, Execs, Places, ThreadOK, ThreadInv
  <2> QED
    BY <2>1, <2>2, <2>3, PinsKept
<1>32. CASE HungRelock
  <2>1. UNCHANGED <<pin, upin>>
    BY <1>32 DEF HungRelock
  <2>2. \A u \in Client : th'[u].op \in ClientOps \cup {"none"}
    BY <1>32, <1>0, ThreadAssumption DEF HungRelock, ThreadOK, Pins
  <2>3. ASSUME NEW o \in Obj
        PROVE  (Pinner(o)' <=> Pinner(o)) /\ (Counting(o)' <=> Counting(o))
    BY <1>32, <2>3, <1>0, ThreadAssumption DEF HungRelock, Pinner, PinPcs,
       Counting, Holds, Holding,
       HoldPcs, Execs, Places, ThreadOK, ThreadInv
  <2> QED
    BY <2>1, <2>2, <2>3, PinsKept
<1>33. CASE HungClear
  <2>1. UNCHANGED <<pin, upin>>
    BY <1>33 DEF HungClear
  <2>2. \A u \in Client : th'[u].op \in ClientOps \cup {"none"}
    BY <1>33, <1>0, ThreadAssumption DEF HungClear, ThreadOK, Pins
  <2>3. ASSUME NEW o \in Obj
        PROVE  (Pinner(o)' <=> Pinner(o)) /\ (Counting(o)' <=> Counting(o))
    BY <1>33, <2>3, <1>0, ThreadAssumption DEF HungClear, Pinner, PinPcs,
       Counting, Holds, Holding,
       HoldPcs, Execs, Places, ThreadOK, ThreadInv
  <2> QED
    BY <2>1, <2>2, <2>3, PinsKept
<1>34. CASE \E o \in Obj : HungEvict(o)
  <2>1. UNCHANGED <<pin, upin, held, th>>
    BY <1>34 DEF HungEvict, UnbindObject
  <2> QED
    BY <2>1 DEF Pins, Pinner, Counting, ByUsers, ByHolder
<1>35. CASE HungEnd
  <2>1. UNCHANGED <<pin, upin>>
    BY <1>35 DEF HungEnd
  <2>2. \A u \in Client : th'[u].op \in ClientOps \cup {"none"}
    BY <1>35, <1>0, ThreadAssumption DEF HungEnd, ThreadOK, Pins
  <2>3. ASSUME NEW o \in Obj
        PROVE  (Pinner(o)' <=> Pinner(o)) /\ (Counting(o)' <=> Counting(o))
    BY <1>35, <2>3, <1>0, ThreadAssumption DEF HungEnd, Pinner, PinPcs,
       Counting, Holds, Holding,
       HoldPcs, Execs, Places, ThreadOK, ThreadInv
  <2> QED
    BY <2>1, <2>2, <2>3, PinsKept
<1>36. CASE GpuProgress
  <2>1. UNCHANGED <<pin, upin>>
    BY <1>36 DEF GpuProgress
  <2>2. \A u \in Client : th'[u].op \in ClientOps \cup {"none"}
    BY <1>36, <1>0, ThreadAssumption DEF GpuProgress, ThreadOK, Pins
  <2>3. ASSUME NEW o \in Obj
        PROVE  (Pinner(o)' <=> Pinner(o)) /\ (Counting(o)' <=> Counting(o))
    BY <1>36, <2>3, <1>0, ThreadAssumption DEF GpuProgress, Pinner, PinPcs,
       Counting, Holds, Holding,
       HoldPcs, Execs, Places, ThreadOK, ThreadInv
  <2> QED
    BY <2>1, <2>2, <2>3, PinsKept
<1>37. CASE RetireTimeout
  <2>1. UNCHANGED <<pin, upin>>
    BY <1>37 DEF RetireTimeout
  <2>2. \A u \in Client : th'[u].op \in ClientOps \cup {"none"}
    BY <1>37, <1>0, ThreadAssumption DEF RetireTimeout, ThreadOK, Pins
  <2>3. ASSUME NEW o \in Obj
        PROVE  (Pinner(o)' <=> Pinner(o)) /\ (Counting(o)' <=> Counting(o))
    BY <1>37, <2>3, <1>0, ThreadAssumption DEF RetireTimeout, Pinner, PinPcs,
       Counting, Holds, Holding,
       HoldPcs, Execs, Places, ThreadOK, ThreadInv
  <2> QED
    BY <2>1, <2>2, <2>3, PinsKept
<1>38. CASE HangCheck
  <2>1. UNCHANGED <<pin, upin>>
    BY <1>38 DEF HangCheck
  <2>2. \A u \in Client : th'[u].op \in ClientOps \cup {"none"}
    BY <1>38, <1>0, ThreadAssumption DEF HangCheck, ThreadOK, Pins
  <2>3. ASSUME NEW o \in Obj
        PROVE  (Pinner(o)' <=> Pinner(o)) /\ (Counting(o)' <=> Counting(o))
    BY <1>38, <2>3, <1>0, ThreadAssumption DEF HangCheck, Pinner, PinPcs,
       Counting, Holds, Holding,
       HoldPcs, Execs, Places, ThreadOK, ThreadInv
  <2> QED
    BY <2>1, <2>2, <2>3, PinsKept
<1>39. CASE UNCHANGED vars
  <2>1. UNCHANGED <<pin, upin>>
    BY <1>39 DEF vars
  <2>2. \A u \in Client : th'[u].op \in ClientOps \cup {"none"}
    BY <1>39, <1>0, ThreadAssumption DEF vars, ThreadOK, Pins
  <2>3. ASSUME NEW o \in Obj
        PROVE  (Pinner(o)' <=> Pinner(o)) /\ (Counting(o)' <=> Counting(o))
    BY <1>39, <2>3, <1>0, ThreadAssumption DEF vars, Pinner, PinPcs,
       Counting, Holds, Holding,
       HoldPcs, Execs, Places, ThreadOK, ThreadInv
  <2> QED
    BY <2>1, <2>2, <2>3, PinsKept
<1> QED
  BY <1>1, <1>2, <1>3, <1>4, <1>5, <1>6, <1>7, <1>8, <1>9, <1>10, <1>11,
     <1>12, <1>13, <1>14, <1>15, <1>16, <1>17, <1>18, <1>19, <1>20, <1>21,
     <1>22, <1>23, <1>24, <1>25, <1>26, <1>27, <1>28, <1>29, <1>30, <1>31,
     <1>32, <1>33, <1>34, <1>35, <1>36, <1>37, <1>38, <1>39 DEF Next,
     Continue, Work

\* The pin counts are exact in every state while no bind of the pin ioctl fails.
LEMMA PinsHold ==
  ASSUME GpuAccesses, PinKept
  PROVE  Spec => [](TypeInv /\ SafeInv /\ Pins)
<1>1. Init => Pins
  BY ThreadAssumption DEF Init, Pins, Pinner, Counting, ByUsers, ByHolder
<1>2. TypeInv /\ SafeInv /\ Pins /\ [Next]_vars => Pins'
  BY PinsStep DEF SafeInv
<1> QED
  BY <1>1, <1>2, Safe, PTL DEF Spec

\* While no bind of the pin ioctl fails, the lists are what their comments and
\* inteldrm_verify_inactive promise.
THEOREM ListsAgree ==
  ASSUME GpuAccesses, PinKept
  PROVE  Spec => []ListsConsistent
<1>1. TypeInv /\ SafeInv /\ Pins => ListsConsistent
  <2>1. SUFFICES ASSUME TypeInv, SafeInv, Pins, NEW o \in Obj
        PROVE  /\ o \in active <=> list[o] \in {"active", "flushing"}
               /\ o \in gpuWrite <=> o \in active /\ wd[o] \in GpuDomain
               /\ list[o] # "none" \/ pin[o] > 0 => o \in bound
               /\ list[o] = "flushing" => lrs[o] = 0 /\ wd[o] \in GpuDomain
               /\ list[o] = "inactive" =>
                    lrs[o] = 0 /\ pin[o] = 0 /\ wd[o] \notin GpuDomain
    BY DEF ListsConsistent
  <2>2. pin[o] >= 0 /\ pin[o] \in Int
    BY <2>1 DEF Pins, ByUsers, ByHolder
  <2>3. Lists
    BY <2>1 DEF SafeInv
  <2>4. list[o] = "inactive" => lrs[o] = 0 /\ pin[o] = 0
    BY <2>2, <2>3 DEF Lists
  <2> QED
    BY <2>3, <2>4 DEF Lists, GpuWritten
<1> QED
  BY <1>1, PinsHold, PTL

\* An object a user has pinned is pinned, unless a bind of the pin ioctl fails.
THEOREM UsersPinsHold ==
  ASSUME GpuAccesses, PinKept
  PROVE  Spec => []UserPinIsPin
<1>1. TypeInv /\ SafeInv /\ Pins => UserPinIsPin
  <2>1. SUFFICES ASSUME TypeInv, Pins,
                        NEW o \in Obj, held[o] = NoThread, upin[o] > 0
        PROVE  pin[o] > 0
    BY DEF UserPinIsPin
  <2>2. ~Pinner(o) /\ ~Counting(o)
    BY <2>1, ThreadAssumption DEF Pinner, Counting
  <2> QED
    BY <2>1, <2>2 DEF Pins, ByUsers, ByHolder
<1> QED
  BY <1>1, PinsHold, PTL

-----------------------------------------------------------------------------
(* Who sleeps.                                                             *)

\* The store of every seqno handed out is in the ring until it is executed.
Stored == \A s \in Nat : hwSeqno < s /\ s < nextSeqno => s \in ring

\* Clients sleep on seqnos handed out; while the GPU does not hang, nothing
\* throws their stores away.
Sleepers ==
    /\ \A o \in Obj : lws[o] <= nextSeqno
    /\ \A t \in Client : th[t].pc = "sleep" => th[t].seq < nextSeqno
    /\ ~CanHang => /\ ~wedged /\ "hung" \notin workq
                   /\ th[Worker].op # "hung"
                   /\ Stored

\* Who sleeps after a step has slept before, or on a seqno handed out.
Sleep(u) ==
    th'[u].pc = "sleep" =>
       \/ th[u].pc = "sleep" /\ th'[u].seq = th[u].seq
       \/ th'[u].seq < nextSeqno'

\* A seqno is handed out and its store queued, or neither.
Handed ==
    \/ nextSeqno' = nextSeqno + 1 /\ ring' = ring \cup {nextSeqno}
    \/ UNCHANGED <<nextSeqno, ring>>

\* A step that neither executes stores nor has to do with a hang.
Quiet ==
    /\ hwSeqno' = hwSeqno /\ Handed
    /\ \A o \in Obj : lws'[o] \in {lws[o], nextSeqno, 0}
    /\ \A u \in Client : Sleep(u)
    /\ wedged' = wedged /\ ("hung" \in workq' => "hung" \in workq)
    /\ th'[Worker].op \in {th[Worker].op, "none"}

\* Such a step leaves the sleepers where they are.
LEMMA QuietKept ==
  ASSUME TypeInv, Sleepers, Quiet
  PROVE  Sleepers'
<1>0. DataOK /\ ThreadOK
  BY DEF TypeInv, TypeOK
<1>1. /\ nextSeqno \in Nat /\ nextSeqno' \in {nextSeqno, nextSeqno + 1}
      /\ nextSeqno > 0
  BY <1>0 DEF Quiet, Handed, DataOK
<1>2. \A o \in Obj : lws'[o] <= nextSeqno'
  <2> TAKE o \in Obj
  <2>1. lws[o] \in Nat /\ lws[o] <= nextSeqno
    BY <1>0 DEF DataOK, Sleepers
  <2>2. lws'[o] \in {lws[o], nextSeqno, 0}
    BY DEF Quiet
  <2> QED
    BY <1>1, <2>1, <2>2
<1>3. ASSUME NEW u \in Client, th'[u].pc = "sleep"
      PROVE  th'[u].seq < nextSeqno'
  <2>1. CASE th[u].pc = "sleep" /\ th'[u].seq = th[u].seq
    <3>1. th[u].seq \in Nat /\ th[u].seq < nextSeqno
      BY <1>0, <2>1 DEF ThreadOK, Sleepers
    <3> QED
      BY <1>1, <2>1, <3>1
  <2> QED
    BY <1>3, <2>1 DEF Quiet, Sleep
<1>4. ASSUME ~CanHang
      PROVE  ~wedged' /\ "hung" \notin workq' /\ th'[Worker].op # "hung"
  BY <1>4 DEF Quiet, Sleepers
<1>5. ASSUME ~CanHang PROVE Stored'
  <2>1. Stored /\ hwSeqno' = hwSeqno
    BY <1>5 DEF Quiet, Sleepers
  <2>2. CASE UNCHANGED <<nextSeqno, ring>>
    BY <2>1, <2>2 DEF Stored
  <2>3. CASE nextSeqno' = nextSeqno + 1 /\ ring' = ring \cup {nextSeqno}
    <3>1. ASSUME NEW s \in Nat, s < nextSeqno + 1
          PROVE  s < nextSeqno \/ s = nextSeqno
      BY <1>1, <3>1
    <3> QED
      BY <2>1, <2>3, <3>1 DEF Stored
  <2> QED
    BY <2>2, <2>3 DEF Quiet, Handed
<1> QED
  BY <1>2, <1>3, <1>4, <1>5 DEF Sleepers

\* No step sends anybody to sleep on a seqno that is not handed out.
LEMMA SleepersStep ==
  ASSUME TypeInv, WorkerPlaces, Seqnos, Lists, Sleepers, [Next]_vars
  PROVE  Sleepers'
<1>0. /\ DataOK /\ ThreadOK /\ ThreadInv /\ WorkerPlaces /\ Seqnos
      /\ Worker \notin Client
  BY ThreadAssumption DEF TypeInv, TypeOK
<1> USE DEF DataOK, ThreadOK, ThreadInv, WorkerPlaces
<1>1. ASSUME NEW t \in Client, \E op \in ClientOps, o \in Obj : Call(t, op, o)
      PROVE  Quiet
  BY <1>1, <1>0 DEF Call, Quiet, Sleep, Handed
<1>2. ASSUME NEW t \in Client, ReadLock(t)
      PROVE  Quiet
  BY <1>2, <1>0 DEF ReadLock, Quiet, Sleep, Handed
<1>3. ASSUME NEW t \in Client, WriteLock(t)
      PROVE  Quiet
  BY <1>3, <1>0 DEF WriteLock, Quiet, Sleep, Handed
<1>4. ASSUME NEW t \in Client, ExecLockAny(t)
      PROVE  Quiet
  BY <1>4, <1>0 DEF ExecLockAny, ExecLock, Quiet, Sleep, Handed
<1>5. ASSUME NEW t \in Client, AccessHold(t)
      PROVE  Quiet
  BY <1>5, <1>0 DEF AccessHold, Hold, Quiet, Sleep, Handed
<1>6. ASSUME NEW t \in Client, SetDomainHold(t)
      PROVE  Quiet
  BY <1>6, <1>0 DEF SetDomainHold, Hold, Quiet, Sleep, Handed
<1>7. ASSUME NEW t \in Client, UnbindHold(t)
      PROVE  Quiet
  BY <1>7, <1>0 DEF UnbindHold, Hold, Quiet, Sleep, Handed
<1>8. ASSUME NEW t \in Client, PinHold(t)
      PROVE  Quiet
  BY <1>8, <1>0 DEF PinHold, Hold, Quiet, Sleep, Handed
<1>9. ASSUME NEW t \in Client, UnpinHold(t)
      PROVE  Quiet
  BY <1>9, <1>0 DEF UnpinHold, Hold, UnpinObjects, Quiet, Sleep, Handed
<1>10. ASSUME NEW t \in Client, Bind(t)
      PROVE  Quiet
  BY <1>10, <1>0 DEF Bind, Quiet, Sleep, Handed
<1>11. ASSUME NEW t \in Client, Flush(t)
      PROVE  Quiet
  <2>1. PICK ok \in BOOLEAN : GemFlush({wd[th[t].obj]}, ok)
    BY <1>11 DEF Flush, AllocOutcome
  <2>2. Handed
    BY <2>1, GemFlushEffect DEF FlushEffect, NewRequest, Handed
  <2>3. \A o \in Obj : lws'[o] \in {lws[o], nextSeqno}
    BY <2>1 DEF GemFlush, MoveToActive
  <2>4. /\ UNCHANGED <<hwSeqno, workVars>>
        /\ \A u \in Client : Sleep(u)
        /\ th'[Worker].op = th[Worker].op
    BY <1>11 DEF Flush, Sleep
  <2> QED
    BY <2>2, <2>3, <2>4 DEF Quiet
<1>12. ASSUME NEW t \in Client, Wait(t)
      PROVE  Quiet
  <2>1. Handed
    BY <1>12, AddRequestEffect DEF Wait, NewRequest, Handed
  <2>2. UNCHANGED <<hwSeqno, lws, workVars>> /\ WaitTo(t)
    BY <1>12, Moves DEF Wait
  <2>3. /\ \A u \in Client : u # t => Sleep(u)
        /\ th'[Worker].op = th[Worker].op
    BY <2>2, <1>0 DEF WaitTo, Sleep
  <2>4. Sleep(t)
    <3>1. SUFFICES ASSUME th'[t].pc = "sleep"
                   PROVE  th'[t].seq < nextSeqno'
      BY DEF Sleep
    <3>2. /\ WaitSeqno(t) \in Nat /\ WaitSeqno(t) <= nextSeqno
          /\ nextSeqno \in Nat
      <4>1. th[t].obj \in Obj
        BY <1>0, <1>12 DEF Wait, NoObjectPcs
      <4> QED
        BY <1>0, <4>1 DEF WaitSeqno, Seqnos, Sleepers
    <3>3. t \in Thread /\ ThreadOK /\ ErrorPc(th[t].op) # "sleep"
      BY <1>0, ErrorPcType
    <3>4. CASE WaitSeqno(t) # nextSeqno
      <4>1. th'[t].seq = WaitSeqno(t) /\ nextSeqno' = nextSeqno
        BY <1>12, <3>1, <3>3, <3>4 DEF Wait
      <4> HIDE DEF DataOK, ThreadOK, ThreadInv, WorkerPlaces
      <4> QED
        BY <3>2, <3>4, <4>1
    <3>5. CASE WaitSeqno(t) = nextSeqno
      <4>1. th[t].obj \in active /\ ~wedged
        BY <1>12, <3>1, <3>3 DEF Wait
      <4>2. PICK ok \in AllocOutcome :
              /\ AddRequest(ok)
              /\ th' = [th EXCEPT ![t].pc = IF ok THEN "sleep"
                                           ELSE ErrorPc(th[t].op),
                                 ![t].seq = WaitSeqno(t)]
        BY <1>12, <3>5, <4>1 DEF Wait
      <4>3. ok /\ th'[t].seq = nextSeqno
        BY <3>1, <3>3, <3>5, <4>2
      <4>4. nextSeqno' = nextSeqno + 1
        BY <4>2, <4>3 DEF AddRequest
      <4> QED
        BY <3>2, <4>3, <4>4
    <3> QED
      BY <3>4, <3>5
  <2> QED
    BY <2>1, <2>2, <2>3, <2>4 DEF Quiet
<1>13. ASSUME NEW t \in Client, Wake(t)
      PROVE  Quiet
  <2>1. WakeTo(t)
    BY <1>13, Moves
  <2>2. UNCHANGED <<hwSeqno, reqVars, ring, lws, workVars>>
    BY <1>13 DEF Wake
  <2>3. /\ \A u \in Client : Sleep(u)
        /\ th'[Worker].op = th[Worker].op
    BY <1>0, <2>1, ErrorPcType DEF WakeTo, Sleep
  <2> QED
    BY <2>2, <2>3 DEF Quiet, Handed
<1>14. ASSUME NEW t \in Client, Interrupt(t)
      PROVE  Quiet
  BY <1>14, <1>0 DEF Interrupt, ErrorPc, Quiet, Sleep, Handed
<1>15. ASSUME NEW t \in Client, Retire(t)
      PROVE  Quiet
  BY <1>15, <1>0 DEF Retire, RetireRequest, Quiet, Sleep, Handed
<1>16. ASSUME NEW t \in Client, RetireEnd(t)
      PROVE  Quiet
  BY <1>16, <1>0 DEF RetireEnd, Quiet, Sleep, Handed
<1>17. ASSUME NEW t \in Client, GttDomain(t)
      PROVE  Quiet
  BY <1>17, <1>0 DEF GttDomain, Quiet, Sleep, Handed
<1>18. ASSUME NEW t \in Client, Unbind(t)
      PROVE  Quiet
  BY <1>18, <1>0 DEF Unbind, UnbindObject, Quiet, Sleep, Handed
<1>19. ASSUME NEW t \in Client, Unpin(t)
      PROVE  Quiet
  BY <1>19, <1>0 DEF Unpin, UnpinObjects, Quiet, Sleep, Handed
<1>20. ASSUME NEW t \in Client, Return(t)
      PROVE  Quiet
  BY <1>20, <1>0 DEF Return, Quiet, Sleep, Handed
<1>21. ASSUME NEW t \in Client, Busy(t)
      PROVE  Quiet
  <2>1. /\ UNCHANGED <<hwSeqno, workVars>>
        /\ \A u \in Client : Sleep(u)
        /\ th'[Worker].op = th[Worker].op
    BY <1>21, <1>0 DEF Busy, Sleep
  <2>2. CASE th[t].obj \in active
    <3>1. PICK ok \in BOOLEAN : GemFlush({wd[th[t].obj]}, ok)
      BY <1>21, <2>2 DEF Busy, AllocOutcome
    <3>2. Handed
      BY <3>1, GemFlushEffect DEF FlushEffect, NewRequest, Handed
    <3>3. \A o \in Obj : lws'[o] \in {lws[o], nextSeqno}
      BY <3>1 DEF GemFlush, MoveToActive
    <3> QED
      BY <2>1, <3>2, <3>3 DEF Quiet
  <2>3. CASE th[t].obj \notin active
    BY <1>21, <2>1, <2>3 DEF Busy, Quiet, Handed
  <2> QED
    BY <2>2, <2>3
<1>22. ASSUME NEW t \in Client, \E o \in Obj : ExecPin(t, o)
      PROVE  Quiet
  <2>1. PICK o \in Obj : ExecPin(t, o)
    BY <1>22
  <2>2. ExecPinTo(t, o)
    BY <2>1, Moves
  <2>3. UNCHANGED <<hwSeqno, reqVars, ring, lws, workVars>>
    BY <2>1 DEF ExecPin
  <2>4. /\ \A u \in Client : Sleep(u)
        /\ th'[Worker].op = th[Worker].op
    BY <1>0, <2>2 DEF ExecPinTo, Sleep
  <2> QED
    BY <2>3, <2>4 DEF Quiet, Handed
<1>23. ASSUME NEW t \in Client, ExecRelocError(t)
      PROVE  Quiet
  BY <1>23, <1>0 DEF ExecRelocError, UnpinObjects, Quiet, Sleep, Handed
<1>24. ASSUME NEW t \in Client, ExecFlush(t)
      PROVE  Quiet
  <2>1. PICK ok \in BOOLEAN : GemFlush(UNION {FlushOf(o) : o \in inExec}, ok)
    BY <1>24 DEF ExecFlush, AllocOutcome
  <2>2. Handed
    BY <2>1, GemFlushEffect DEF FlushEffect, NewRequest, Handed
  <2>3. \A o \in Obj : lws'[o] \in {lws[o], nextSeqno}
    BY <2>1 DEF GemFlush, MoveToActive
  <2>4. /\ UNCHANGED <<hwSeqno, workVars>>
        /\ \A u \in Client : Sleep(u)
        /\ th'[Worker].op = th[Worker].op
    BY <1>24, <1>0 DEF ExecFlush, Sleep
  <2> QED
    BY <2>2, <2>3, <2>4 DEF Quiet
<1>25. ASSUME NEW t \in Client, ExecDispatch(t)
      PROVE  Quiet
  <2>1. Handed
    BY <1>25, AddRequestEffect DEF ExecDispatch, NewRequest, Handed
  <2>2. \A o \in Obj : lws'[o] \in {lws[o], nextSeqno}
    BY <1>25 DEF ExecDispatch, MoveToActive
  <2>3. /\ UNCHANGED <<hwSeqno, workVars>>
        /\ \A u \in Client : Sleep(u)
        /\ th'[Worker].op = th[Worker].op
    BY <1>25, <1>0 DEF ExecDispatch, Sleep
  <2> QED
    BY <2>1, <2>2, <2>3 DEF Quiet
<1>26. ASSUME NEW t \in Client, ExecExit(t)
      PROVE  Quiet
  BY <1>26, <1>0 DEF ExecExit, UnpinObjects, Quiet, Sleep, Handed
<1>28. ASSUME WriteLock(Worker)
      PROVE  Quiet
  BY <1>28, <1>0 DEF WriteLock, Quiet, Sleep, Handed
<1>29. ASSUME Retire(Worker)
      PROVE  Quiet
  BY <1>29, <1>0 DEF Retire, RetireRequest, Quiet, Sleep, Handed
<1>30. ASSUME RetireEnd(Worker)
      PROVE  Quiet
  BY <1>30, <1>0 DEF RetireEnd, Quiet, Sleep, Handed
<1>32. ASSUME HungRelock
      PROVE  Quiet
  BY <1>32, <1>0 DEF HungRelock, Quiet, Sleep, Handed
<1>33. ASSUME HungClear
      PROVE  Quiet
  BY <1>33, <1>0 DEF HungClear, Quiet, Sleep, Handed
<1>34. ASSUME \E o \in Obj : HungEvict(o)
      PROVE  Quiet
  BY <1>34, <1>0 DEF HungEvict, UnbindObject, Quiet, Sleep, Handed
<1>37. ASSUME RetireTimeout
      PROVE  Quiet
  BY <1>37, <1>0 DEF RetireTimeout, Quiet, Sleep, Handed
<1>39. ASSUME UNCHANGED vars
      PROVE  Quiet
  BY <1>39, <1>0 DEF vars, Quiet, Sleep, Handed
<1>27. ASSUME NEW task \in {"retire", "hung"}, RunTask(task)
      PROVE  Sleepers'
  <2>1. UNCHANGED <<hwVars, reqVars, lws, wedged>> /\ workq' \subseteq workq
    BY <1>27 DEF RunTask
  <2>2. \A u \in Client : th'[u] = th[u]
    BY <1>0, <1>27 DEF RunTask
  <2>3. ~CanHang => th'[Worker].op # "hung"
    BY <1>0, <1>27 DEF RunTask, Sleepers
  <2> QED
    BY <2>1, <2>2, <2>3 DEF Sleepers, Stored
<1>31. CASE HungReset
  <2>1. CanHang
    BY <1>0, <1>31 DEF HungReset, Sleepers
  <2>2. UNCHANGED <<nextSeqno, lws>> /\ \A u \in Client : th'[u] = th[u]
    BY <1>0, <1>31 DEF HungReset
  <2> QED
    BY <2>1, <2>2 DEF Sleepers
<1>35. CASE HungEnd
  <2>1. CanHang
    BY <1>0, <1>35 DEF HungEnd, Sleepers
  <2>2. UNCHANGED <<nextSeqno, lws>> /\ \A u \in Client : th'[u] = th[u]
    BY <1>0, <1>35 DEF HungEnd
  <2> QED
    BY <2>1, <2>2 DEF Sleepers
<1>36. CASE GpuProgress
  <2>1. UNCHANGED <<nextSeqno, lws, workVars, th>>
    BY <1>36 DEF GpuProgress
  <2>2. ASSUME Stored PROVE Stored'
    <3>1. PICK s \in ring : /\ \A r \in ring : s <= r
                            /\ hwSeqno' = s /\ ring' = ring \ {s}
      BY <1>36 DEF GpuProgress
    <3>2. s \in Nat /\ hwSeqno < s
      BY <1>0, <3>1 DEF Seqnos
    <3>3. ASSUME NEW r \in Nat, s < r, r < nextSeqno
          PROVE  r \in ring \ {s}
      BY <1>0, <2>2, <3>2, <3>3 DEF Stored
    <3> QED
      BY <2>1, <3>1, <3>3 DEF Stored
  <2> QED
    BY <2>1, <2>2 DEF Sleepers
<1>38. CASE HangCheck
  <2>1. CanHang /\ UNCHANGED <<nextSeqno, lws, th>>
    BY <1>38 DEF HangCheck
  <2> QED
    BY <2>1 DEF Sleepers
<1> QED
  <2>1. Quiet => Sleepers'
    BY QuietKept
  <2> QED
    BY <2>1, <1>1, <1>2, <1>3, <1>4, <1>5, <1>6, <1>7, <1>8, <1>9, <1>10,
       <1>11, <1>12, <1>13, <1>14, <1>15, <1>16, <1>17, <1>18, <1>19, <1>20,
       <1>21, <1>22, <1>23, <1>24, <1>25, <1>26, <1>27, <1>28, <1>29, <1>30,
       <1>31, <1>32, <1>33, <1>34, <1>35, <1>36, <1>37, <1>38, <1>39 DEF Next,
       Continue, Work

\* So it is in every state.
LEMMA SleepersHold ==
  ASSUME GpuAccesses
  PROVE  Spec => []Sleepers
<1>1. Init => Sleepers
  BY ThreadAssumption DEF Init, Sleepers, Stored
<1>2. TypeInv /\ SafeInv /\ Sleepers /\ [Next]_vars => Sleepers'
  BY SleepersStep DEF SafeInv
<1> QED
  BY <1>1, <1>2, Safe, PTL DEF Spec

\* i915_wait_request sleeps only on seqnos whose store the GPU has executed or
\* still has before it: the ring, which it works off in order, wakes it.
EachServed ==
    \A t \in Client :
        th[t].pc = "sleep" => th[t].seq <= hwSeqno \/ th[t].seq \in ring

\* While the GPU does not hang, each sleeper is served in this way.
THEOREM SleepersServed ==
  ASSUME GpuAccesses, ~CanHang
  PROVE  Spec => []EachServed
<1>1. TypeInv /\ Sleepers => EachServed
  <2>1. SUFFICES ASSUME TypeInv, Sleepers,
                        NEW t \in Client, th[t].pc = "sleep"
        PROVE  th[t].seq <= hwSeqno \/ th[t].seq \in ring
    BY DEF EachServed
  <2>2. th[t].seq \in Nat /\ hwSeqno \in Nat
    BY <2>1 DEF TypeInv, TypeOK, DataOK, ThreadOK
  <2>3. th[t].seq < nextSeqno /\ Stored
    BY <2>1 DEF Sleepers
  <2> QED
    BY <2>2, <2>3 DEF Stored
<1> QED
  BY <1>1, Safe, SleepersHold, PTL

-----------------------------------------------------------------------------
(* Seqnos as words.                                                        *)

\* Quotient and remainder.
LEMMA Divided ==
  ASSUME NEW x \in Int, NEW w \in Nat, w > 0
  PROVE  /\ x \div w \in Int /\ x % w \in Int
         /\ 0 <= x % w /\ x % w < w
         /\ x = (w * (x \div w)) + (x % w)
  OBVIOUS

\* They are the only ones.
LEMMA Remainder ==
  ASSUME NEW w \in Nat, w > 0, NEW q \in Int, NEW r \in Int, 0 <= r, r < w
  PROVE  ((w * q) + r) % w = r
  OBVIOUS

\* The remainder of a number less than one round away from 0.
LEMMA NearRemainder ==
  ASSUME NEW x \in Int, NEW w \in Nat, w > 0, 0 - w <= x, x < w
  PROVE  x % w = IF x >= 0 THEN x ELSE x + w
<1>1. CASE x >= 0
  <2>1. ((w * 0) + x) % w = x
    BY <1>1, Remainder
  <2> QED
    BY <1>1, <2>1
<1>2. CASE x < 0
  <2>1. ((w * (-1)) + (x + w)) % w = x + w
    BY <1>2, Remainder
  <2>2. (w * (-1)) + (x + w) = x
    OBVIOUS
  <2> QED
    BY <1>2, <2>1, <2>2
<1> QED
  BY <1>1, <1>2

\* Seqnos get words other than 0.
LEMMA WordType ==
  ASSUME NEW n \in Nat, n > 0, NEW w \in Nat, w > 1
  PROVE  SeqnoWord(n, w) \in Int /\ 0 < SeqnoWord(n, w) /\ SeqnoWord(n, w) < w
<1>1. w - 1 \in Nat /\ w - 1 > 0 /\ n - 1 \in Int
  OBVIOUS
<1>2. /\ (n - 1) % (w - 1) \in Int
      /\ 0 <= (n - 1) % (w - 1) /\ (n - 1) % (w - 1) < w - 1
  BY <1>1, Divided
<1>3. SeqnoWord(n, w) = 1 + ((n - 1) % (w - 1))
  BY DEF SeqnoWord
<1> QED
  BY <1>2, <1>3

\* The words of two seqnos that are less than a round apart: one seqno is the
\* other's round or the next.
LEMMA WordDifference ==
  ASSUME NEW v \in Nat, v > 0, NEW a \in Nat, NEW b \in Nat, a > 0, b > 0,
         b <= a, a - b < v
  PROVE  LET d == SeqnoWord(a, v + 1) - SeqnoWord(b, v + 1)
         IN  d = a - b \/ d = a - b - v
<1> DEFINE qa == (a - 1) \div v
           qb == (b - 1) \div v
           ra == (a - 1) % v
           rb == (b - 1) % v
<1>1. /\ qa \in Int /\ ra \in Int /\ 0 <= ra /\ ra < v
      /\ a - 1 = (v * qa) + ra
  <2>1. a - 1 \in Int
    OBVIOUS
  <2> QED
    BY <2>1, Divided
<1>2. /\ qb \in Int /\ rb \in Int /\ 0 <= rb /\ rb < v
      /\ b - 1 = (v * qb) + rb
  <2>1. b - 1 \in Int
    OBVIOUS
  <2> QED
    BY <2>1, Divided
<1>3. (v + 1) - 1 = v
  OBVIOUS
<1>4. SeqnoWord(a, v + 1) = 1 + ra /\ SeqnoWord(b, v + 1) = 1 + rb
  BY <1>3 DEF SeqnoWord
<1> HIDE DEF qa, qb, ra, rb
<1> DEFINE k == qa - qb
<1>5. k \in Int /\ a - b = (v * k) + (ra - rb)
  BY <1>1, <1>2
<1> HIDE DEF k
<1>6. k < 2
  <2>1. SUFFICES ASSUME k >= 2 PROVE FALSE
    BY <1>5
  <2>2. v * k >= v * 2
    BY <1>5, <2>1
  <2> QED
    BY <1>1, <1>2, <1>5, <2>2
<1>7. k > -1
  <2>1. SUFFICES ASSUME k <= -1 PROVE FALSE
    BY <1>5
  <2>2. v * k <= v * (-1)
    BY <1>5, <2>1
  <2> QED
    BY <1>1, <1>2, <1>5, <2>2
<1>8. CASE k = 0
  <2>1. v * k = 0
    BY <1>8
  <2> QED
    BY <1>1, <1>2, <1>4, <1>5, <2>1
<1>9. CASE k = 1
  <2>1. v * k = v
    BY <1>9
  <2> QED
    BY <1>1, <1>2, <1>4, <1>5, <2>1
<1> QED
  BY <1>5, <1>6, <1>7, <1>8, <1>9

\* Words follow each other as the seqnos do: i915_add_request counts on to the
\* word of the next seqno, and never hands out the 0 that stands for none.
THEOREM WordsFollow ==
  ASSUME NEW n \in Nat, n > 0, NEW w \in Nat, w > 2
  PROVE  /\ SeqnoWord(n + 1, w) = NextWord(SeqnoWord(n, w), w)
         /\ SeqnoWord(n, w) # 0
<1> DEFINE v == w - 1
           s == SeqnoWord(n, w)
           t == SeqnoWord(n + 1, w)
<1>1. /\ s \in Int /\ 0 < s /\ s < w
      /\ t \in Int /\ 0 < t /\ t < w
  BY WordType
<1>2. t - s = 1 \/ t - s = 1 - v
  <2>1. v \in Nat /\ v > 0 /\ v + 1 = w /\ (n + 1) - n < v
    OBVIOUS
  <2>2. LET d == SeqnoWord(n + 1, v + 1) - SeqnoWord(n, v + 1)
        IN  d = (n + 1) - n \/ d = (n + 1) - n - v
    <3> HIDE DEF v
    <3> QED
      BY <2>1, WordDifference
  <2> QED
    BY <2>1, <2>2
<1> HIDE DEF s, t
<1>3. CASE t - s = 1
  <2>1. (s + 1) % w = s + 1
    BY <1>1, <1>3, NearRemainder
  <2> QED
    BY <1>1, <1>3, <2>1 DEF NextWord, s, t
<1>4. CASE t - s = 1 - v
  <2>1. s = v /\ t = 1
    BY <1>1, <1>4
  <2>2. s + 1 = (w * 1) + 0
    BY <2>1
  <2>3. ((w * 1) + 0) % w = 0
    BY Remainder
  <2>4. (s + 1) % w = 0
    BY <2>2, <2>3
  <2> QED
    BY <2>1, <2>4 DEF NextWord, s, t
<1> QED
  BY <1>2, <1>3, <1>4

\* Seqnos less than a round apart have the same word only if they are the same.
LEMMA WordEqual ==
  ASSUME NEW w \in Nat, w > 2, NEW a \in Nat, NEW b \in Nat,
         b > 0, a = 0 \/ (a - b < w - 1 /\ b - a < w - 1)
  PROVE  SeqnoWord(a, w) = SeqnoWord(b, w) <=> a = b
<1>1. CASE a = 0
  BY <1>1, WordType DEF SeqnoWord
<1>2. CASE a > 0 /\ b <= a
  <2> DEFINE v == w - 1
  <2>1. v \in Nat /\ v > 0 /\ v + 1 = w /\ a - b < v
    BY <1>2
  <2> HIDE DEF v
  <2>2. LET d == SeqnoWord(a, v + 1) - SeqnoWord(b, v + 1)
        IN  d = a - b \/ d = a - b - v
    BY <1>2, <2>1, WordDifference
  <2>3. SeqnoWord(a, w) \in Int /\ SeqnoWord(b, w) \in Int
    BY <1>2, WordType
  <2> QED
    BY <1>2, <2>1, <2>2, <2>3
<1>3. CASE a > 0 /\ a < b
  <2> DEFINE v == w - 1
  <2>1. v \in Nat /\ v > 0 /\ v + 1 = w /\ b - a < v
    BY <1>3
  <2> HIDE DEF v
  <2>2. LET d == SeqnoWord(b, v + 1) - SeqnoWord(a, v + 1)
        IN  d = b - a \/ d = b - a - v
    BY <1>3, <2>1, WordDifference
  <2>3. SeqnoWord(a, w) \in Int /\ SeqnoWord(b, w) \in Int
    BY <1>3, WordType
  <2> QED
    BY <1>3, <2>1, <2>2, <2>3
<1> QED
  BY <1>1, <1>2, <1>3

\* Half of an even number of words.
LEMMA HalfRound ==
  ASSUME NEW h \in Nat
  PROVE  (2 * h) \div 2 = h
  OBVIOUS

\* Seqnos less than half a round apart: the sign of the difference of their
\* words tells which came first.
LEMMA WordsCompared ==
  ASSUME NEW h \in Nat, h > 1, NEW a \in Nat, NEW b \in Nat, a > 0, b > 0,
         a - b < h - 1, b - a < h - 1
  PROVE  WordPassed(SeqnoWord(a, 2 * h), SeqnoWord(b, 2 * h), 2 * h)
           <=> SeqnoPassed(a, b)
<1> DEFINE w == 2 * h
           v == w - 1
           x == SeqnoWord(a, w)
           y == SeqnoWord(b, w)
<1>1. /\ w \in Nat /\ w > 2 /\ v \in Nat /\ v > 0 /\ v + 1 = w
      /\ w = h + h
  OBVIOUS
<1>2. w \div 2 = h
  BY HalfRound
<1> HIDE DEF v, w
<1>3. x \in Int /\ 0 < x /\ x < w /\ y \in Int /\ 0 < y /\ y < w
  BY <1>1, WordType
<1>4. b <= a => (x - y = a - b \/ x - y = a - b - v)
  <2>1. SUFFICES ASSUME b <= a
                 PROVE  x - y = a - b \/ x - y = a - b - v
    OBVIOUS
  <2>2. a - b < v
    BY <1>1
  <2>3. LET d == SeqnoWord(a, v + 1) - SeqnoWord(b, v + 1)
        IN  d = a - b \/ d = a - b - v
    BY <1>1, <2>1, <2>2, WordDifference
  <2> QED
    BY <1>1, <2>3
<1>5. a < b => (y - x = b - a \/ y - x = b - a - v)
  <2>1. SUFFICES ASSUME a < b
                 PROVE  y - x = b - a \/ y - x = b - a - v
    OBVIOUS
  <2>2. b - a < v
    BY <1>1
  <2>3. LET d == SeqnoWord(b, v + 1) - SeqnoWord(a, v + 1)
        IN  d = b - a \/ d = b - a - v
    BY <1>1, <2>1, <2>2, WordDifference
  <2> QED
    BY <1>1, <2>3
<1> HIDE DEF x, y
<1>6. (x - y) % w = IF x - y >= 0 THEN x - y ELSE x - y + w
  <2>1. x - y \in Int /\ 0 - w <= x - y /\ x - y < w
    BY <1>1, <1>3
  <2> QED
    BY <1>1, <2>1, NearRemainder
<1>7. WordPassed(x, y, w) <=> (x - y) % w < h
  BY <1>2 DEF WordPassed
<1>8. CASE b <= a
  <2>1. CASE x - y = a - b
    BY <1>1, <1>3, <1>6, <1>7, <1>8, <2>1 DEF SeqnoPassed, w, x, y
  <2>2. CASE x - y = a - b - v
    <3>1. x - y < 0 /\ (x - y) + w = a - b + 1
      BY <1>1, <1>8, <2>2
    <3> QED
      BY <1>1, <1>3, <1>6, <1>7, <1>8, <3>1 DEF SeqnoPassed, w, x, y
  <2> QED
    BY <1>4, <1>8, <2>1, <2>2
<1>9. CASE a < b
  <2>1. CASE y - x = b - a
    <3>1. x - y < 0 /\ (x - y) + w >= h
      BY <1>1, <1>3, <1>9, <2>1
    <3> QED
      BY <1>1, <1>3, <1>6, <1>7, <1>9, <3>1 DEF SeqnoPassed, w, x, y
  <2>2. CASE y - x = b - a - v
    <3>1. x - y >= 0 /\ x - y >= h
      BY <1>1, <1>3, <1>9, <2>2
    <3> QED
      BY <1>1, <1>3, <1>6, <1>7, <1>9, <3>1 DEF SeqnoPassed, w, x, y
  <2> QED
    BY <1>5, <1>9, <2>1, <2>2
<1> QED
  BY <1>8, <1>9

\* i915_seqno_passed goes by words and finds out which of two seqnos came
\* first, if they are less than half a round apart: also for the 0 that the
\* GPU has stored before the first of them.
THEOREM WordsCompare ==
  ASSUME NEW h \in Nat, h > 1, NEW a \in Nat, NEW b \in Nat, b > 0,
         a - b < h - 1, b - a < h - 1
  PROVE  WordPassed(SeqnoWord(a, 2 * h), SeqnoWord(b, 2 * h), 2 * h)
           <=> SeqnoPassed(a, b)
<1>1. CASE a > 0
  BY <1>1, WordsCompared
<1>2. CASE a = 0
  <2> DEFINE w == 2 * h
  <2>1. w \in Nat /\ w = h + h /\ w \div 2 = h
    BY HalfRound
  <2> HIDE DEF w
  <2>2. b < h - 1
    BY <1>2
  <2>3. (b - 1) % (w - 1) = b - 1
    <3>1. b - 1 \in Int /\ w - 1 \in Nat /\ w - 1 > 0 /\ b - 1 >= 0
          /\ b - 1 < w - 1 /\ 0 - (w - 1) <= b - 1
      BY <2>1, <2>2
    <3> QED
      BY <3>1, NearRemainder
  <2>4. SeqnoWord(a, w) = 0 /\ SeqnoWord(b, w) = b
    BY <1>2, <2>3 DEF SeqnoWord
  <2>5. (0 - b) % w = (0 - b) + w
    <3>1. 0 - b \in Int /\ w > 0 /\ 0 - w <= 0 - b /\ 0 - b < w /\ 0 - b < 0
      BY <2>1, <2>2
    <3> QED
      BY <2>1, <3>1, NearRemainder
  <2>6. ~WordPassed(0, b, w)
    BY <2>1, <2>2, <2>5 DEF WordPassed
  <2> QED
    BY <1>2, <2>4, <2>6 DEF SeqnoPassed, w
<1> QED
  BY <1>1, <1>2

\* No seqno, 0, passes for one that is still to come during half of every
\* round: who waits for it then sleeps until the words have wrapped.
THEOREM NoneIsLate ==
  ASSUME NEW h \in Nat, h > 1, NEW n \in Nat, n > 0
  PROVE  WordPassed(SeqnoWord(n, 2 * h), 0, 2 * h)
           <=> SeqnoWord(n, 2 * h) < h
<1> DEFINE w == 2 * h
           x == SeqnoWord(n, w)
<1>1. w \in Nat /\ w > 1
  OBVIOUS
<1>2. w \div 2 = h
  BY HalfRound
<1> HIDE DEF w
<1>3. x \in Int /\ 0 < x /\ x < w
  BY <1>1, WordType
<1> HIDE DEF x
<1>4. x - 0 = x
  BY <1>3
<1>5. x % w = x
  BY <1>1, <1>3, NearRemainder
<1> QED
  BY <1>2, <1>4, <1>5 DEF WordPassed, w, x

-----------------------------------------------------------------------------
(* The engine on words.                                                    *)

\* Seqno s was handed out within the last h.
Near(s, h) == nextSeqno - s < h

\* With words of 2 * h values, while the seqnos in use are among the last h,
\* the engine does what it would do with seqnos that never wrap: retirement and
\* sleepers tell who is done, and the tests for equality, of a seqno waited for
\* with the next one and of an object's with a request's, take no seqno for
\* another.  Who sleeps on no seqno at all, 0, is not covered: see NoneIsLate.
WordsAgree(h) ==
    /\ \A t \in Thread, r \in requests :
         th[t].pc = "retire" /\ Near(th[t].seq, h) /\ Near(r, h) =>
           (WordPassed(SeqnoWord(th[t].seq, 2 * h), SeqnoWord(r, 2 * h), 2 * h)
              <=> SeqnoPassed(th[t].seq, r))
    /\ \A t \in Client :
         th[t].pc = "sleep" /\ th[t].seq # 0
         /\ Near(hwSeqno, h) /\ Near(th[t].seq, h) =>
           (WordPassed(SeqnoWord(hwSeqno, 2 * h),
                       SeqnoWord(th[t].seq, 2 * h), 2 * h)
              <=> SeqnoPassed(hwSeqno, th[t].seq))
    /\ \A o \in Obj : \A s \in {lrs[o], lws[o]}, n \in requests \cup {nextSeqno} :
         (s = 0 \/ Near(s, h)) /\ Near(n, h) =>
           (SeqnoWord(s, 2 * h) = SeqnoWord(n, 2 * h) <=> s = n)

\* With 32-bit words h is 2^31.
THEOREM WordsSuffice ==
  ASSUME GpuAccesses, NEW h \in Nat, h > 1
  PROVE  Spec => []WordsAgree(h)
<1>1. ASSUME TypeInv, SafeInv, Sleepers PROVE WordsAgree(h)
  <2>1. /\ nextSeqno \in Nat /\ nextSeqno > 0 /\ hwSeqno \in Nat
        /\ hwSeqno < nextSeqno
        /\ \A r \in requests : r \in Nat /\ 0 < r /\ r < nextSeqno
        /\ \A o \in Obj : /\ lrs[o] \in Nat /\ lrs[o] <= nextSeqno
                          /\ lws[o] \in Nat /\ lws[o] <= nextSeqno
    BY <1>1 DEF TypeInv, TypeOK, DataOK, SafeInv, Seqnos, Sleepers
  <2>2. \A t \in Thread : th[t].seq \in Nat
    BY <1>1 DEF TypeInv, TypeOK, ThreadOK
  <2>3. ASSUME NEW t \in Thread, NEW r \in requests, th[t].pc = "retire",
               Near(th[t].seq, h), Near(r, h)
        PROVE  WordPassed(SeqnoWord(th[t].seq, 2 * h), SeqnoWord(r, 2 * h),
                          2 * h) <=> SeqnoPassed(th[t].seq, r)
    <3>1. th[t].seq <= hwSeqno
      BY <1>1, <2>3 DEF SafeInv, Places, WorkerPlaces
    <3>2. th[t].seq - r < h - 1 /\ r - th[t].seq < h - 1
      BY <2>1, <2>2, <2>3, <3>1 DEF Near
    <3> QED
      BY <2>1, <2>2, <3>2, WordsCompare
  <2>4. ASSUME NEW t \in Client, th[t].pc = "sleep", th[t].seq # 0,
               Near(hwSeqno, h), Near(th[t].seq, h)
        PROVE  WordPassed(SeqnoWord(hwSeqno, 2 * h),
                          SeqnoWord(th[t].seq, 2 * h), 2 * h)
                 <=> SeqnoPassed(hwSeqno, th[t].seq)
    <3>1. th[t].seq \in Nat /\ th[t].seq < nextSeqno
      BY <1>1, <2>2, <2>4 DEF Sleepers
    <3>2. hwSeqno - th[t].seq < h - 1 /\ th[t].seq - hwSeqno < h - 1
      BY <2>1, <2>4, <3>1 DEF Near
    <3> QED
      BY <2>1, <2>4, <3>1, <3>2, WordsCompare
  <2>5. ASSUME NEW o \in Obj, NEW s \in {lrs[o], lws[o]},
               NEW n \in requests \cup {nextSeqno},
               s = 0 \/ Near(s, h), Near(n, h)
        PROVE  SeqnoWord(s, 2 * h) = SeqnoWord(n, 2 * h) <=> s = n
    <3>1. s \in Nat /\ n \in Nat /\ n > 0 /\ s <= nextSeqno /\ n <= nextSeqno
      BY <2>1
    <3>2. 2 * h \in Nat /\ 2 * h > 2 /\ 2 * h - 1 > h
      OBVIOUS
    <3>3. s = 0 \/ (s - n < 2 * h - 1 /\ n - s < 2 * h - 1)
      BY <2>1, <2>5, <3>1, <3>2 DEF Near
    <3> QED
      BY <3>1, <3>2, <3>3, WordEqual
  <2> QED
    BY <2>3, <2>4, <2>5 DEF WordsAgree
<1> QED
  BY <1>1, Safe, SleepersHold, PTL
=============================================================================
