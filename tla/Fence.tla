-------------------------------- MODULE Fence --------------------------------
(***************************************************************************)
(* Tiling and the fence registers of the i915 GEM driver (i915_drv.c).  A  *)
(* fence register makes the GPU and the aperture see a tiled object        *)
(* through its tiling; there are fewer registers than tiled objects, so    *)
(* get_fence_reg steals one from an object it can hold, and set_tiling     *)
(* only marks the register of its object invalid, to be given back later.  *)
(*                                                                         *)
(* The request engine is GemCore's, reduced to what a fence depends on:    *)
(* one GPU write domain (RENDER), in which an object is written, and one   *)
(* read domain (SAMPLER), in which it is only read; a request never fails  *)
(* to be allocated and the GPU does not hang.  Objects are well aligned,   *)
(* relocations find their targets where they presumed them (and so write   *)
(* nothing), and only execbuffer pins.  uses is not driver state: it is    *)
(* what the queued batches rely on.                                        *)
(***************************************************************************)
EXTENDS Integers, Sequences, FiniteSets, SequencesExt

CONSTANTS
    Obj,            \* buffer objects
    Client,         \* processes inside the driver
    Reg,            \* the fence registers from fence_reg_start on
    NoThread, NoObj, NoReg,
    Tiling,         \* I915_TILING_X, I915_TILING_Y
    ClientOps,      \* the entry points the clients call
    Gen6,           \* IS_GEN6 or IS_GEN7
    MaxSeqno        \* bound: execbuffer is not called beyond this seqno

Linear == "none"    \* I915_TILING_NONE
Off == [obj |-> NoObj, tiling |-> Linear]

GttReadOps == {"fault_r", "set_domain_r"}
GttWriteOps == {"fault_w", "set_domain_w"}
FaultOps == {"fault_r", "fault_w"}
GttOps == GttReadOps \cup GttWriteOps
\* unbind is i915_gem_object_unbind as the eviction of a page fault calls it.
SharedOps == FaultOps \cup {"unbind"}
Ops == GttOps \cup {"unbind", "exec", "set_tiling"}

ASSUME NullAssumption ==
    NoThread \notin Client /\ NoObj \notin Obj /\ NoReg \notin Reg
ASSUME TilingAssumption == Linear \notin Tiling
ASSUME ParameterAssumption ==
    ClientOps \subseteq Ops /\ Gen6 \in BOOLEAN /\ MaxSeqno \in Nat

VARIABLES
    tiling,         \* tiling_mode
    bound,          \* objects whose dmamap is not NULL
    mapped,         \* objects with user mappings of their GTT range
    wd,             \* write_domain
    gttRead,        \* objects with the GTT domain in read_domains
    active,         \* objects with I915_ACTIVE
    lrs,            \* last_rendering_seqno; 0 off the active list
    lws,            \* last_write_seqno
    fenced,         \* objects with I915_FENCED_EXEC
    invalid,        \* objects with I915_FENCE_INVALID
    fence,          \* fence_reg
    regObj,         \* fence_regs[].obj
    regSeq,         \* fence_regs[].last_rendering_seqno
    lru,            \* mm.fence_list
    hw,             \* what the hardware registers hold
    nextSeqno,      \* mm.next_gem_seqno
    hwSeqno,        \* the last seqno the GPU has stored
    requests,       \* seqnos on mm.request_list
    held,           \* who holds the object (DRM_BUSY)
    drmW, drmR,     \* writer and readers of dev_lock
    batch,          \* the execbuffer being built, under the write lock
    th,             \* per thread: where it is and what it does
    uses            \* fences that queued batches rely on

gttVars  == <<bound, mapped>>
domVars  == <<wd, gttRead>>
listVars == <<active, lrs, lws, fenced>>
regVars  == <<fence, regObj, lru, hw>>
reqVars  == <<nextSeqno, requests>>
lockVars == <<held, drmW, drmR>>
vars == <<tiling, gttVars, domVars, listVars, invalid, regVars, regSeq,
          reqVars, hwSeqno, lockVars, batch, th, uses>>

Idle == [pc |-> "idle", op |-> "none", obj |-> NoObj, victim |-> NoObj,
         seq |-> 0]
\* The list of an execbuffer: still to pin, pinned, asking for a fence
\* (EXEC_OBJECT_NEEDS_FENCE, then I915_EXEC_NEEDS_FENCE), written.
NoBatch == [todo |-> {}, pinned |-> {}, needs |-> {}, write |-> {}]

Init ==
    /\ tiling = [o \in Obj |-> Linear]
    /\ bound = {} /\ mapped = {}
    /\ wd = [o \in Obj |-> "CPU"] /\ gttRead = {}
    /\ active = {} /\ fenced = {} /\ invalid = {}
    /\ lrs = [o \in Obj |-> 0] /\ lws = [o \in Obj |-> 0]
    /\ fence = [o \in Obj |-> NoReg]
    /\ regObj = [r \in Reg |-> NoObj] /\ regSeq = [r \in Reg |-> 0]
    /\ lru = <<>> /\ hw = [r \in Reg |-> Off]
    /\ nextSeqno = 1 /\ hwSeqno = 0 /\ requests = {}
    /\ held = [o \in Obj |-> NoThread] /\ drmW = NoThread /\ drmR = {}
    /\ batch = NoBatch
    /\ th = [t \in Client |-> Idle]
    /\ uses = {}

Goto(t, pc) == th' = [th EXCEPT ![t].pc = pc]
Finish(t) == th' = [th EXCEPT ![t] = [Idle EXCEPT !.pc = "out"]]

-----------------------------------------------------------------------------
(* The request engine.                                                     *)

AddRequest ==
    /\ nextSeqno' = nextSeqno + 1
    /\ requests' = requests \cup {nextSeqno}

\* Put S at the tail of the active list under the next seqno; F are the
\* fenced objects and w the write domains at that moment.  (The mutant does
\* not tell the fence registers.)
MoveToActiveNoFence(S, F, w) ==
    /\ active' = active \cup S
    /\ lrs' = [o \in Obj |-> IF o \in S THEN nextSeqno ELSE lrs[o]]
    /\ lws' = [o \in Obj |-> IF o \in S /\ w[o] # "none" THEN nextSeqno
                             ELSE lws[o]]
    /\ UNCHANGED regSeq
MoveToActive(S, F, w) ==
    /\ active' = active \cup S
    /\ lrs' = [o \in Obj |-> IF o \in S THEN nextSeqno ELSE lrs[o]]
    /\ lws' = [o \in Obj |-> IF o \in S /\ w[o] # "none" THEN nextSeqno
                             ELSE lws[o]]
    /\ regSeq' = [r \in Reg |-> IF \E o \in S \cap F : fence[o] = r
                                THEN nextSeqno ELSE regSeq[r]]

Rendered == {o \in Obj : wd[o] = "GPU"}

\* The LRU list once the registers moved have each been put at its end (in the
\* order of the GPU write list, which is not modelled): the others come first,
\* and keep their order.
Ahead(list, q, r) == \E i, j \in DOMAIN list : i < j /\ list[i] = q /\ list[j] = r
MovedBack(moved) ==
    {s \in SetToSeqs(ToSet(lru) \cup moved) :
       \A q \in ToSet(lru) \cup moved, r \in ToSet(lru) \ moved :
          Ahead(s, q, r) <=> q \notin moved /\ Ahead(lru, q, r)}

\* The flush of the render cache: what it covers is active until it is done,
\* and the registers of fenced objects move to the end of the LRU list.
GpuFlush ==
    /\ MoveToActive(Rendered, fenced, wd)
    /\ wd' = [o \in Obj |-> IF o \in Rendered THEN "none" ELSE wd[o]]
    /\ lru' \in MovedBack({fence[o] : o \in Rendered \cap fenced})
    /\ AddRequest
    /\ UNCHANGED fenced

\* An idle object's last batch is over.  (The mutant forgets the fence flag.)
StillFencedAll(idle) == fenced
StillFenced(idle) == fenced \ idle

\* Retire the oldest request if the GPU has passed it.  An object with a
\* write domain goes to the flushing list and stays active; the others are
\* idle.
RetireRequest ==
    \E r \in requests :
      LET done == {o \in Obj : lrs[o] = r}
          idle == {o \in done : wd[o] = "none"} IN
      /\ r <= hwSeqno /\ \A q \in requests : r <= q
      /\ requests' = requests \ {r}
      /\ active' = active \ idle
      /\ fenced' = StillFenced(idle)
      /\ lrs' = [o \in Obj |-> IF o \in done THEN 0 ELSE lrs[o]]
      /\ lws' = [o \in Obj |-> IF o \in idle THEN 0 ELSE lws[o]]
      /\ regSeq' = [q \in Reg |-> IF \E o \in done : fence[o] = q THEN 0
                                  ELSE regSeq[q]]

\* The work queue and every waiter retire requests.
Retire ==
    /\ RetireRequest
    /\ UNCHANGED <<tiling, gttVars, domVars, invalid, regVars, nextSeqno,
                   hwSeqno, lockVars, batch, th, uses>>

\* The GPU stores the seqnos up to s: those batches have ended.
GpuProgress ==
    \E s \in (hwSeqno + 1)..(nextSeqno - 1) :
      /\ hwSeqno' = s
      /\ uses' = {u \in uses : u.seq > s}
      /\ UNCHANGED <<tiling, gttVars, domVars, listVars, invalid, regVars,
                     regSeq, reqVars, lockVars, batch, th>>

-----------------------------------------------------------------------------
(* Entry: locks and the hold.                                              *)

Ready(t, op) == th[t].pc = "idle" /\ op \in ClientOps

\* A page fault, and the eviction it may cause, run under the read lock.
ReadLock(t) ==
    \E op \in SharedOps, o \in Obj :
      /\ Ready(t, op)
      /\ drmW = NoThread
      /\ drmR' = drmR \cup {t}
      /\ th' = [th EXCEPT ![t] = [Idle EXCEPT !.pc = "hold", !.op = op,
                                              !.obj = o]]
      /\ UNCHANGED <<tiling, gttVars, domVars, listVars, invalid, regVars,
                     regSeq, reqVars, hwSeqno, held, drmW, batch, uses>>

\* execbuffer2 locks the device for itself and looks its objects up.
ExecLock(t) ==
    /\ Ready(t, "exec") /\ nextSeqno <= MaxSeqno
    /\ drmW = NoThread /\ drmR = {}
    /\ drmW' = t
    /\ \E objs \in SUBSET Obj \ {{}} : \E f, w \in SUBSET objs :
         batch' = [todo |-> objs, pinned |-> {}, needs |-> f, write |-> w]
    /\ th' = [th EXCEPT ![t] = [Idle EXCEPT !.pc = "pick", !.op = "exec"]]
    /\ UNCHANGED <<tiling, gttVars, domVars, listVars, invalid, regVars,
                   regSeq, reqVars, hwSeqno, held, drmR, uses>>

\* Give a fence back before anything else if set_tiling invalidated it.
FenceStep(o) == IF o \in invalid THEN "put" ELSE "get"

\* drm_hold_object, and what each entry point looks at first.
HoldObject(t, op, o) ==
    /\ held[o] = NoThread
    /\ held' = [held EXCEPT ![o] = t]
    /\ th' = [th EXCEPT ![t] = [Idle EXCEPT !.op = op, !.obj = o, !.pc =
                IF op = "set_tiling" THEN "tile"
                ELSE IF op \in FaultOps THEN "bind"
                ELSE IF o \in bound THEN "flush" ELSE "out"]]
    /\ UNCHANGED <<tiling, gttVars, domVars, listVars, invalid, regVars,
                   regSeq, reqVars, hwSeqno, drmW, drmR, batch, uses>>

\* With the read lock; the set_tiling and set_domain ioctls take no lock.
Hold(t) ==
    \/ th[t].pc = "hold" /\ HoldObject(t, th[t].op, th[t].obj)
    \/ \E op \in Ops \ (SharedOps \cup {"exec"}), o \in Obj :
         Ready(t, op) /\ HoldObject(t, op, o)

\* i915_gem_object_bind_to_gtt, which may fail.
Bind(t) ==
    /\ th[t].pc = "bind"
    /\ \/ bound' = bound \cup {th[t].obj} /\ Goto(t, "flush")
       \/ th[t].obj \notin bound /\ bound' = bound /\ Finish(t)
    /\ UNCHANGED <<tiling, mapped, domVars, listVars, invalid, regVars, regSeq,
                   reqVars, hwSeqno, lockVars, batch, uses>>

-----------------------------------------------------------------------------
(* flush_gpu_write_domain, wait_request and set_to_gtt / cpu_domain.       *)

Flush(t) ==
    /\ th[t].pc = "flush" /\ wd[th[t].obj] = "GPU"
    /\ GpuFlush
    /\ UNCHANGED <<tiling, gttVars, gttRead, invalid, fence, regObj, hw,
                   hwSeqno, lockVars, batch, th, uses>>

\* What to wait for: readers only need the last write.
WaitSeqno(t) ==
    IF th[t].op \in GttReadOps THEN lws[th[t].obj] ELSE lrs[th[t].obj]

\* Wait for the object if it is active.
WaitRendering(t) ==
    LET o == th[t].obj IN
    /\ th[t].pc = "flush" /\ wd[o] # "GPU"
    /\ th' = [th EXCEPT
         ![t].pc = IF o \in active THEN "wait" ELSE "domain",
         ![t].seq = WaitSeqno(t)]
    /\ UNCHANGED <<tiling, gttVars, domVars, listVars, invalid, regVars,
                   regSeq, reqVars, hwSeqno, lockVars, batch, uses>>

\* The end of the wait: it has retired what the GPU has passed.  A wait of
\* put_fence_reg has a victim.
Wake(t) ==
    /\ th[t].pc = "wait" /\ th[t].seq <= hwSeqno
    /\ \A r \in requests : r > hwSeqno
    /\ th' = [th EXCEPT ![t].seq = 0,
                        ![t].pc = IF th[t].victim = NoObj THEN "domain"
                                  ELSE "clear"]
    /\ UNCHANGED <<tiling, gttVars, domVars, listVars, invalid, regVars,
                   regSeq, reqVars, hwSeqno, lockVars, batch, uses>>

\* A signal ends the wait of an ioctl with an error.
Interrupt(t) ==
    /\ th[t].pc = "wait" /\ th[t].op \notin SharedOps
    /\ th[t].seq > hwSeqno
    /\ Finish(t)
    /\ UNCHANGED <<tiling, gttVars, domVars, listVars, invalid, regVars,
                   regSeq, reqVars, hwSeqno, lockVars, batch, uses>>

\* Wipe the user mappings if the GTT domain says there may be any, and end a
\* GTT write domain.
LeaveGtt(o) ==
    /\ mapped' = IF wd[o] = "GTT" \/ o \in gttRead THEN mapped \ {o}
                 ELSE mapped
    /\ wd' = [wd EXCEPT ![o] = IF @ = "GTT" THEN "none" ELSE @]

\* The idle object leaves the domain it was in; then its fence is seen to.
Domain(t) ==
    LET o == th[t].obj IN
    /\ th[t].pc = "domain"
    /\ IF th[t].op = "unbind"
       THEN LeaveGtt(o) /\ th' = [th EXCEPT ![t].pc = "put", ![t].victim = o]
       ELSE /\ wd' = [wd EXCEPT ![o] = IF @ = "CPU" THEN "none" ELSE @]
            /\ th' = [th EXCEPT ![t].pc = FenceStep(o),
                       ![t].victim = IF o \in invalid THEN o ELSE NoObj]
            /\ UNCHANGED mapped
    /\ UNCHANGED <<tiling, bound, gttRead, listVars, invalid, regVars, regSeq,
                   reqVars, hwSeqno, lockVars, batch, uses>>

-----------------------------------------------------------------------------
(* i915_gem_object_put_fence_reg, for th[t].victim.                        *)

\* Flush if the last batch used the fence.
PutFlush(t) ==
    LET v == th[t].victim IN
    /\ th[t].pc = "put" /\ fence[v] # NoReg
    /\ v \in fenced /\ wd[v] = "GPU"
    /\ GpuFlush
    /\ UNCHANGED <<tiling, gttVars, gttRead, invalid, fence, regObj, hw,
                   hwSeqno, lockVars, batch, th, uses>>

\* Wait for the rendering that depends on the fence.
PutWait(t) ==
    LET v == th[t].victim IN
    /\ th[t].pc = "put" /\ fence[v] # NoReg
    /\ ~(v \in fenced /\ wd[v] = "GPU")
    /\ th' = [th EXCEPT ![t].seq = regSeq[fence[v]],
                        ![t].pc = IF regSeq[fence[v]] = 0 THEN "clear"
                                  ELSE "wait"]
    /\ UNCHANGED <<tiling, gttVars, domVars, listVars, invalid, regVars,
                   regSeq, reqVars, hwSeqno, lockVars, batch, uses>>

\* Where the caller goes on; a stolen object is let go.
PutDone(t) ==
    LET o == th[t].obj
        v == th[t].victim IN
    /\ th' = [th EXCEPT ![t].victim = NoObj, ![t].seq = 0,
                        ![t].pc = IF th[t].op = "unbind" THEN "unbind"
                                  ELSE "get"]
    /\ held' = IF v = o THEN held ELSE [held EXCEPT ![v] = NoThread]

PutNone(t) ==
    /\ th[t].pc = "put" /\ fence[th[t].victim] = NoReg
    /\ PutDone(t)
    /\ UNCHANGED <<tiling, gttVars, domVars, listVars, invalid, regVars,
                   regSeq, reqVars, hwSeqno, drmW, drmR, batch, uses>>

\* The register of a put fence is cleared; on Gen6 that of the 965 is, which
\* is another one.  (The mutant always clears that one.)
ClearedNot(r) == hw
Cleared(r) == IF Gen6 THEN hw ELSE [hw EXCEPT ![r] = Off]

\* Take the register out of use, which leaves the LRU list without it.  (The
\* mutant leaves it there.)
ListedStill(r) == lru
Unlisted(r) == RemoveFirst(lru, r)

\* Wipe the mappings and clear the register.
PutClear(t) ==
    LET v == th[t].victim
        r == fence[v] IN
    /\ th[t].pc = "clear"
    /\ LeaveGtt(v)
    /\ hw' = Cleared(r)
    /\ regObj' = [regObj EXCEPT ![r] = NoObj]
    /\ lru' = Unlisted(r)
    /\ fence' = [fence EXCEPT ![v] = NoReg]
    /\ invalid' = invalid \ {v}
    /\ PutDone(t)
    /\ UNCHANGED <<tiling, bound, gttRead, listVars, regSeq, reqVars, hwSeqno,
                   drmW, drmR, batch, uses>>

-----------------------------------------------------------------------------
(* i915_gem_get_fence_reg, for th[t].obj.                                  *)

\* execbuffer needs a fence when the batch asks for one and the object is
\* tiled, the GTT domain whenever it is tiled.
NeedsFence(t) ==
    LET o == th[t].obj IN
    tiling[o] # Linear /\ (th[t].op = "exec" => o \in batch.needs)

\* i915_gem_object_pin ends with the pin; set_to_gtt_domain with the domain.
Got(t, err) ==
    IF th[t].op # "exec" THEN Goto(t, IF err THEN "gtt_err" ELSE "gtt")
    ELSE IF err THEN Finish(t) ELSE Goto(t, "pin")

\* No fence needed, or one there already: only its place in the list changes.
GetOld(t) ==
    LET r == fence[th[t].obj] IN
    /\ th[t].pc = "get" /\ (NeedsFence(t) => r # NoReg)
    /\ lru' = IF NeedsFence(t) THEN Append(RemoveFirst(lru, r), r) ELSE lru
    /\ Got(t, FALSE)
    /\ UNCHANGED <<tiling, gttVars, domVars, listVars, invalid, fence, regObj,
                   hw, regSeq, reqVars, hwSeqno, lockVars, batch, uses>>

Search(t) == th[t].pc = "get" /\ NeedsFence(t) /\ fence[th[t].obj] = NoReg

\* Set a free register up for the object.
GetFree(t) ==
    LET o == th[t].obj IN
    /\ Search(t)
    /\ \E r \in Reg :
         /\ regObj[r] = NoObj
         /\ regObj' = [regObj EXCEPT ![r] = o]
         /\ fence' = [fence EXCEPT ![o] = r]
         /\ lru' = Append(lru, r)
         /\ hw' = [hw EXCEPT ![r] = [obj |-> o, tiling |-> tiling[o]]]
    /\ Got(t, FALSE)
    /\ UNCHANGED <<tiling, gttVars, domVars, listVars, invalid, regSeq,
                   reqVars, hwSeqno, lockVars, batch, uses>>

\* Every register belongs to a pinned object: ENOMEM.
GetNone(t) ==
    /\ Search(t)
    /\ \A r \in Reg : regObj[r] # NoObj /\ regObj[r] \in batch.pinned
    /\ Got(t, TRUE)
    /\ UNCHANGED <<tiling, gttVars, domVars, listVars, invalid, regVars,
                   regSeq, reqVars, hwSeqno, lockVars, batch, uses>>

\* A register can be stolen from an object that is not pinned and that can
\* be held at once.  (The mutant does not try to hold it.)
MayTakeAny(r) == regObj[r] \notin batch.pinned
MayTake(r) == regObj[r] \notin batch.pinned /\ held[regObj[r]] = NoThread

\* r is the first such register of the list.
Oldest(r) ==
    \E i \in DOMAIN lru :
      lru[i] = r /\ MayTake(r) /\ \A j \in 1..(i - 1) : ~MayTake(lru[j])

\* Steal from the first object that can be held; if there is none, search
\* again.
GetSteal(t) ==
    /\ Search(t)
    /\ \A r \in Reg : regObj[r] # NoObj
    /\ \E r \in Reg :
         /\ Oldest(r)
         /\ held' = [held EXCEPT ![regObj[r]] = t]
         /\ th' = [th EXCEPT ![t].pc = "put", ![t].victim = regObj[r]]
    /\ UNCHANGED <<tiling, gttVars, domVars, listVars, invalid, regVars,
                   regSeq, reqVars, hwSeqno, drmW, drmR, batch, uses>>

-----------------------------------------------------------------------------
(* How the entry points end.                                               *)

\* set_to_gtt_domain, also when no fence was found; a fault then maps the
\* object unless there was an error.
GttDomain(t) ==
    LET o == th[t].obj IN
    /\ th[t].pc \in {"gtt", "gtt_err"}
    /\ gttRead' = gttRead \cup {o}
    /\ wd' = [wd EXCEPT ![o] = IF th[t].op \in GttWriteOps THEN "GTT" ELSE @]
    /\ mapped' = IF th[t].op \in FaultOps /\ th[t].pc = "gtt"
                 THEN mapped \cup {o} ELSE mapped
    /\ Finish(t)
    /\ UNCHANGED <<tiling, bound, listVars, invalid, regVars, regSeq, reqVars,
                   hwSeqno, lockVars, batch, uses>>

Unbind(t) ==
    LET o == th[t].obj IN
    /\ th[t].pc = "unbind"
    /\ bound' = bound \ {o}
    /\ wd' = [wd EXCEPT ![o] = "CPU"]
    /\ gttRead' = gttRead \ {o}
    /\ Finish(t)
    /\ UNCHANGED <<tiling, mapped, listVars, invalid, regVars, regSeq,
                   reqVars, hwSeqno, lockVars, batch, uses>>

\* i915_gem_set_tiling: nothing for a pinned object, a bad or the same tiling;
\* a new one wipes the mappings and leaves an old fence to be given back.
SetTiling(t) ==
    LET o == th[t].obj IN
    /\ th[t].pc = "tile"
    /\ \/ UNCHANGED <<tiling, mapped, invalid>>
       \/ \E m \in Tiling \cup {Linear} :
            /\ o \notin batch.pinned
            /\ m # tiling[o]
            /\ tiling' = [tiling EXCEPT ![o] = m]
            /\ mapped' = mapped \ {o}
            /\ invalid' = IF fence[o] = NoReg THEN invalid
                          ELSE invalid \cup {o}
    /\ Finish(t)
    /\ UNCHANGED <<bound, domVars, listVars, regVars, regSeq, reqVars,
                   hwSeqno, lockVars, batch, uses>>

\* Unhold everything, unlock, return.
Return(t) ==
    /\ th[t].pc = "out"
    /\ held' = [o \in Obj |-> IF held[o] = t THEN NoThread ELSE held[o]]
    /\ drmR' = drmR \ {t}
    /\ drmW' = IF drmW = t THEN NoThread ELSE drmW
    /\ batch' = IF drmW = t THEN NoBatch ELSE batch
    /\ th' = [th EXCEPT ![t] = Idle]
    /\ UNCHANGED <<tiling, gttVars, domVars, listVars, invalid, regVars,
                   regSeq, reqVars, hwSeqno, uses>>

-----------------------------------------------------------------------------
(* i915_gem_execbuffer2.                                                   *)

\* Hold and bind the next object, then i915_gem_object_pin.
ExecHold(t) ==
    /\ th[t].pc = "pick"
    /\ \E o \in batch.todo :
         /\ held[o] = NoThread
         /\ held' = [held EXCEPT ![o] = t]
         /\ batch' = [batch EXCEPT !.todo = @ \ {o},
                         !.needs = IF tiling[o] = Linear THEN @ \ {o} ELSE @]
         /\ \/ /\ bound' = bound \cup {o}
               /\ th' = [th EXCEPT ![t].pc = FenceStep(o), ![t].obj = o,
                           ![t].victim = IF o \in invalid THEN o ELSE NoObj]
            \/ o \notin bound /\ bound' = bound /\ Finish(t)
    /\ UNCHANGED <<tiling, mapped, domVars, listVars, invalid, regVars, regSeq,
                   reqVars, hwSeqno, drmW, drmR, uses>>

ExecPin(t) ==
    /\ th[t].pc = "pin"
    /\ batch' = [batch EXCEPT !.pinned = @ \cup {th[t].obj}]
    /\ th' = [th EXCEPT ![t].pc = "pick", ![t].obj = NoObj]
    /\ UNCHANGED <<tiling, gttVars, domVars, listVars, invalid, regVars,
                   regSeq, reqVars, hwSeqno, lockVars, uses>>

\* set_to_gpu_domain of every object and the flush: leaving the GTT write
\* domain wipes the mappings, and a dirty object that is only read is flushed.
ExecFlush(t) ==
    /\ th[t].pc = "pick" /\ batch.todo = {}
    /\ mapped' = mapped \ {o \in batch.pinned : wd[o] = "GTT"}
    /\ gttRead' = gttRead \ batch.write
    /\ IF \E o \in batch.pinned \ batch.write : wd[o] = "GPU"
       THEN GpuFlush
       ELSE UNCHANGED <<wd, listVars, regSeq, lru, reqVars>>
    /\ Goto(t, "dispatch")
    /\ UNCHANGED <<tiling, bound, invalid, fence, regObj, hw, hwSeqno,
                   lockVars, batch, uses>>

\* Move the objects to the active list, start the batch, add its request.
ExecDispatch(t) ==
    LET objs == batch.pinned
        w == [o \in Obj |-> IF o \notin objs THEN wd[o]
                            ELSE IF o \in batch.write THEN "GPU" ELSE "none"]
        f == (fenced \ objs) \cup (batch.needs \cap objs) IN
    /\ th[t].pc = "dispatch"
    /\ wd' = w
    /\ fenced' = f
    /\ MoveToActive(objs, f, w)
    /\ AddRequest
    /\ uses' = uses \cup {[reg |-> fence[o], obj |-> o, tiling |-> tiling[o],
                           seq |-> nextSeqno] : o \in batch.needs}
    /\ Finish(t)
    /\ UNCHANGED <<tiling, gttVars, gttRead, invalid, regVars, hwSeqno,
                   lockVars, batch>>

-----------------------------------------------------------------------------
Step(t) ==
    \/ ReadLock(t) \/ ExecLock(t) \/ Hold(t) \/ Bind(t)
    \/ Flush(t) \/ WaitRendering(t) \/ Wake(t) \/ Interrupt(t) \/ Domain(t)
    \/ PutFlush(t) \/ PutWait(t) \/ PutNone(t) \/ PutClear(t)
    \/ GetOld(t) \/ GetFree(t) \/ GetNone(t) \/ GetSteal(t)
    \/ GttDomain(t) \/ Unbind(t) \/ SetTiling(t) \/ Return(t)
    \/ ExecHold(t) \/ ExecPin(t) \/ ExecFlush(t) \/ ExecDispatch(t)

Next == (\E t \in Client : Step(t)) \/ Retire \/ GpuProgress

Spec == Init /\ [][Next]_vars

-----------------------------------------------------------------------------
(* Properties.                                                             *)

\* Where a thread works on an object, and where else it may be.
AtWork == {"hold", "bind", "flush", "wait", "domain", "put", "clear", "get",
           "gtt", "gtt_err", "pin", "unbind", "tile"}
PC == AtWork \cup {"idle", "pick", "dispatch", "out"}
ThreadState == [pc : PC, op : Ops \cup {"none"}, obj : Obj \cup {NoObj},
                victim : Obj \cup {NoObj}, seq : Nat]

\* What the variables other than the LRU list and uses may hold.
StateTypes ==
    /\ tiling \in [Obj -> Tiling \cup {Linear}]
    /\ bound \subseteq Obj /\ mapped \subseteq Obj /\ gttRead \subseteq Obj
    /\ active \subseteq Obj /\ fenced \subseteq Obj /\ invalid \subseteq Obj
    /\ wd \in [Obj -> {"none", "CPU", "GTT", "GPU"}]
    /\ lrs \in [Obj -> Nat] /\ lws \in [Obj -> Nat]
    /\ fence \in [Obj -> Reg \cup {NoReg}]
    /\ regObj \in [Reg -> Obj \cup {NoObj}] /\ regSeq \in [Reg -> Nat]
    /\ hw \in [Reg -> [obj : Obj \cup {NoObj}, tiling : Tiling \cup {Linear}]]
    /\ nextSeqno \in Nat /\ hwSeqno \in Nat /\ requests \subseteq Nat
    /\ held \in [Obj -> Client \cup {NoThread}]
    /\ drmW \in Client \cup {NoThread} /\ drmR \subseteq Client
    /\ batch \in [todo : SUBSET Obj, pinned : SUBSET Obj,
                  needs : SUBSET Obj, write : SUBSET Obj]
    /\ th \in [Client -> ThreadState]

\* Types: in particular the list names only registers, and a batch that asks
\* for a fence is submitted with one.
TypeOK ==
    /\ StateTypes
    /\ lru \in Seq(Reg)
    /\ uses \subseteq [reg : Reg, obj : Obj, seq : Nat,
                       tiling : Tiling \cup {Linear}]

\* Objects and registers point at each other.
Paired == \A o \in Obj, r \in Reg : fence[o] = r <=> regObj[r] = o

\* A register that belongs to nobody shows nothing; one that belongs to an
\* object shows it, with its tiling unless the fence is marked invalid.
HwAgrees ==
    \A r \in Reg :
      /\ hw[r].obj = regObj[r]
      /\ regObj[r] \in Obj \ invalid => hw[r].tiling = tiling[regObj[r]]

\* Objects, registers and hardware agree before and after every step, as
\* registers are stolen, retiled, given back and set up again.
RegsConsistent == Paired /\ HwAgrees

\* The LRU list holds each register in use once and no other, which is what
\* lets get_fence_reg find its victim there whenever none is free.
LruExact ==
    /\ \A r \in Reg : (\E i \in DOMAIN lru : lru[i] = r) <=> regObj[r] # NoObj
    /\ \A i, j \in DOMAIN lru : lru[i] = lru[j] => i = j

\* A batch that the GPU has not finished finds every fence it was submitted
\* with as it was then, whatever is stolen or retiled meanwhile.
FenceStable ==
    \A u \in uses : hw[u.reg] = [obj |-> u.obj, tiling |-> u.tiling]

\* The KASSERT of inteldrm_process_flushing and the array index of
\* move_to_active: an object whose last batch used a fence has one, from the
\* batch to its retirement.
FencedHasReg == \A o \in fenced : fence[o] # NoReg

\* An unbound object has no fence, which would detile whatever is bound at
\* its old place, and no rendering to wait for (the KASSERT of
\* i915_gem_object_unbind).
UnboundUnfenced ==
    \A o \in Obj \ bound : fence[o] = NoReg /\ o \notin active

\* A page fault maps a tiled object only through a register that shows it
\* with its tiling, and a linear one through none.
FaultDetiled ==
    [][\A o \in mapped' \ mapped :
          {hw[r].tiling : r \in {q \in Reg : hw[q].obj = o}}
            = {tiling[o]} \ {Linear}]_vars

=============================================================================
