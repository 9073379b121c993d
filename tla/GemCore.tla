------------------------------ MODULE GemCore ------------------------------
(***************************************************************************)
(* The request engine of the i915 GEM driver (i915_drv.c): sequence        *)
(* numbers, the request list, the active / flushing / inactive lists, the  *)
(* GPU write list, and the ioctls, faults and work-queue tasks that move   *)
(* buffer objects between them.                                            *)
(*                                                                         *)
(* One action is one section of code that no other actor can split: the    *)
(* code between two acquisitions of dev_lock, an object hold, request_lock *)
(* or a sleep.  The three TAILQs an object can be on are represented by    *)
(* inteldrm_obj.current_list (list[o]); elements are only ever inserted at *)
(* the tail of the active list with the current next_gem_seqno, so its     *)
(* order is the order of last_rendering_seqno.                             *)
(*                                                                         *)
(* gpuUse, gpuDirty and flushAt are not driver state: they say what the    *)
(* hardware still has to do, so that the driver's book-keeping can be      *)
(* compared with it.                                                       *)
(***************************************************************************)
EXTENDS Integers, FiniteSets

CONSTANTS
    Obj,            \* buffer objects
    Client,         \* processes inside the driver (ioctls and page faults)
    Worker,         \* the driver's single work-queue thread
    NoThread,
    GpuDomain,      \* GPU read/write domains (I915_GEM_GPU_DOMAINS)
    ClientOps,      \* the entry points the clients call
    Accesses,       \* the (read, write) domain pairs relocations may declare
    MaxSeqno,       \* bound: execbuffer is not called beyond this seqno
    MaxUserPin,     \* bound: pins one object gets through the pin ioctl
    AllocMayFail,   \* drm_calloc in i915_add_request may return NULL
    BindMayFail,    \* i915_gem_object_bind_to_gtt may fail
    CanHang,        \* the hang check may declare the GPU wedged
    HasReset        \* HAS_RESET(dev_priv)

NoDomain == "0"
Domain == GpuDomain \cup {"CPU", "GTT"}
WriteDomain == Domain \cup {NoDomain}
Thread == Client \cup {Worker}

ExecOps  == {"exec"}
ReadLockOps  == {"pread", "pwrite", "fault_r", "fault_w", "unbind"}
WriteLockOps == {"exec", "pin", "unpin", "hung"}
NoLockOps == {"set_domain_r", "set_domain_w", "busy", "retire"}
Ops == ReadLockOps \cup WriteLockOps \cup NoLockOps
WriteOps == {"pwrite", "fault_w", "set_domain_w", "pin", "exec", "unbind"}

ASSUME ThreadAssumption ==
    /\ Worker \notin Client
    /\ NoThread \notin Client \cup {Worker}
ASSUME DomainAssumption ==
    GpuDomain \cap {NoDomain, "CPU", "GTT"} = {}
ASSUME OpsAssumption ==
    /\ ClientOps \subseteq Ops \ {"retire", "hung"}
    /\ Accesses \subseteq [r : SUBSET Domain, w : WriteDomain]
ASSUME BoundAssumption ==
    /\ MaxSeqno \in Nat
    /\ MaxUserPin \in Nat
    /\ {AllocMayFail, BindMayFail, CanHang, HasReset} \subseteq BOOLEAN

VARIABLES
    hwSeqno,        \* the status page word the GPU writes (I915_GEM_HWS_INDEX)
    ring,           \* seqnos whose store is queued in the ring
    nextSeqno,      \* mm.next_gem_seqno
    requests,       \* seqnos on mm.request_list
    wedged,         \* mm.wedged
    retireTimer,    \* mm.retire_timer is pending
    workq,          \* tasks queued on dev_priv->workq
    list,           \* inteldrm_obj.current_list
    active,         \* objects with I915_ACTIVE
    gpuWrite,       \* mm.gpu_write_list, the objects with I915_GPU_WRITE
    lrs,            \* last_rendering_seqno
    lws,            \* last_write_seqno
    wd,             \* write_domain
    rd,             \* read_domains
    prd,            \* pending_read_domains
    pwd,            \* pending_write_domain
    pin,            \* pin_count
    upin,           \* user_pin_count
    mapped,         \* strongest user mapping of the object's GTT range
    bound,          \* objects whose dmamap is not NULL
    held,           \* who holds the object (DRM_BUSY)
    drmW,           \* writer of dev_lock
    drmR,           \* readers of dev_lock
    inExec,         \* objects with I915_IN_EXEC
    todo,           \* of those, the ones not pinned yet
    th,             \* per thread: where it is and what it does
    gpuUse,         \* last seqno whose completion ends the GPU's use of o
    gpuDirty,       \* GPU caches with writes to o that no queued flush covers
    flushAt         \* seqno after which the flushed writes are in memory

hwVars    == <<hwSeqno, ring>>
reqVars   == <<nextSeqno, requests, retireTimer>>
listVars  == <<list, active, gpuWrite, lrs, lws>>
domVars   == <<wd, rd>>
pendVars  == <<prd, pwd>>
pinVars   == <<pin, upin, bound, mapped>>
lockVars  == <<held, drmW, drmR>>
execVars  == <<inExec, todo>>
workVars  == <<wedged, workq>>
ghostVars == <<gpuUse, gpuDirty, flushAt>>
vars == <<hwVars, reqVars, listVars, domVars, pendVars, pinVars, lockVars,
          execVars, workVars, ghostVars, th>>

Idle == [pc |-> "idle", op |-> "none", obj |-> NoThread, seq |-> 0]

Init ==
    /\ hwSeqno = 0 /\ ring = {}
    /\ nextSeqno = 1 /\ requests = {} /\ retireTimer = FALSE
    /\ wedged = FALSE /\ workq = {}
    /\ list = [o \in Obj |-> "none"]
    /\ active = {} /\ gpuWrite = {}
    /\ lrs = [o \in Obj |-> 0] /\ lws = [o \in Obj |-> 0]
    /\ wd = [o \in Obj |-> "CPU"] /\ rd = [o \in Obj |-> {"CPU"}]
    /\ prd = [o \in Obj |-> {}] /\ pwd = [o \in Obj |-> NoDomain]
    /\ pin = [o \in Obj |-> 0] /\ upin = [o \in Obj |-> 0]
    /\ bound = {} /\ mapped = [o \in Obj |-> "none"]
    /\ held = [o \in Obj |-> NoThread]
    /\ drmW = NoThread /\ drmR = {}
    /\ inExec = {} /\ todo = {}
    /\ th = [t \in Thread |-> Idle]
    /\ gpuUse = [o \in Obj |-> 0]
    /\ gpuDirty = [o \in Obj |-> {}]
    /\ flushAt = [o \in Obj |-> 0]

Goto(t, pc) == th' = [th EXCEPT ![t].pc = pc]
AllocOutcome == IF AllocMayFail THEN BOOLEAN ELSE {TRUE}

-----------------------------------------------------------------------------
(* The engine: what runs under request_lock and list_lock.                 *)

\* i915_seqno_passed, for seqnos counted without a wrap.
\* (The mutant is off by one.)
SeqnoPassedEarly(a, b) == a + 1 >= b
SeqnoPassed(a, b) == a >= b

\* Seqnos as the words that the code keeps them in, of w values.  The next one
\* skips 0, so that the n-th seqno since attach is SeqnoWord(n, w), and 0 for
\* none; i915_seqno_passed takes their difference for a signed number.
NextWord(s, w) == IF (s + 1) % w = 0 THEN 1 ELSE (s + 1) % w
SeqnoWord(n, w) == IF n = 0 THEN 0 ELSE 1 + ((n - 1) % (w - 1))
WordPassed(a, b, w) == ((a - b) % w) < w \div 2

\* The mutant does not queue the store.
AddRequestNoStore(ok) ==
    /\ ok
    /\ nextSeqno' = nextSeqno + 1
    /\ requests' = requests \cup {nextSeqno}
    /\ retireTimer' = (retireTimer \/ requests = {})
    /\ UNCHANGED ring
\* Queue a seqno store and a request for it; nothing happens on ENOMEM.
AddRequest(ok) ==
    IF ok
    THEN /\ nextSeqno' = nextSeqno + 1
         /\ requests' = requests \cup {nextSeqno}
         /\ ring' = ring \cup {nextSeqno}
         /\ retireTimer' = (retireTimer \/ requests = {})
    ELSE UNCHANGED <<nextSeqno, requests, ring, retireTimer>>

\* Put S at the tail of the active list under the next seqno; w gives the
\* write domain each object has at that moment.
MoveToActive(S, w) ==
    /\ active' = active \cup S
    /\ list' = [o \in Obj |-> IF o \in S THEN "active" ELSE list[o]]
    /\ lrs' = [o \in Obj |-> IF o \in S THEN nextSeqno ELSE lrs[o]]
    /\ lws' = [o \in Obj |-> IF o \in S /\ w[o] # NoDomain
                             THEN nextSeqno ELSE lws[o]]

\* The objects process_flushing picks.  (The mutant forgets the list.)
FlushedNone(doms) == {}
Flushed(doms) == {o \in gpuWrite : wd[o] \in doms}

\* Emit MI_FLUSH; if a GPU write domain is flushed, make every object on the
\* GPU write list that is written in it active again and add a request.
GemFlush(doms, ok) ==
    IF doms \cap GpuDomain = {}
    THEN UNCHANGED <<listVars, wd, reqVars, ring, gpuDirty, flushAt>>
    ELSE /\ gpuWrite' = gpuWrite \ Flushed(doms)
         /\ MoveToActive(Flushed(doms), wd)
         /\ wd' = [o \in Obj |-> IF o \in Flushed(doms) THEN NoDomain
                                 ELSE wd[o]]
         /\ AddRequest(ok)
         /\ gpuDirty' = [o \in Obj |-> gpuDirty[o] \ doms]
         /\ flushAt' = [o \in Obj |-> IF gpuDirty[o] \cap doms # {}
                                      THEN nextSeqno ELSE flushAt[o]]

\* The head of the request list.  (The mutant takes any request.)
IsAny(r) == r \in requests
IsOldest(r) == r \in requests /\ \A q \in requests : r <= q

\* The run of objects at the head of the active list rendered by request r.
\* (The mutant goes on past the objects of that request.)
RenderedAll(r) == {o \in Obj : list[o] = "active"}
Rendered(r) ==
    {o \in Obj : /\ list[o] = "active" /\ lrs[o] = r
                 /\ \A p \in Obj : list[p] = "active" => lrs[o] <= lrs[p]}

\* Where an idle object goes.  (The mutant forgets that it may be pinned.)
InactiveAlways(o) == "inactive"
InactiveList(o) == IF pin[o] # 0 THEN "none" ELSE "inactive"

\* Take r off the request list and its objects off the active list: to the
\* flushing list while they have a write domain, else to the inactive list.
RetireRequest(r) ==
    LET S == Rendered(r) IN
    /\ requests' = requests \ {r}
    /\ list' = [o \in Obj |->
                  IF o \notin S THEN list[o]
                  ELSE IF wd[o] # NoDomain THEN "flushing"
                  ELSE InactiveList(o)]
    /\ active' = active \ {o \in S : wd[o] = NoDomain}
    /\ lrs' = [o \in Obj |-> IF o \in S THEN 0 ELSE lrs[o]]
    /\ lws' = [o \in Obj |-> IF o \in S /\ wd[o] = NoDomain THEN 0
                             ELSE lws[o]]
    /\ UNCHANGED <<nextSeqno, retireTimer, gpuWrite>>

PinObject(o) ==
    /\ pin' = [pin EXCEPT ![o] = @ + 1]
    /\ list' = IF pin[o] = 0 /\ o \notin active
               THEN [list EXCEPT ![o] = "none"] ELSE list

\* Unpin every object of S once; a last unpin of an idle object makes it
\* inactive (move_off_active resets its seqnos).
UnpinObjects(S) ==
    LET free == {o \in S : pin[o] = 1 /\ o \notin active} IN
    /\ pin' = [o \in Obj |-> IF o \in S THEN pin[o] - 1 ELSE pin[o]]
    /\ list' = [o \in Obj |-> IF o \in free THEN "inactive" ELSE list[o]]
    /\ lrs' = [o \in Obj |-> IF o \in free THEN 0 ELSE lrs[o]]
    /\ lws' = [o \in Obj |-> IF o \in free /\ wd[o] = NoDomain THEN 0
                             ELSE lws[o]]
    /\ UNCHANGED <<active, gpuWrite>>

-----------------------------------------------------------------------------
(* Entering the driver: the operation, its lock, its object.               *)

\* A client calls an entry point on an object.
Call(t, op, o) ==
    /\ th[t].pc = "idle"
    /\ op = "pin" => upin[o] < MaxUserPin
    /\ op \in ExecOps => nextSeqno <= MaxSeqno
    /\ th' = [th EXCEPT ![t] = [pc |-> IF op = "busy" THEN "busy"
                                       ELSE IF op \in NoLockOps THEN "hold"
                                       ELSE "lock",
                                op |-> op, seq |-> 0,
                                obj |-> IF op \in ExecOps THEN NoThread
                                                          ELSE o]]
    /\ UNCHANGED <<hwVars, reqVars, listVars, domVars, pendVars, pinVars,
                   lockVars, execVars, workVars, ghostVars>>

\* The work queue runs a queued task.
RunTask(task) ==
    /\ th[Worker].pc = "idle"
    /\ task \in workq
    /\ workq' = workq \ {task}
    /\ th' = [th EXCEPT ![Worker] =
                 [pc |-> IF task = "hung" THEN "lock" ELSE "retire",
                  op |-> task, obj |-> NoThread, seq |-> hwSeqno]]
    /\ UNCHANGED <<hwVars, reqVars, listVars, domVars, pendVars, pinVars,
                   lockVars, execVars, wedged, ghostVars>>

ReadLock(t) ==
    /\ th[t].pc = "lock" /\ th[t].op \in ReadLockOps
    /\ drmW = NoThread
    /\ drmR' = drmR \cup {t}
    /\ Goto(t, "hold")
    /\ UNCHANGED <<hwVars, reqVars, listVars, domVars, pendVars, pinVars,
                   held, drmW, execVars, workVars, ghostVars>>

WriteLock(t) ==
    /\ th[t].pc = "lock" /\ th[t].op \in {"pin", "unpin", "hung"}
    /\ drmW = NoThread /\ drmR = {}
    /\ drmW' = t
    /\ Goto(t, IF th[t].op = "hung" THEN "hung_reset" ELSE "hold")
    /\ UNCHANGED <<hwVars, reqVars, listVars, domVars, pendVars, pinVars,
                   held, drmR, execVars, workVars, ghostVars>>

\* execbuffer2 takes dev_lock, refuses a wedged GPU, looks up its objects and
\* marks them I915_IN_EXEC; acc is what the relocations will declare.
ExecLock(t, batch, acc) ==
    /\ th[t].pc = "lock" /\ th[t].op \in ExecOps
    /\ drmW = NoThread /\ drmR = {}
    /\ IF wedged
       THEN /\ th' = [th EXCEPT ![t] = Idle]
            /\ UNCHANGED <<drmW, execVars, pendVars>>
       ELSE /\ drmW' = t
            /\ inExec' = batch /\ todo' = batch
            /\ prd' = [o \in Obj |-> IF o \in batch THEN acc[o].r ELSE prd[o]]
            /\ pwd' = [o \in Obj |-> IF o \in batch THEN acc[o].w ELSE pwd[o]]
            /\ Goto(t, "exec_pin")
    /\ UNCHANGED <<hwVars, reqVars, listVars, domVars, pinVars, held, drmR,
                   workVars, ghostVars>>

\* drm_hold_object, after which t goes on at pc.
Hold(t, pc) ==
    /\ th[t].pc = "hold" /\ held[th[t].obj] = NoThread
    /\ held' = [held EXCEPT ![th[t].obj] = t]
    /\ Goto(t, pc)
    /\ UNCHANGED <<hwVars, reqVars, domVars, pendVars, drmW, drmR, execVars,
                   workVars, ghostVars>>

\* pread, pwrite and faults go on to bind the object.
AccessHold(t) ==
    /\ th[t].op \in {"pread", "pwrite", "fault_r", "fault_w"}
    /\ Hold(t, "bind")
    /\ UNCHANGED <<listVars, pinVars>>

\* An unbound object has no GTT domain to be in.
SetDomainHold(t) ==
    /\ th[t].op \in {"set_domain_r", "set_domain_w"}
    /\ Hold(t, IF th[t].obj \in bound THEN "flush" ELSE "out")
    /\ UNCHANGED <<listVars, pinVars>>

\* Unbinding leaves pinned objects alone.
UnbindHold(t) ==
    LET o == th[t].obj IN
    /\ th[t].op = "unbind"
    /\ Hold(t, IF o \in bound /\ pin[o] = 0 THEN "flush" ELSE "out")
    /\ UNCHANGED <<listVars, pinVars>>

\* Only the first pin through the ioctl pins the object.
PinHold(t) ==
    LET o == th[t].obj IN
    /\ th[t].op = "pin"
    /\ Hold(t, IF upin[o] = 0 THEN "bind" ELSE "flush")
    /\ upin' = [upin EXCEPT ![o] = @ + 1]
    /\ UNCHANGED <<listVars, pin, bound, mapped>>

\* The unpin ioctl refuses an object no user pinned; the last unpin unpins.
UnpinHold(t) ==
    LET o == th[t].obj IN
    /\ th[t].op = "unpin"
    /\ Hold(t, "out")
    /\ upin' = IF upin[o] > 0 THEN [upin EXCEPT ![o] = @ - 1] ELSE upin
    /\ IF upin[o] = 1 THEN UnpinObjects({o}) ELSE UNCHANGED <<listVars, pin>>
    /\ UNCHANGED <<bound, mapped>>

\* Pin through i915_gem_object_pin (pread, pwrite, pin ioctl) or bind and
\* put on the inactive list (fault).  An unbound object may fail to bind.
Bind(t) ==
    LET o == th[t].obj IN
    /\ th[t].pc = "bind"
    /\ \/ /\ o \notin bound /\ BindMayFail
          /\ Goto(t, "out")
          /\ UNCHANGED <<listVars, pinVars>>
       \/ /\ bound' = bound \cup {o}
          /\ Goto(t, "flush")
          /\ IF th[t].op \in {"pread", "pwrite", "pin"}
             THEN PinObject(o) /\ UNCHANGED <<lrs, lws>>
             ELSE IF o \in bound
             THEN UNCHANGED <<pin, list, lrs, lws>>
             ELSE /\ list' = [list EXCEPT ![o] = InactiveList(o)]
                  /\ lrs' = [lrs EXCEPT ![o] = 0]
                  /\ lws' = IF wd[o] = NoDomain THEN [lws EXCEPT ![o] = 0]
                                                ELSE lws
                  /\ UNCHANGED pin
          /\ UNCHANGED <<active, gpuWrite, upin, mapped>>
    /\ UNCHANGED <<hwVars, reqVars, domVars, pendVars, lockVars, execVars,
                   workVars, ghostVars>>

-----------------------------------------------------------------------------
(* flush_gpu_write_domain, wait_request and the domain change they guard.  *)

\* Where an operation goes when moving its object to a domain fails.
ErrorPc(op) == IF op \in {"pread", "pwrite"} THEN "unpin"
               ELSE IF op \in ExecOps THEN "reloc_err" ELSE "out"

Flush(t) ==
    /\ th[t].pc = "flush" /\ wd[th[t].obj] \in GpuDomain
    /\ \E ok \in AllocOutcome : GemFlush({wd[th[t].obj]}, ok)
    /\ UNCHANGED <<hwSeqno, rd, pendVars, pinVars, lockVars, execVars,
                   workVars, gpuUse, th>>

\* The seqno flush_gpu_write_domain waits for: a reader of the object only
\* needs the GPU's writes to it.  (The mutant lets writers wait for no more.)
WaitSeqnoWrite(t) == lws[th[t].obj]
WaitSeqno(t) ==
    IF th[t].op \in WriteOps THEN lrs[th[t].obj] ELSE lws[th[t].obj]

\* The entry of i915_wait_request, for an object that is active.
Wait(t) ==
    LET o == th[t].obj
        seq == WaitSeqno(t) IN
    /\ th[t].pc = "flush" /\ wd[o] \notin GpuDomain
    /\ IF o \notin active
       THEN Goto(t, "domain") /\ UNCHANGED <<reqVars, ring>>
       ELSE IF wedged
       THEN Goto(t, ErrorPc(th[t].op)) /\ UNCHANGED <<reqVars, ring>>
       ELSE IF seq # nextSeqno
       THEN /\ th' = [th EXCEPT ![t].pc = "sleep", ![t].seq = seq]
            /\ UNCHANGED <<reqVars, ring>>
       ELSE \E ok \in AllocOutcome :
              /\ AddRequest(ok)
              /\ th' = [th EXCEPT ![t].pc = IF ok THEN "sleep"
                                           ELSE ErrorPc(th[t].op),
                                 ![t].seq = seq]
    /\ UNCHANGED <<hwSeqno, listVars, domVars, pendVars, pinVars, lockVars,
                   execVars, workVars, ghostVars>>

\* The sleep ends when the GPU has passed the seqno or is declared wedged.
Wake(t) ==
    /\ th[t].pc = "sleep"
    /\ SeqnoPassed(hwSeqno, th[t].seq) \/ wedged
    /\ th' = IF wedged
             THEN [th EXCEPT ![t].pc = ErrorPc(th[t].op)]
             ELSE [th EXCEPT ![t].pc = "retire", ![t].seq = hwSeqno]
    /\ UNCHANGED <<hwVars, reqVars, listVars, domVars, pendVars, pinVars,
                   lockVars, execVars, workVars, ghostVars>>

\* A signal ends the sleep of an ioctl; a page fault sleeps on.
Interrupt(t) ==
    /\ th[t].pc = "sleep" /\ th[t].op \notin {"fault_r", "fault_w"}
    /\ ~SeqnoPassed(hwSeqno, th[t].seq) /\ ~wedged
    /\ Goto(t, ErrorPc(th[t].op))
    /\ UNCHANGED <<hwVars, reqVars, listVars, domVars, pendVars, pinVars,
                   lockVars, execVars, workVars, ghostVars>>

\* One turn of the loop of i915_gem_retire_requests.
Retire(t) ==
    /\ th[t].pc = "retire"
    /\ \E r \in requests :
         /\ IsOldest(r)
         /\ SeqnoPassed(th[t].seq, r) \/ wedged
         /\ RetireRequest(r)
    /\ UNCHANGED <<hwVars, domVars, pendVars, pinVars, lockVars, execVars,
                   workVars, ghostVars, th>>

\* The handler re-arms its timer while requests are left.  (The mutant does
\* not.)
RearmNever(t) == retireTimer
Rearm(t) == retireTimer \/ (th[t].op = "retire" /\ requests # {})

\* The loop ends; the work-queue handler re-arms its timer.
RetireEnd(t) ==
    /\ th[t].pc = "retire"
    /\ \A r \in requests : ~SeqnoPassed(th[t].seq, r) /\ ~wedged
    /\ th' = [th EXCEPT ![t] = IF th[t].op \in {"retire", "busy"} THEN Idle
                               ELSE [@ EXCEPT !.seq = 0, !.pc =
                                       IF th[t].op = "hung" THEN "hung_clear"
                                       ELSE "domain"]]
    /\ retireTimer' = Rearm(t)
    /\ UNCHANGED <<hwVars, nextSeqno, requests, listVars, domVars, pendVars,
                   pinVars, lockVars, execVars, workVars, ghostVars>>

\* The rest of i915_gem_object_set_to_gtt_domain.
GttDomain(t) ==
    LET o == th[t].obj
        op == th[t].op IN
    /\ th[t].pc = "domain" /\ op # "unbind"
    /\ wd' = [wd EXCEPT ![o] = IF op \in WriteOps THEN "GTT"
                               ELSE IF wd[o] = "CPU" THEN NoDomain ELSE @]
    /\ rd' = [rd EXCEPT ![o] = IF op \in WriteOps THEN {"GTT"}
                               ELSE @ \cup {"GTT"}]
    /\ mapped' = IF op = "fault_w" THEN [mapped EXCEPT ![o] = "w"]
                 ELSE IF op = "fault_r" /\ mapped[o] = "none"
                 THEN [mapped EXCEPT ![o] = "r"] ELSE mapped
    /\ Goto(t, IF op \in ExecOps THEN "exec_pin"
               ELSE IF op \in ReadLockOps THEN "access" ELSE "out")
    /\ UNCHANGED <<hwVars, reqVars, listVars, pendVars, pin, upin, bound,
                   lockVars, execVars, workVars, ghostVars>>

\* What unbinding does to an idle object: into the CPU domain, its GTT
\* mappings gone if it was in the GTT domain, and off every list.
UnbindObject(o) ==
    /\ wd' = [wd EXCEPT ![o] = "CPU"]
    /\ rd' = [rd EXCEPT ![o] = {"CPU"}]
    /\ mapped' = IF wd[o] = "GTT" \/ "GTT" \in rd[o]
                 THEN [mapped EXCEPT ![o] = "none"] ELSE mapped
    /\ bound' = bound \ {o}
    /\ list' = [list EXCEPT ![o] = "none"]
    /\ UNCHANGED <<active, gpuWrite, lrs, lws, pin, upin>>

Unbind(t) ==
    /\ th[t].pc = "domain" /\ th[t].op = "unbind"
    /\ UnbindObject(th[t].obj)
    /\ Goto(t, "out")
    /\ UNCHANGED <<hwVars, reqVars, pendVars, lockVars, execVars, workVars,
                   ghostVars>>

\* pread and pwrite unpin the object once they have copied or have failed.
Unpin(t) ==
    /\ \/ th[t].pc = "unpin"
       \/ th[t].pc = "access" /\ th[t].op \in {"pread", "pwrite"}
    /\ UnpinObjects({th[t].obj})
    /\ Goto(t, "out")
    /\ UNCHANGED <<hwVars, reqVars, domVars, pendVars, upin, bound, mapped,
                   lockVars, execVars, workVars, ghostVars>>

\* Unhold the object, release dev_lock, return.
Return(t) ==
    /\ \/ th[t].pc = "out"
       \/ th[t].pc = "access" /\ th[t].op \in {"fault_r", "fault_w"}
    /\ held' = [held EXCEPT ![th[t].obj] = NoThread]
    /\ drmR' = drmR \ {t}
    /\ drmW' = IF drmW = t THEN NoThread ELSE drmW
    /\ th' = [th EXCEPT ![t] = Idle]
    /\ UNCHANGED <<hwVars, reqVars, listVars, domVars, pendVars, pinVars,
                   execVars, workVars, ghostVars>>

\* i915_gem_busy_ioctl: flush and retire an active object, without holding it.
Busy(t) ==
    LET o == th[t].obj IN
    /\ th[t].pc = "busy"
    /\ IF o \in active
       THEN /\ \E ok \in AllocOutcome : GemFlush({wd[o]}, ok)
            /\ th' = [th EXCEPT ![t].pc = "retire", ![t].seq = hwSeqno]
       ELSE /\ th' = [th EXCEPT ![t] = Idle]
            /\ UNCHANGED <<listVars, wd, reqVars, ring, gpuDirty, flushAt>>
    /\ UNCHANGED <<hwSeqno, rd, pendVars, pinVars, lockVars, execVars,
                   workVars, gpuUse>>

-----------------------------------------------------------------------------
(* i915_gem_execbuffer2.                                                   *)

\* Hold, bind, pin and relocate one object of the list.  A relocation that
\* has to be written moves the object to the GTT domain first.
ExecPin(t, o) ==
    /\ th[t].pc = "exec_pin"
    /\ o \in todo /\ held[o] = NoThread
    /\ \/ /\ o \notin bound /\ BindMayFail
          /\ Goto(t, "exec_err")
          /\ UNCHANGED <<list, pinVars, held, todo>>
       \/ /\ held' = [held EXCEPT ![o] = t]
          /\ bound' = bound \cup {o}
          /\ PinObject(o)
          /\ todo' = todo \ {o}
          /\ \E relocated \in BOOLEAN :
               th' = [th EXCEPT ![t].pc = IF relocated THEN "flush"
                                          ELSE "exec_pin",
                                ![t].obj = IF relocated THEN o ELSE NoThread]
          /\ UNCHANGED <<upin, mapped>>
    /\ UNCHANGED <<hwVars, reqVars, active, gpuWrite, lrs, lws, domVars,
                   pendVars, drmW, drmR, inExec, workVars, ghostVars>>

\* Writing a relocation failed: unpin and unhold that object.
ExecRelocError(t) ==
    /\ th[t].pc = "reloc_err"
    /\ UnpinObjects({th[t].obj})
    /\ held' = [held EXCEPT ![th[t].obj] = NoThread]
    /\ Goto(t, "exec_err")
    /\ UNCHANGED <<hwVars, reqVars, domVars, pendVars, upin, bound, mapped,
                   drmW, drmR, execVars, workVars, ghostVars>>

\* i915_gem_object_set_to_gpu_domain: the read domains o will have, and the
\* caches that must be flushed and invalidated before.
NewReads(o) == IF pwd[o] = NoDomain THEN prd[o] \cup rd[o] ELSE prd[o]
FlushOf(o) == IF wd[o] # NoDomain /\ NewReads(o) # {wd[o]} THEN {wd[o]} ELSE {}
InvalidateOf(o) ==
    (NewReads(o) \ rd[o]) \cup
    (IF FlushOf(o) # {} THEN NewReads(o) \ {wd[o]} ELSE {})

\* The GTT mappings that set_to_gpu_domain removes.  (The mutant: none.)
WipesNone(o) == FALSE
Wipes(o) == o \in inExec /\ "GTT" \in FlushOf(o) \cup InvalidateOf(o)

\* Set every object's next domains, then flush what they need flushed.
ExecFlush(t) ==
    LET flush == UNION {FlushOf(o) : o \in inExec} IN
    /\ th[t].pc = "exec_pin" /\ todo = {}
    /\ pwd' = [o \in Obj |->
                 IF o \in inExec /\ FlushOf(o) = {} /\ pwd[o] = NoDomain
                 THEN wd[o] ELSE pwd[o]]
    /\ rd' = [o \in Obj |-> IF o \in inExec THEN NewReads(o) ELSE rd[o]]
    /\ prd' = [o \in Obj |-> IF o \in inExec THEN {} ELSE prd[o]]
    /\ mapped' = [o \in Obj |-> IF Wipes(o) THEN "none" ELSE mapped[o]]
    /\ \E ok \in AllocOutcome : GemFlush(flush, ok)
    /\ Goto(t, "exec_dispatch")
    /\ UNCHANGED <<hwSeqno, pin, upin, bound, lockVars, execVars, workVars,
                   gpuUse>>

\* Under request_lock: the write domains, the GPU write list, the active
\* list, then the batch itself and its request.
ExecDispatch(t) ==
    LET written == {o \in inExec : pwd[o] # NoDomain} IN
    /\ th[t].pc = "exec_dispatch"
    /\ wd' = [o \in Obj |-> IF o \in inExec THEN pwd[o] ELSE wd[o]]
    /\ gpuWrite' = (gpuWrite \ inExec) \cup written
    /\ MoveToActive(inExec, wd')
    /\ \E ok \in AllocOutcome : AddRequest(ok)
    /\ gpuUse' = [o \in Obj |-> IF o \in inExec THEN nextSeqno ELSE gpuUse[o]]
    /\ gpuDirty' = [o \in Obj |->
                      IF o \in written /\ pwd[o] \in GpuDomain
                      THEN gpuDirty[o] \cup {pwd[o]} ELSE gpuDirty[o]]
    /\ Goto(t, "exec_err")
    /\ UNCHANGED <<hwSeqno, rd, pendVars, pinVars, lockVars, execVars,
                   workVars, flushAt>>

\* The common exit, taken after success too: clear I915_IN_EXEC, unpin and
\* unhold what was pinned, unlock.  (The pending domains are dead from here
\* on: the next execbuffer zeroes them before it reads them.)
ExecExit(t) ==
    LET pinned == {o \in Obj : held[o] = t} IN
    /\ th[t].pc = "exec_err"
    /\ UnpinObjects(pinned)
    /\ held' = [o \in Obj |-> IF o \in pinned THEN NoThread ELSE held[o]]
    /\ inExec' = {} /\ todo' = {}
    /\ prd' = [o \in Obj |-> {}] /\ pwd' = [o \in Obj |-> NoDomain]
    /\ drmW' = NoThread
    /\ th' = [th EXCEPT ![t] = Idle]
    /\ UNCHANGED <<hwVars, reqVars, domVars, upin, bound, mapped,
                   drmR, workVars, ghostVars>>

-----------------------------------------------------------------------------
(* The hardware, its timers, and the reset after a hang.                   *)

\* The GPU executes up to the next seqno store in the ring.
GpuProgress ==
    \E s \in ring :
      /\ \A r \in ring : s <= r
      /\ hwSeqno' = s
      /\ ring' = ring \ {s}
      /\ UNCHANGED <<reqVars, listVars, domVars, pendVars, pinVars, lockVars,
                     execVars, workVars, ghostVars, th>>

\* inteldrm_timeout: queue the retire handler, unless the task cannot be
\* allocated.
RetireTimeout ==
    /\ retireTimer
    /\ retireTimer' = FALSE
    /\ \E ok \in AllocOutcome :
         workq' = IF ok THEN workq \cup {"retire"} ELSE workq
    /\ UNCHANGED <<hwVars, nextSeqno, requests, listVars, domVars, pendVars,
                   pinVars, lockVars, execVars, wedged, ghostVars, th>>

\* inteldrm_hangcheck gives the GPU up and, through inteldrm_error, queues
\* the reset.  The hang timer, which a new request arms again, and an error
\* register that reads zero are not modelled: a hang is declared once until
\* its reset task has ended.
HangCheck ==
    /\ CanHang /\ ~wedged
    /\ requests # {} /\ ring # {}
    /\ wedged' = TRUE
    /\ \E ok \in AllocOutcome :
         workq' = IF ok THEN workq \cup {"hung"} ELSE workq
    /\ UNCHANGED <<hwVars, reqVars, listVars, domVars, pendVars, pinVars,
                   lockVars, execVars, ghostVars, th>>

\* inteldrm_965_reset: the ring restarts empty, GPU caches are gone, and
\* dev_lock is dropped while the interrupt handler is reinstalled.
HungReset ==
    /\ th[Worker].pc = "hung_reset"
    /\ IF HasReset
       THEN /\ ring' = {}
            /\ gpuUse' = [o \in Obj |-> 0]
            /\ gpuDirty' = [o \in Obj |-> {}]
            /\ flushAt' = [o \in Obj |-> 0]
            /\ drmW' = NoThread
            /\ Goto(Worker, "relock")
            /\ UNCHANGED hwSeqno
       ELSE /\ th' = [th EXCEPT ![Worker].pc = "retire",
                                ![Worker].seq = hwSeqno]
            /\ UNCHANGED <<hwVars, ghostVars, drmW>>
    /\ UNCHANGED <<reqVars, listVars, domVars, pendVars, pinVars, held, drmR,
                   execVars, workVars>>

HungRelock ==
    /\ th[Worker].pc = "relock"
    /\ drmW = NoThread /\ drmR = {}
    /\ drmW' = Worker
    /\ th' = [th EXCEPT ![Worker].pc = "retire", ![Worker].seq = hwSeqno]
    /\ UNCHANGED <<hwVars, reqVars, listVars, domVars, pendVars, pinVars,
                   held, drmR, execVars, workVars, ghostVars>>

\* Everything on the flushing list becomes inactive without a flush.
HungClear ==
    LET S == {o \in Obj : list[o] = "flushing"}
        gpu == {o \in S : wd[o] \in GpuDomain} IN
    /\ th[Worker].pc = "hung_clear"
    /\ gpuWrite' = gpuWrite \ gpu
    /\ wd' = [o \in Obj |-> IF o \in gpu THEN NoDomain ELSE wd[o]]
    /\ list' = [o \in Obj |-> IF o \in S THEN InactiveList(o) ELSE list[o]]
    /\ active' = active \ S
    /\ lrs' = [o \in Obj |-> IF o \in S THEN 0 ELSE lrs[o]]
    /\ lws' = [o \in Obj |-> IF o \in gpu THEN 0 ELSE lws[o]]
    /\ Goto(Worker, "hung_evict")
    /\ UNCHANGED <<hwVars, reqVars, rd, pendVars, pinVars, lockVars, execVars,
                   workVars, ghostVars>>

\* i915_gem_evict_inactive, one object.
HungEvict(o) ==
    /\ th[Worker].pc = "hung_evict"
    /\ list[o] = "inactive" /\ held[o] = NoThread
    /\ UnbindObject(o)
    /\ UNCHANGED <<hwVars, reqVars, pendVars, lockVars, execVars, workVars,
                   ghostVars, th>>

HungEnd ==
    /\ th[Worker].pc = "hung_evict"
    /\ \A o \in Obj : list[o] # "inactive"
    /\ wedged' = (wedged /\ ~HasReset)
    /\ drmW' = NoThread
    /\ th' = [th EXCEPT ![Worker] = Idle]
    /\ UNCHANGED <<hwVars, reqVars, listVars, domVars, pendVars, pinVars, held,
                   drmR, execVars, workq, ghostVars>>

-----------------------------------------------------------------------------
ExecLockAny(t) ==
    \E batch \in SUBSET Obj \ {{}} :
      \E acc \in [batch -> Accesses] : ExecLock(t, batch, acc)

\* What a client inside the driver does next.
Continue(t) ==
    \/ ReadLock(t) \/ WriteLock(t) \/ ExecLockAny(t)
    \/ AccessHold(t) \/ SetDomainHold(t) \/ UnbindHold(t) \/ PinHold(t)
    \/ UnpinHold(t)
    \/ Bind(t) \/ Flush(t) \/ Wait(t) \/ Wake(t) \/ Interrupt(t)
    \/ Retire(t) \/ RetireEnd(t) \/ GttDomain(t) \/ Unbind(t)
    \/ Unpin(t) \/ Return(t) \/ Busy(t)
    \/ \E o \in Obj : ExecPin(t, o)
    \/ ExecRelocError(t) \/ ExecFlush(t) \/ ExecDispatch(t) \/ ExecExit(t)

Work ==
    \/ \E task \in {"retire", "hung"} : RunTask(task)
    \/ WriteLock(Worker) \/ Retire(Worker) \/ RetireEnd(Worker)
    \/ HungReset \/ HungRelock \/ HungClear \/ HungEnd
    \/ \E o \in Obj : HungEvict(o)

Next ==
    \/ \E t \in Client, op \in ClientOps, o \in Obj : Call(t, op, o)
    \/ \E t \in Client : Continue(t)
    \/ Work
    \/ GpuProgress \/ RetireTimeout \/ HangCheck

Spec == Init /\ [][Next]_vars

-----------------------------------------------------------------------------
(* Properties.                                                             *)

Pcs == {"idle", "lock", "hold", "bind", "flush", "sleep", "retire", "domain",
        "access", "unpin", "out", "busy", "exec_pin", "reloc_err",
        "exec_dispatch", "exec_err", "hung_reset", "relock", "hung_clear",
        "hung_evict"}

DataOK ==
    /\ hwSeqno \in Nat /\ ring \subseteq Nat
    /\ nextSeqno \in Nat \ {0} /\ requests \subseteq Nat
    /\ retireTimer \in BOOLEAN
    /\ wedged \in BOOLEAN /\ workq \subseteq {"retire", "hung"}
    /\ list \in [Obj -> {"none", "active", "flushing", "inactive"}]
    /\ active \subseteq Obj /\ gpuWrite \subseteq Obj
    /\ lrs \in [Obj -> Nat] /\ lws \in [Obj -> Nat]
    /\ wd \in [Obj -> WriteDomain] /\ rd \in [Obj -> SUBSET Domain]
    /\ prd \in [Obj -> SUBSET Domain] /\ pwd \in [Obj -> WriteDomain]
    /\ pin \in [Obj -> Int] /\ upin \in [Obj -> Nat]
    /\ bound \subseteq Obj /\ mapped \in [Obj -> {"none", "r", "w"}]
    /\ held \in [Obj -> Thread \cup {NoThread}]
    /\ drmW \in Thread \cup {NoThread} /\ drmR \subseteq Thread
    /\ inExec \subseteq Obj /\ todo \subseteq inExec
    /\ gpuUse \in [Obj -> Nat] /\ gpuDirty \in [Obj -> SUBSET GpuDomain]
    /\ flushAt \in [Obj -> Nat]

ThreadOK == th \in [Thread -> [pc : Pcs, op : Ops \cup {"none"},
                               obj : Obj \cup {NoThread}, seq : Nat]]

\* The type invariant; 0 is reserved for "no seqno" and never handed out, and
\* no list, flag, lock or thread names anything but an object or a thread.
TypeOK == DataOK /\ ThreadOK

\* An object leaves the active list only when the GPU has executed every
\* batch that uses it: i915_gem_retire_request goes by seqnos alone, and this
\* is what makes the inactive list safe to unbind from.  A wedged GPU is
\* exempt, everything is retired then and the reset forgets the batches.
RetireSafe ==
    \A o \in Obj : gpuUse[o] > hwSeqno /\ ~wedged =>
        list[o] = "active" /\ lrs[o] >= gpuUse[o]

\* Writes in a GPU cache are never forgotten: until a flush is queued the
\* object is on the GPU write list under that domain, and until that flush
\* has completed it stays active.
WritesTracked ==
    \A o \in Obj : ~wedged =>
        /\ gpuDirty[o] # {} => o \in gpuWrite /\ gpuDirty[o] = {wd[o]}
        /\ flushAt[o] > hwSeqno =>
             /\ list[o] = "active"
             /\ lrs[o] >= flushAt[o] /\ lws[o] >= flushAt[o]

Accessing(t) ==
    th[t].pc = "access" \/ (th[t].pc = "domain" /\ th[t].op # "none")

\* When pread, pwrite, a fault, a relocation or an unbind touches the pages,
\* all GPU writes to them have landed, and a writer finds no batch that
\* still uses them.
CpuAccessSafe ==
    \A t \in Client : Accessing(t) /\ ~wedged =>
        LET o == th[t].obj IN
        /\ gpuDirty[o] = {} /\ flushAt[o] <= hwSeqno
        /\ th[t].op \in WriteOps => gpuUse[o] <= hwSeqno

\* What the comments on the lists in struct inteldrm_softc and
\* inteldrm_verify_inactive promise: I915_ACTIVE says the object is on the
\* active or flushing list; the GPU write list is part of those; an inactive
\* object is bound, idle, unpinned and has no GPU write domain.
ListsConsistent ==
    \A o \in Obj :
        /\ o \in active <=> list[o] \in {"active", "flushing"}
        /\ o \in gpuWrite <=> o \in active /\ wd[o] \in GpuDomain
        /\ list[o] # "none" \/ pin[o] > 0 => o \in bound
        /\ list[o] = "flushing" => lrs[o] = 0 /\ wd[o] \in GpuDomain
        /\ list[o] = "inactive" =>
             lrs[o] = 0 /\ pin[o] = 0 /\ wd[o] \notin GpuDomain

\* Every active object waits for a seqno that is on the request list or will
\* be the next one, so some retirement will meet it at the head of the list.
NoneStranded ==
    \A o \in Obj : list[o] = "active" => lrs[o] \in requests \cup {nextSeqno}

\* While requests are outstanding somebody will come to retire them: the
\* timer is pending, or its task is queued or running.
RetireArmed ==
    requests # {} => \/ retireTimer
                     \/ "retire" \in workq
                     \/ th[Worker].op = "retire"

\* The KASSERTs of the domain changes: no GPU write domain is left, and an
\* object being unbound is not active.
DomainAsserts ==
    \A t \in Client : th[t].pc = "domain" =>
        LET o == th[t].obj IN
        /\ wd[o] \in {NoDomain, "CPU", "GTT"}
        /\ th[t].op = "unbind" => o \notin active

\* A writable user mapping exists only while the GTT is the write domain.
WriteMappingTracked ==
    \A o \in Obj : mapped[o] = "w" => wd[o] = "GTT"

\* Fairness: the GPU and the callout make progress, the work queue and the
\* clients inside the driver are scheduled.  No lock or hold is assumed fair.
Fairness ==
    /\ WF_vars(GpuProgress)
    /\ WF_vars(RetireTimeout)
    /\ WF_vars(Work)
    /\ \A t \in Client : WF_vars(Wake(t)) /\ WF_vars(Retire(t))

FairSpec == Spec /\ Fairness

\* Every request is retired although no client ever waits for it: the timer,
\* its re-arming by the handler and the work queue suffice.
RequestsRetired ==
    \A r \in 1..(MaxSeqno + 4) : r \in requests ~> r \notin requests

\* i915_wait_request returns: the seqno it sleeps on passes or it sees the
\* GPU wedged.
WaitersWake ==
    \A t \in Client : th[t].pc = "sleep" ~> th[t].pc # "sleep"

-----------------------------------------------------------------------------
(* Promises of comments and assertions that the code does not keep in every *)
(* environment.                                                             *)

\* An object pinned through the pin ioctl is pinned, as user_pin_count's
\* comment and the KASSERT of i915_gem_object_unpin have it.
UserPinIsPin ==
    \A o \in Obj : held[o] = NoThread /\ upin[o] > 0 => pin[o] > 0

\* inteldrm_fault: a mapping made by a read fault never shows an object with
\* GPU writes that have not landed ("fully coherent with the gpu re mmap").
MappingCoherent ==
    \A o \in Obj : mapped[o] # "none" =>
        gpuDirty[o] = {} /\ flushAt[o] <= hwSeqno

=============================================================================
