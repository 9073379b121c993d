------------------------------ MODULE Recovery ------------------------------
(***************************************************************************)
(* What happens when the GPU stops, and when the X server leaves its       *)
(* virtual terminal (i915_drv.c: inteldrm_hangcheck, inteldrm_error,       *)
(* inteldrm_hung, inteldrm_965_reset, i915_gem_idle, the entervt and       *)
(* leavevt ioctls, and the sleep of i915_wait_request that they end).      *)
(*                                                                         *)
(* Ioctls, the work queue, the callouts and the interrupt handler all run  *)
(* under the kernel lock, which a thread gives up only when it sleeps: one *)
(* action is what a thread does from one sleep to the next.  GemCore has   *)
(* the domains and the lists in detail; here an object is on a list, has   *)
(* GPU writes that no flush covers (dirty) or not, and that is all.        *)
(*                                                                         *)
(* Modelled are the chips that can be reset (HAS_RESET): the 965, whose    *)
(* status page is allocated once and for all, and G4X and Ironlake, whose  *)
(* status page comes and goes with the ring (I915_NEED_GFX_HWS).           *)
(***************************************************************************)
EXTENDS Integers, FiniteSets

CONSTANTS
    Client,         \* processes that draw
    Master,         \* the X server, which switches terminals
    Worker,         \* the thread of the driver's work queue
    None,           \* no thread
    Obj,            \* buffer objects
    Pinned,         \* those pinned through the pin ioctl
    Chips,          \* the chips there may be
    PageErrors,     \* a failing GPU may raise a page table error interrupt
    ErrorsShow,     \* a hung GPU has a bit of EIR set, and the reset task
                    \* can be allocated
    Numbers,        \* bound: the seqnos user land names in irq_wait, or gets
                    \* from irq_emit
    SignalOps,      \* the ioctls a signal may end
    Hasty,          \* the hang timer may go off, and the X server be back,
                    \* before a thread that could run has run
    MaxSeqno,       \* bound: no execbuffer after this many requests
    MaxHangs,       \* bound: how often the GPU stops
    MaxSwitches     \* bound: how often the X server comes back

Process == Client \cup {Master}
Thread == Process \cup {Worker}

ASSUME RecoveryAssumption ==
    /\ Master \notin Client /\ Worker \notin Process /\ None \notin Thread
    /\ Pinned \subseteq Obj
    /\ {PageErrors, ErrorsShow, Hasty} \subseteq BOOLEAN
    /\ Chips \subseteq {"965", "g4x", "ironlake"}
    /\ Numbers \subseteq Nat
    /\ {MaxSeqno, MaxHangs, MaxSwitches} \subseteq Nat

VARIABLES
    chip,           \* the chip; it never changes
    hwSeq,          \* the last seqno the GPU has stored
    queue,          \* seqnos whose store is in the ring
    gpu,            \* "run", "wait" (RING_WAIT) or "dead"
    pageError,      \* EIR has a page table error that is not masked
    userIrq,        \* IIR has the user interrupt
    irqOn,          \* the interrupts are installed (irq_enabled)
    ringOn,         \* ring.ring_obj is not NULL
    page,           \* hw_status_page is not NULL
    nextSeq,        \* mm.next_gem_seqno
    requests,       \* mm.request_list
    wedged,         \* mm.wedged
    suspended,      \* mm.suspended
    hangTimer,      \* mm.hang_timer is pending
    hangCnt,        \* mm.hang_cnt
    seen,           \* mm.last_acthd: the hang check saw the GPU where it is
    hungTasks,      \* resets on the work queue
    list,           \* the list an object is on
    lrs,            \* last_rendering_seqno
    dirty,          \* objects on the GPU write list
    held,           \* who holds an object
    drmW,           \* who has dev_lock
    th,             \* threads: where they are, for what
    hangs, switches,    \* counted for the bounds
    bare,           \* history: requests that irq_emit and irq_wait have made
    unreset,        \* history: the terminal was left with the GPU wedged, and
                    \* no reset has retired the requests of a wedged GPU since
    panic           \* "no", a failed assertion ("lists" not empty, "requests"
                    \* not empty), commands without a ring ("ring", "emit" if
                    \* from irq_emit or irq_wait), or a seqno read without a
                    \* status page ("page")

gpuVars   == <<hwSeq, queue, gpu>>
irqVars   == <<pageError, userIrq, irqOn>>
reqVars   == <<nextSeq, requests, bare>>
hangVars  == <<hangTimer, hangCnt, seen>>
vtVars    == <<chip, suspended, ringOn, page, switches, unreset>>
objVars   == <<list, lrs, dirty>>
lockVars  == <<held, drmW>>
vars == <<gpuVars, irqVars, reqVars, hangVars, vtVars, objVars, lockVars,
          wedged, hungTasks, th, hangs, panic>>

Idle == [pc |-> "idle", op |-> "none", obj |-> None, seq |-> 0]

\* I915_NEED_GFX_HWS: the status page is an object that is bound for the GPU.
GfxHws == chip # "965"

Init ==
    /\ chip \in Chips /\ page = ~GfxHws
    /\ hwSeq = 0 /\ queue = {} /\ gpu = "run"
    /\ pageError = FALSE /\ userIrq = FALSE /\ irqOn = FALSE
    /\ nextSeq = 1 /\ requests = {} /\ bare = {}
    /\ hangTimer = FALSE /\ hangCnt = 0 /\ seen = FALSE
    /\ suspended = TRUE /\ ringOn = FALSE /\ switches = 0 /\ unreset = FALSE
    /\ list = [o \in Obj |-> "none"] /\ lrs = [o \in Obj |-> 0] /\ dirty = {}
    /\ held = [o \in Obj |-> None] /\ drmW = None
    /\ wedged = FALSE /\ hungTasks = 0
    /\ th = [t \in Thread |-> Idle]
    /\ hangs = 0 /\ panic = "no"

Goto(t, pc) == th' = [th EXCEPT ![t].pc = pc]
On(l) == {o \in Obj : list[o] = l}

\* Threads in the loop of i915_wait_request: they hold a reference on the
\* user interrupt.
Waiters == {t \in Thread : th[t].pc \in {"sleep", "woken"}}

\* cv_broadcast.
Woken ==
    [t \in Thread |->
        IF th[t].pc = "sleep" THEN [th[t] EXCEPT !.pc = "woken"] ELSE th[t]]

-----------------------------------------------------------------------------
(* Requests.                                                               *)

\* i915_add_request.  (The mutant leaves the hang check to the interrupts.)
AddRequestUnarmed ==
    /\ nextSeq' = nextSeq + 1
    /\ requests' = requests \cup {nextSeq}
    /\ queue' = queue \cup {nextSeq}
    /\ UNCHANGED hangTimer
AddRequest ==
    /\ nextSeq' = nextSeq + 1
    /\ requests' = requests \cup {nextSeq}
    /\ queue' = queue \cup {nextSeq}
    /\ hangTimer' = (hangTimer \/ ~suspended)

\* i915_gem_flush: what is dirty is active until the new request has passed.
FlushDirty ==
    /\ list' = [o \in Obj |-> IF o \in dirty THEN "active" ELSE list[o]]
    /\ lrs' = [o \in Obj |-> IF o \in dirty THEN nextSeq ELSE lrs[o]]
    /\ dirty' = {}
    /\ AddRequest /\ UNCHANGED bare

\* A request that an ioctl makes with no batch and no flush behind it.
Emit ==
    IF ringOn
    THEN AddRequest /\ bare' = bare \cup {nextSeq} /\ UNCHANGED panic
    ELSE panic' = "emit" /\ UNCHANGED <<reqVars, queue, hangTimer>>

\* The requests i915_gem_retire_requests takes off the list: those the GPU
\* has passed, or all of them when it is wedged; none if there is no status
\* page to read.  (The mutant forgets the second.)
RetirablePassed == {r \in requests : page /\ r <= hwSeq}
Retirable == {r \in requests : page /\ (r <= hwSeq \/ wedged)}

\* Where an object goes that the GPU has done with.
InactiveList(o) == IF o \in Pinned THEN "none" ELSE "inactive"
Retired(o) == list[o] = "active" /\ lrs[o] \in Retirable

RetireRequests ==
    /\ requests' = requests \ Retirable
    /\ list' = [o \in Obj |-> IF ~Retired(o) THEN list[o]
                              ELSE IF o \in dirty THEN "flushing"
                              ELSE InactiveList(o)]
    /\ lrs' = [o \in Obj |-> IF Retired(o) THEN 0 ELSE lrs[o]]
    /\ bare' = bare \ Retirable
    /\ UNCHANGED <<nextSeq, dirty>>

-----------------------------------------------------------------------------
(* The GPU and its interrupts.                                             *)

\* The GPU gets to the next seqno store, and to the user interrupt after it,
\* which IMR lets through while somebody waits.
GpuStep ==
    /\ gpu = "run"
    /\ \E s \in queue :
        /\ \A q \in queue : s <= q
        /\ hwSeq' = s
        /\ queue' = queue \ {s}
    /\ userIrq' = (userIrq \/ Waiters # {})
    /\ seen' = FALSE
    /\ UNCHANGED <<gpu, pageError, irqOn, reqVars, hangTimer, hangCnt, vtVars,
                   objVars, lockVars, wedged, hungTasks, th, hangs, panic>>

\* It stops in the middle of a batch.
GpuStops ==
    /\ gpu = "run" /\ queue # {} /\ hangs < MaxHangs
    /\ hangs' = hangs + 1
    /\ gpu' \in {"wait", "dead"}
    /\ pageError' \in {FALSE, PageErrors /\ gpu' = "dead"}
    /\ UNCHANGED <<hwSeq, queue, userIrq, irqOn, reqVars, hangVars, vtVars,
                   objVars, lockVars, wedged, hungTasks, th, panic>>

\* inteldrm_intr, which looks whether the terminal is left, and that of
\* Ironlake, which does not.  A page table error is fatal: inteldrm_error
\* declares the GPU wedged, clears or masks the error and queues a reset.
Interrupt ==
    /\ irqOn /\ (userIrq \/ pageError)
    /\ chip = "ironlake" \/ (page /\ ~suspended)
    /\ wedged' = (wedged \/ pageError)
    /\ hungTasks' = IF pageError THEN hungTasks + 1 ELSE hungTasks
    /\ pageError' = FALSE /\ userIrq' = FALSE
    /\ IF userIrq THEN /\ th' = Woken
                       /\ hangCnt' = 0 /\ hangTimer' = TRUE
                  ELSE UNCHANGED <<th, hangCnt, hangTimer>>
    /\ UNCHANGED <<gpuVars, irqOn, reqVars, seen, vtVars, objVars, lockVars,
                   hangs, panic>>

-----------------------------------------------------------------------------
(* The hang check.                                                         *)

\* What i915_gem_evict_inactive can hold, and unbind, now.  (The mutant does not
\* wait for who holds an object.)
EvictableAll == On("inactive")
Evictable == {o \in On("inactive") : held[o] = None}

\* A thread is about to do something, or could.
Runnable(t) ==
    \/ th[t].pc \in {"woken", "stop", "clear"}
    \/ th[t].pc \in {"lock", "irqoff", "irqon", "reoff", "reon", "relock"}
       /\ drmW = None
    \/ th[t].pc = "hold" /\ held[th[t].obj] = None
    \/ th[t].pc = "evict" /\ (On("inactive") = {} \/ Evictable # {})
    \/ t = Worker /\ th[t].pc = "idle" /\ hungTasks > 0

\* The timer goes off after 750 ms, in which a thread that can run has run.
HangCheck ==
    /\ hangTimer /\ (Hasty \/ \A t \in Thread : ~Runnable(t))
    /\ UNCHANGED <<hwSeq, queue, irqVars, reqVars, vtVars, objVars, lockVars,
                   hangs, panic>>

\* No requests, or an empty ring.
HangCheckIdle ==
    /\ HangCheck /\ (requests = {} \/ queue = {})
    /\ hangCnt' = 0 /\ hangTimer' = FALSE
    /\ UNCHANGED <<gpu, seen, wedged, hungTasks, th>>

\* The GPU has moved, or is seen where it was for the first time.
HangCheckAgain ==
    /\ HangCheck /\ requests # {} /\ queue # {}
    /\ ~seen \/ hangCnt = 0
    /\ hangCnt' = IF seen THEN 1 ELSE 0
    /\ seen' = TRUE
    /\ UNCHANGED <<hangTimer, gpu, wedged, hungTasks, th>>

\* The second time, a GPU that waits for an event is told to go on.
HangCheckKick ==
    /\ HangCheck /\ requests # {} /\ queue # {}
    /\ seen /\ hangCnt > 0 /\ gpu = "wait"
    /\ gpu' = "run" /\ hangCnt' = 2
    /\ UNCHANGED <<seen, hangTimer, wedged, hungTasks, th>>

\* Who waits is woken.  (The mutant leaves that out.)
DeclaredAsleep == th
Declared == Woken

\* Any other is declared wedged.  inteldrm_error queues the reset, unless EIR
\* is zero.
HangCheckDeclare ==
    /\ HangCheck /\ requests # {} /\ queue # {}
    /\ seen /\ hangCnt > 0 /\ gpu # "wait"
    /\ hangCnt' = 0 /\ hangTimer' = FALSE
    /\ wedged' = TRUE
    /\ th' = Declared
    /\ hungTasks' \in {hungTasks + 1}
                      \cup (IF ErrorsShow THEN {} ELSE {hungTasks})
    /\ UNCHANGED <<gpu, seen>>

-----------------------------------------------------------------------------
(* Clients: execbuffer, set_domain, and the wait for a request.            *)

\* An ioctl begins.  The X server enters its terminal only when it is away.
Call(c, op, o) ==
    /\ th[c].pc = "idle"
    /\ op = "exec" => nextSeq <= MaxSeqno
    /\ th' = [th EXCEPT ![c] =
                 [pc |-> IF op = "sync" THEN "hold" ELSE "lock",
                  op |-> op, obj |-> o, seq |-> 0]]
    /\ UNCHANGED <<gpuVars, irqVars, reqVars, hangVars, vtVars, objVars,
                   lockVars, wedged, hungTasks, hangs, panic>>

\* execbuffer2 takes dev_lock, and refuses if the GPU is wedged or away.
\* (The mutant does not look whether it is away.)
RefusedWedged == wedged
Refused == wedged \/ suspended
ExecLock(c) ==
    /\ th[c].pc = "lock" /\ th[c].op = "exec" /\ drmW = None
    /\ IF Refused THEN th' = [th EXCEPT ![c] = Idle] /\ drmW' = drmW
                  ELSE Goto(c, "hold") /\ drmW' = c
    /\ UNCHANGED <<gpuVars, irqVars, reqVars, hangVars, vtVars, objVars, held,
                   wedged, hungTasks, hangs, panic>>

\* It holds its object, writes the batch and a request, and returns.
ExecDispatch(c, write) ==
    LET o == th[c].obj IN
    /\ th[c].pc = "hold" /\ th[c].op = "exec" /\ held[o] = None
    /\ drmW' = None /\ th' = [th EXCEPT ![c] = Idle]
    /\ IF ringOn
       THEN /\ list' = [list EXCEPT ![o] = "active"]
            /\ lrs' = [lrs EXCEPT ![o] = nextSeq]
            /\ dirty' = IF write THEN dirty \cup {o} ELSE dirty
            /\ AddRequest
            /\ UNCHANGED <<bare, panic>>
       ELSE panic' = "ring" /\ UNCHANGED <<objVars, reqVars, queue, hangTimer>>
    /\ UNCHANGED <<hwSeq, gpu, irqVars, hangCnt, seen, vtVars, held, wedged,
                   hungTasks, hangs>>

\* set_domain holds its object.  If the GPU does not use it, that is all.
SyncIdle(c) ==
    LET o == th[c].obj IN
    /\ th[c].pc = "hold" /\ th[c].op = "sync" /\ held[o] = None
    /\ o \notin dirty /\ list[o] # "active"
    /\ th' = [th EXCEPT ![c] = Idle]
    /\ UNCHANGED <<gpuVars, irqVars, reqVars, hangVars, vtVars, objVars,
                   lockVars, wedged, hungTasks, hangs, panic>>

\* Otherwise it flushes what is written, and waits for the GPU, or returns
\* EIO, without dev_lock.
Sync(c) ==
    LET o == th[c].obj IN
    /\ th[c].pc = "hold" /\ th[c].op = "sync" /\ held[o] = None
    /\ o \in dirty \/ list[o] = "active"
    /\ IF o \in dirty /\ ~ringOn
       THEN panic' = "ring" /\ UNCHANGED <<objVars, reqVars, queue, hangTimer>>
       ELSE /\ panic' = panic
            /\ IF o \in dirty THEN FlushDirty
               ELSE UNCHANGED <<objVars, reqVars, queue, hangTimer>>
    /\ IF wedged
       THEN th' = [th EXCEPT ![c] = Idle] /\ held' = held
       ELSE /\ th' = [th EXCEPT
                  ![c].pc = "woken",
                  ![c].seq = IF o \in dirty THEN nextSeq ELSE lrs[o]]
            /\ held' = [held EXCEPT ![o] = c]
    /\ UNCHANGED <<hwSeq, gpu, irqVars, hangCnt, seen, vtVars, drmW, wedged,
                   hungTasks, hangs>>

\* inteldrm_irq_emit makes a request, whatever the state of the GPU, and gives
\* its number to user land.
IrqEmit(c) ==
    /\ th[c].pc = "idle" /\ nextSeq \in Numbers
    /\ Emit
    /\ UNCHANGED <<hwSeq, gpu, irqVars, hangCnt, seen, vtVars, objVars,
                   lockVars, wedged, hungTasks, th, hangs>>

\* inteldrm_irq_wait waits for any number user land names, and holds nothing.
\* If the number is the next one, i915_wait_request makes the request first.
IrqWait(c, r) ==
    /\ th[c].pc = "idle" /\ ~wedged
    /\ IF r = nextSeq THEN Emit
                      ELSE UNCHANGED <<reqVars, queue, hangTimer, panic>>
    /\ th' = [th EXCEPT ![c] = [pc |-> "woken", op |-> "irq_wait", obj |-> None,
                                seq |-> r]]
    /\ UNCHANGED <<hwSeq, gpu, irqVars, hangCnt, seen, vtVars, objVars,
                   lockVars, wedged, hungTasks, hangs>>

\* The loop of i915_wait_request first reads the seqno, from a status page that
\* must be there.
WaitNoPage(c) ==
    /\ th[c].pc = "woken" /\ ~page
    /\ panic' = "page"
    /\ UNCHANGED <<gpuVars, irqVars, reqVars, hangVars, vtVars, objVars,
                   lockVars, wedged, hungTasks, th, hangs>>

\* The request has passed, or not yet.
Passed(c) == page /\ th[c].seq <= hwSeq

\* Where a thread goes on after its wait, with what it still holds.
WaitReturns(c, pc) ==
    /\ th' = IF th[c].op = "leave" THEN [th EXCEPT ![c].pc = pc, ![c].seq = 0]
                                   ELSE [th EXCEPT ![c] = Idle]
    /\ held' = [o \in Obj |-> IF held[o] = c THEN None ELSE held[o]]
    /\ UNCHANGED <<gpuVars, irqVars, hangVars, vtVars, wedged, hungTasks,
                   hangs, panic>>

WaitSleep(c) ==
    /\ th[c].pc = "woken" /\ page /\ ~wedged /\ ~Passed(c)
    /\ Goto(c, "sleep")
    /\ UNCHANGED <<gpuVars, irqVars, reqVars, hangVars, vtVars, objVars,
                   lockVars, wedged, hungTasks, hangs, panic>>

WaitDone(c) ==
    /\ th[c].pc = "woken" /\ ~wedged /\ Passed(c)
    /\ RetireRequests
    /\ WaitReturns(c, "evict")
    /\ UNCHANGED <<queue, hwSeq, gpu, drmW>>

\* EIO, which i915_gem_idle takes for an answer.
WaitWedged(c) ==
    /\ th[c].pc = "woken" /\ page /\ wedged
    /\ WaitReturns(c, "stop")
    /\ UNCHANGED <<reqVars, objVars, drmW>>

\* A signal ends the sleep, and the ioctl.
Signal(c) ==
    /\ th[c].pc = "sleep" /\ th[c].op \in SignalOps
    /\ th' = [th EXCEPT ![c] = Idle]
    /\ held' = [o \in Obj |-> IF held[o] = c THEN None ELSE held[o]]
    /\ drmW' = IF drmW = c THEN None ELSE drmW
    /\ UNCHANGED <<gpuVars, irqVars, reqVars, hangVars, vtVars, objVars,
                   wedged, hungTasks, hangs, panic>>

-----------------------------------------------------------------------------
(* Leaving and entering the terminal.                                      *)

Busy == On("active") \cup On("flushing")

\* i915_gem_idle when the chip is idle already: the assertions, and on to
\* what page faults have bound.
LeaveAgain(c) ==
    /\ th[c].pc = "lock" /\ th[c].op = "leave" /\ drmW = None
    /\ suspended
    /\ IF Busy # {} THEN panic' = "lists" /\ UNCHANGED <<th, drmW>>
       ELSE panic' = panic /\ Goto(c, "evict") /\ drmW' = c
    /\ UNCHANGED <<gpuVars, irqVars, reqVars, hangVars, vtVars, objVars, held,
                   wedged, hungTasks, hangs>>

\* i915_gem_idle on a running chip: evict_everything finds nothing, or
\* flushes everything and waits for it.
Leave(c) ==
    /\ th[c].pc = "lock" /\ th[c].op = "leave" /\ drmW = None
    /\ ~suspended
    /\ drmW' = c
    /\ IF Busy \cup On("inactive") = {}
       THEN Goto(c, "stop") /\ UNCHANGED <<objVars, reqVars, queue, hangTimer>>
       ELSE /\ FlushDirty
            /\ th' = [th EXCEPT ![c].pc = IF wedged THEN "stop" ELSE "woken",
                                ![c].seq = nextSeq]
    /\ UNCHANGED <<hwSeq, gpu, irqVars, hangCnt, seen, vtVars, held, wedged,
                   hungTasks, hangs, panic>>

\* i915_gem_evict_inactive, one object after the other.
Evict(t, o) ==
    /\ th[t].pc = "evict" /\ o \in Evictable
    /\ list' = [list EXCEPT ![o] = "none"]
    /\ UNCHANGED <<gpuVars, irqVars, reqVars, hangVars, vtVars, lrs, dirty,
                   lockVars, wedged, hungTasks, th, hangs, panic>>

\* All evicted: evict_everything asserts that the lists are empty.
LeaveEvicted(c) ==
    /\ th[c].pc = "evict" /\ th[c].op = "leave" /\ On("inactive") = {}
    /\ IF suspended
       THEN Goto(c, "irqoff") /\ drmW' = None /\ UNCHANGED panic
       ELSE IF Busy # {}
       THEN panic' = "lists" /\ UNCHANGED <<th, drmW>>
       ELSE Goto(c, "stop") /\ UNCHANGED <<drmW, panic>>
    /\ UNCHANGED <<gpuVars, irqVars, reqVars, hangVars, vtVars, objVars, held,
                   wedged, hungTasks, hangs>>

\* i915_gem_cleanup_hws and i915_gem_init_hws: a status page that is bound for
\* the GPU goes with the ring, and a new and cleared one comes with it.
CleanupHws == page' = ~GfxHws
InitHws == page' = TRUE /\ hwSeq' = IF GfxHws THEN 0 ELSE hwSeq

\* The rest of i915_gem_idle.  The ring is stopped when it is idle, or when
\* waiting for that is given up.
LeaveStop(c) ==
    /\ th[c].pc = "stop" /\ (queue = {} \/ gpu # "run")
    /\ suspended' = TRUE /\ hangTimer' = FALSE
    /\ ringOn' = FALSE /\ queue' = {}
    /\ CleanupHws
    /\ unreset' = wedged
    /\ drmW' = None
    /\ Goto(c, "irqoff")
    /\ UNCHANGED <<hwSeq, gpu, irqVars, reqVars, hangCnt, seen, chip, switches,
                   objVars, held, wedged, hungTasks, hangs, panic>>

\* drm_irq_uninstall and drm_irq_install, from one sleep to the next.
SetIrq(t, on) ==
    /\ drmW = None
    /\ irqOn' = on
    /\ userIrq' = IF irqOn = on THEN userIrq ELSE FALSE
    /\ UNCHANGED <<gpuVars, pageError, reqVars, hangVars, vtVars, objVars,
                   lockVars, wedged, hungTasks, hangs, panic>>

LeaveIrq(c) ==
    /\ th[c].pc = "irqoff"
    /\ SetIrq(c, FALSE) /\ th' = [th EXCEPT ![c] = Idle]

\* entervt puts its trust in a wedged chip before it has dev_lock.
Enter(c) ==
    /\ th[c].pc = "idle" /\ suspended /\ switches < MaxSwitches
    /\ Hasty \/ \A t \in Thread : ~Runnable(t)
    /\ switches' = switches + 1
    /\ wedged' = FALSE
    /\ th' = [th EXCEPT ![c] = [pc |-> "lock", op |-> "enter", obj |-> None,
                                seq |-> 0]]
    /\ UNCHANGED <<gpuVars, irqVars, reqVars, hangVars, chip, suspended, ringOn,
                   page, unreset, objVars, lockVars, hungTasks, hangs, panic>>

\* Then the ring is made, and the lists have to be empty.
EnterLock(c) ==
    /\ th[c].pc = "lock" /\ th[c].op = "enter" /\ drmW = None
    /\ suspended' = FALSE /\ ringOn' = TRUE
    /\ InitHws
    /\ panic' = IF Busy # {} THEN "lists"
                ELSE IF requests # {} THEN "requests" ELSE panic
    /\ Goto(c, "irqon")
    /\ UNCHANGED <<queue, gpu, irqVars, reqVars, hangVars, chip, switches,
                   unreset, objVars, lockVars, wedged, hungTasks, hangs>>

EnterIrq(c) ==
    /\ th[c].pc = "irqon"
    /\ SetIrq(c, TRUE) /\ th' = [th EXCEPT ![c] = Idle]

-----------------------------------------------------------------------------
(* The work queue.                                                         *)

\* i915_gem_retire_work_handler, every now and then.
RetireWork ==
    /\ th[Worker].pc = "idle" /\ Retirable # {}
    /\ RetireRequests
    /\ UNCHANGED <<gpuVars, irqVars, hangVars, vtVars, lockVars, wedged,
                   hungTasks, th, hangs, panic>>

HungStart ==
    /\ th[Worker].pc = "idle" /\ hungTasks > 0
    /\ hungTasks' = hungTasks - 1
    /\ th' = [th EXCEPT ![Worker] = [Idle EXCEPT !.pc = "lock", !.op = "hung"]]
    /\ UNCHANGED <<gpuVars, irqVars, reqVars, hangVars, vtVars, objVars,
                   lockVars, wedged, hangs, panic>>

\* inteldrm_965_reset.  Unless the X server is away, the ring is restarted,
\* and dev_lock is dropped so that the interrupts can be installed again.
HungReset ==
    /\ th[Worker].pc = "lock" /\ drmW = None
    /\ gpu' = "run" /\ queue' = {} /\ pageError' = FALSE
    /\ IF suspended THEN Goto(Worker, "clear") /\ drmW' = Worker
                    ELSE Goto(Worker, "reoff") /\ drmW' = None
    /\ UNCHANGED <<hwSeq, userIrq, irqOn, reqVars, hangVars, vtVars, objVars,
                   held, wedged, hungTasks, hangs, panic>>

HungIrqOff ==
    th[Worker].pc = "reoff" /\ SetIrq(Worker, FALSE) /\ Goto(Worker, "reon")
HungIrqOn ==
    th[Worker].pc = "reon" /\ SetIrq(Worker, TRUE) /\ Goto(Worker, "relock")

HungRelock ==
    /\ th[Worker].pc = "relock" /\ drmW = None
    /\ drmW' = Worker
    /\ Goto(Worker, "clear")
    /\ UNCHANGED <<gpuVars, irqVars, reqVars, hangVars, vtVars, objVars, held,
                   wedged, hungTasks, hangs, panic>>

\* The rest of inteldrm_hung: every request is retired, if there is a status
\* page, and what is on the flushing list is idle.
HungClear ==
    /\ th[Worker].pc = "clear"
    /\ LET idle(o) == list[o] = "flushing" \/ Retired(o) IN
       /\ list' = [o \in Obj |-> IF idle(o) THEN InactiveList(o) ELSE list[o]]
       /\ lrs' = [o \in Obj |-> IF idle(o) THEN 0 ELSE lrs[o]]
       /\ dirty' = {o \in dirty : ~idle(o)}
    /\ requests' = requests \ Retirable /\ bare' = bare \ Retirable
    /\ unreset' = (unreset /\ ~(wedged /\ page))
    /\ Goto(Worker, "evict")
    /\ UNCHANGED <<gpuVars, irqVars, nextSeq, hangVars, chip, suspended,
                   ringOn, page, switches, lockVars, wedged, hungTasks, hangs,
                   panic>>

HungEnd ==
    /\ th[Worker].pc = "evict" /\ On("inactive") = {}
    /\ wedged' = FALSE
    /\ drmW' = None
    /\ th' = [th EXCEPT ![Worker] = Idle]
    /\ UNCHANGED <<gpuVars, irqVars, reqVars, hangVars, vtVars, objVars, held,
                   hungTasks, hangs, panic>>

-----------------------------------------------------------------------------
\* What a thread does once it is in the driver, unless a signal comes.
Step(c) ==
    \/ ExecLock(c) \/ \E write \in BOOLEAN : ExecDispatch(c, write)
    \/ SyncIdle(c) \/ Sync(c)
    \/ WaitNoPage(c) \/ WaitSleep(c) \/ WaitDone(c) \/ WaitWedged(c)
    \/ LeaveAgain(c) \/ Leave(c) \/ LeaveEvicted(c) \/ LeaveStop(c)
    \/ LeaveIrq(c)
    \/ EnterLock(c) \/ EnterIrq(c)
    \/ \E o \in Obj : Evict(c, o)

Reset ==
    \/ HungStart \/ HungReset \/ HungIrqOff \/ HungIrqOn \/ HungRelock
    \/ HungClear \/ HungEnd
    \/ \E o \in Obj : Evict(Worker, o)

HangChecks ==
    HangCheckIdle \/ HangCheckAgain \/ HangCheckKick \/ HangCheckDeclare

Enters ==
    \/ \E c \in Client, o \in Obj, op \in {"exec", "sync"} : Call(c, op, o)
    \/ \E c \in Client : IrqEmit(c) \/ \E r \in Numbers : IrqWait(c, r)
    \/ Call(Master, "leave", None) \/ Enter(Master)

Running ==
    \/ Enters
    \/ \E c \in Process : Step(c) \/ Signal(c)
    \/ Reset \/ RetireWork
    \/ GpuStep \/ GpuStops \/ Interrupt \/ HangChecks

\* After a failed assertion there is nothing more.
Panicked == panic # "no" /\ UNCHANGED vars

Next == \/ panic = "no" /\ Running
        \/ Panicked

Spec == Init /\ [][Next]_vars

\* Threads run, the GPU runs unless it has stopped, and interrupts and timers
\* come.  A rwlock goes to who waits for it, and the hang check waits for a
\* moment when no thread can run, which may be short.
FairSpec ==
    /\ Spec
    /\ \A c \in Process : WF_vars(panic = "no" /\ Step(c))
    /\ SF_vars(panic = "no" /\ Reset)
    /\ WF_vars(panic = "no" /\ GpuStep)
    /\ WF_vars(panic = "no" /\ Interrupt)
    /\ SF_vars(panic = "no" /\ HangChecks)

-----------------------------------------------------------------------------
Pcs == {"idle", "lock", "hold", "sleep", "woken", "evict", "stop", "irqoff",
        "irqon", "reoff", "reon", "relock", "clear"}

TypeOK ==
    /\ hwSeq \in Nat /\ queue \subseteq Nat /\ gpu \in {"run", "wait", "dead"}
    /\ chip \in Chips
    /\ {pageError, userIrq, irqOn, ringOn, page, wedged, suspended, hangTimer,
        seen, unreset} \subseteq BOOLEAN
    /\ nextSeq \in Nat /\ requests \subseteq Nat /\ bare \subseteq Nat
    /\ hangCnt \in 0..2
    /\ hungTasks \in Nat /\ hangs \in Nat /\ switches \in Nat
    /\ list \in [Obj -> {"none", "active", "flushing", "inactive"}]
    /\ lrs \in [Obj -> Nat] /\ dirty \subseteq Obj
    /\ held \in [Obj -> Process \cup {None}] /\ drmW \in Thread \cup {None}
    /\ th \in [Thread -> [pc : Pcs,
                          op : {"none", "exec", "sync", "irq_wait", "leave",
                                "enter", "hung"},
                          obj : Obj \cup {None}, seq : Nat]]
    /\ panic \in {"no", "lists", "requests", "ring", "emit", "page"}

\* The assertions of i915_gem_idle, evict_everything and entervt hold, and
\* execbuffer, set_domain and i915_gem_idle write no command without a ring,
\* unless the terminal was left with the GPU wedged and no reset has retired its
\* requests since.  entervt's assertion on the request list may also meet a
\* request that irq_emit or irq_wait has made and nobody has retired.
PanicsNot ==
    /\ panic \in {"lists", "ring"} => unreset
    /\ panic = "requests" => unreset \/ requests \subseteq bare

\* A thread waits for a request, with dev_lock, or holding an object that a
\* reset would have to unbind.
Shielded(c) ==
    /\ th[c].pc \in {"sleep", "woken"}
    /\ drmW = c \/ \E o \in Obj \ Pinned : held[o] = c

\* When a reset ends that has found a status page, and the GPU is no longer
\* wedged, no thread still waits for a request that is off the list: one with
\* dev_lock keeps the reset out, and one that holds its object stops it from
\* being unbound.  Not so for irq_wait, which holds nothing, nor for a pinned
\* object, which is not unbound.
EveryoneTold ==
    [][HungEnd /\ page =>
           \A c \in Process : Shielded(c) => th[c].seq \in requests]_vars

\* A terminal that has been left without the GPU wedged is quiet: nothing is in
\* the ring, on the lists, or to be retired, but requests of irq_emit and
\* irq_wait, and nobody waits with a shield, who on some chips would read a
\* status page that is gone.
AwayIsQuiet ==
    suspended /\ ~unreset =>
        /\ queue = {} /\ Busy = {} /\ requests \subseteq bare
        /\ \A c \in Process : Shielded(c) => page

\* A wedged GPU gets its reset ("If we're wedged, assume that the reset workq
\* will clear everything out", i915_gem_idle).
ResetComes == wedged ~> ~wedged \/ panic # "no"

\* A reset that ends while the X server is away leaves nothing behind, which is
\* what the comment in i915_gem_idle goes on to assume.  Not so where there is
\* no status page then.
ResetClears ==
    [][HungEnd /\ wedged /\ suspended => Busy = {} /\ requests = {}]_vars

\* Whoever waits with dev_lock or a hold for what the GPU has still to do gets
\* back, whether the GPU does it or not, if the interrupts are on.  (A wait may
\* begin while entervt has not installed them yet, and miss its interrupt.)
WaitersReturn ==
    \A c \in Process :
        Shielded(c) /\ th[c].seq \in queue /\ irqOn
            ~> ~Shielded(c) \/ panic # "no"

\* Away from its terminal, the driver has its interrupts off ("if we're vt
\* switched then nothing will be enabled", inteldrm_intr).
AwayIrqOff ==
    suspended /\ irqOn => \E t \in Thread : th[t].pc # "idle"
=============================================================================
