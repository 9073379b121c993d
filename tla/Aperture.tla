------------------------------ MODULE Aperture ------------------------------
(***************************************************************************)
(* Room in the graphics aperture: who binds objects there, who is evicted  *)
(* for them, and how the aperture is emptied for a suspend (i915_drv.c:    *)
(* i915_gem_object_bind_to_gtt, evict_something, evict_everything,         *)
(* evict_inactive, the retry of execbuffer2, the page fault, pread and     *)
(* pwrite, set_domain, i915_gem_idle, inteldrm_quiesce and the gate in     *)
(* front of the ioctls and faults).                                        *)
(*                                                                         *)
(* All of it runs under the kernel lock: one action is at most what a      *)
(* thread does between two points where it may sleep.  The request engine  *)
(* is that of GemCore with one GPU domain, in which a request is known by  *)
(* how many requests the GPU has to pass until it has passed this one.     *)
(***************************************************************************)
EXTENDS Integers, FiniteSets, Sequences

CONSTANTS
    Process,        \* processes in ioctls and page faults
    Power,          \* the thread that suspends the machine
    None,           \* no thread, no object
    Obj,            \* buffer objects
    Size,           \* pages of an object
    Pages,          \* pages of the aperture
    Batches,        \* the object lists of execbuffers
    PinMayFail,     \* a signal may end the wait for a fence of an object
                    \* that is to be pinned
    MapMayChange,   \* a map may be changed while a fault in it sleeps
    MaxCalls        \* bound: calls and suspends

Thread == Process \cup {Power}

ASSUME ApertureAssumption ==
    /\ Power \notin Process /\ None \notin Thread \cup Obj
    /\ Size \in [Obj -> Nat \ {0}] /\ Pages \in Nat /\ MaxCalls \in Nat
    /\ Batches \subseteq Seq(Obj) \ {<<>>} /\ IsFiniteSet(Process)
    /\ {PinMayFail, MapMayChange} \subseteq BOOLEAN

VARIABLES
    offset,         \* gtt_offset, or Unbound (dmamap is NULL)
    list,           \* the list an object is on
    lrs,            \* last_rendering_seqno: requests until it has passed
    dirty,          \* objects on the GPU write list
    pins,           \* pin_count
    held,           \* who holds an object
    writer, readers,    \* dev_lock
    pending,        \* requests the GPU has not passed
    suspended,      \* mm.suspended
    quiet,          \* INTELDRM_QUIET
    entries,        \* calls past the gate
    th,             \* threads: where they are, for what
    panic,          \* an assertion has failed
    calls           \* counted for the bound

lockVars == <<held, writer, readers>>
objVars == <<list, lrs, dirty>>
gateVars == <<quiet, entries>>
vars == <<offset, objVars, pins, lockVars, pending, suspended, gateVars, th,
          panic, calls>>

Unbound == -1
Idle == [pc |-> "idle", op |-> "none", batch |-> <<>>, n |-> 0, tries |-> 0,
         domain |-> FALSE, victim |-> None, seq |-> 0, all |-> FALSE,
         then |-> "none", err |-> "none"]

Init ==
    /\ offset = [o \in Obj |-> Unbound]
    /\ list = [o \in Obj |-> "none"] /\ lrs = [o \in Obj |-> 0] /\ dirty = {}
    /\ pins = [o \in Obj |-> 0]
    /\ held = [o \in Obj |-> None] /\ writer = None /\ readers = {}
    /\ pending = 0 /\ suspended = FALSE /\ quiet = FALSE /\ entries = 0
    /\ th = [t \in Thread |-> Idle]
    /\ panic = FALSE /\ calls = 0

On(l) == {o \in Obj : list[o] = l}
Busy == On("active") \cup On("flushing")
ListsEmpty == On("inactive") \cup Busy = {}

Goto(t, pc) == th' = [th EXCEPT ![t].pc = pc]

\* The object a thread works on: the first of its list that it has not pinned.
Cur(t) == th[t].batch[th[t].n + 1]
Held(t) == {o \in Obj : held[o] = t}
Released(t) == [o \in Obj |-> IF held[o] = t THEN None ELSE held[o]]

-----------------------------------------------------------------------------
(* The GPU and its requests.                                               *)

Passes == pending > 0
GpuStep ==
    /\ Passes
    /\ pending' = pending - 1
    /\ lrs' = [o \in Obj |-> IF lrs[o] > 0 THEN lrs[o] - 1 ELSE 0]
    /\ th' = [t \in Thread |-> IF th[t].seq > 0 THEN [th[t] EXCEPT !.seq = @ - 1]
                               ELSE th[t]]
    /\ UNCHANGED <<offset, list, dirty, pins, lockVars, suspended, gateVars,
                   panic, calls>>

\* i915_gem_retire_requests.
Retired(o) == list[o] = "active" /\ lrs[o] = 0
Retire ==
    /\ list' = [o \in Obj |-> IF ~Retired(o) THEN list[o]
                              ELSE IF o \in dirty THEN "flushing"
                              ELSE IF pins[o] > 0 THEN "none" ELSE "inactive"]
    /\ UNCHANGED <<lrs, dirty>>

\* Its timer.
RetireWork ==
    /\ \E o \in Obj : Retired(o)
    /\ Retire
    /\ UNCHANGED <<offset, pins, lockVars, pending, suspended, gateVars, th,
                   panic, calls>>

\* i915_gem_flush: what is dirty is active until a new request has passed.
\* (The mutant flushes nothing.)
FlushedNone == {}
Flushed == dirty
Flush ==
    /\ list' = [o \in Obj |-> IF o \in Flushed THEN "active" ELSE list[o]]
    /\ lrs' = [o \in Obj |-> IF o \in Flushed THEN pending + 1 ELSE lrs[o]]
    /\ dirty' = dirty \ Flushed
    /\ pending' = pending + 1

\* i915_wait_request, for a request with so many to pass.
WaitFor(t, seq, then) ==
    th' = [th EXCEPT ![t].pc = "wait", ![t].seq = seq, ![t].then = then]
Wait(t) ==
    /\ th[t].pc = "wait" /\ th[t].seq = 0
    /\ Retire
    /\ Goto(t, th[t].then)
    /\ UNCHANGED <<offset, pins, lockVars, pending, suspended, gateVars, panic,
                   calls>>

-----------------------------------------------------------------------------
(* Ways in and out.                                                        *)

\* An ioctl, or a page fault.
Call(t, op, batch) ==
    /\ th[t].pc = "idle" /\ calls < MaxCalls
    /\ calls' = calls + 1
    /\ th' = [th EXCEPT ![t] = [Idle EXCEPT !.pc = "gate", !.op = op, !.batch = batch]]
    /\ UNCHANGED <<offset, objVars, pins, lockVars, pending, suspended, gateVars,
                   panic>>

\* inteldrm_ioctl and inteldrm_fault: sleep while the machine is quiet.  Only
\* set_domain does without dev_lock; a fault tries to get it without sleeping.
\* (The mutant does not count faults.)
CountedIoctls(t) == th[t].op # "fault"
Counted(t) == TRUE
Tried(t) == th[t].op = "fault" /\ writer = None
Gate(t) ==
    /\ th[t].pc = "gate" /\ ~quiet
    /\ entries' = IF Counted(t) THEN entries + 1 ELSE entries
    /\ readers' = IF Tried(t) THEN readers \cup {t} ELSE readers
    /\ Goto(t, IF th[t].op = "set_domain" \/ Tried(t) THEN "hold" ELSE "lock")
    /\ UNCHANGED <<offset, objVars, pins, held, writer, pending, suspended,
                   quiet, panic, calls>>

\* The end of every call: dev_lock is released, and the gate passed.
Exit(t) ==
    /\ writer' = IF writer = t THEN None ELSE writer
    /\ readers' = readers \ {t}
    /\ entries' = IF Counted(t) THEN entries - 1 ELSE entries
    /\ th' = [th EXCEPT ![t] = Idle]
    /\ UNCHANGED <<offset, pending, quiet, calls>>

\* A fault that had to sleep for dev_lock looks its map entry up again.  If
\* that is gone it returns, with the lock.
LockRead(t) ==
    /\ th[t].pc = "lock" /\ th[t].op \in {"fault", "access"} /\ writer = None
    /\ readers' = readers \cup {t}
    /\ \/ Goto(t, "hold") /\ UNCHANGED entries
       \/ /\ MapMayChange /\ th[t].op = "fault"
          /\ th' = [th EXCEPT ![t] = Idle] /\ entries' = entries - 1
    /\ UNCHANGED <<offset, objVars, pins, held, writer, pending, suspended,
                   quiet, panic, calls>>

\* (The mutant does not wait for the readers.)
LockWriteAny(t, op) == th[t].pc = "lock" /\ th[t].op = op /\ writer = None
LockWrite(t, op) ==
    th[t].pc = "lock" /\ th[t].op = op /\ writer = None /\ readers = {}

LockExec(t) ==
    /\ LockWrite(t, "exec")
    /\ IF suspended THEN Exit(t)
       ELSE /\ writer' = t
            /\ Goto(t, "hold")
            /\ UNCHANGED <<offset, pending, readers, gateVars, calls>>
    /\ UNCHANGED <<objVars, pins, held, suspended, panic>>

\* i915_gem_idle, when the X server leaves its terminal.  (It does not do so
\* twice.)
LockLeave(t) ==
    /\ LockWrite(t, "leave")
    /\ IF suspended THEN Exit(t)
       ELSE /\ writer' = t
            /\ th' = [th EXCEPT ![t].pc = "everything", ![t].then = "stop"]
            /\ UNCHANGED <<offset, pending, readers, gateVars, calls>>
    /\ UNCHANGED <<objVars, pins, held, suspended, panic>>

\* The ring is stopped when it is empty.
LeaveStop(t) ==
    /\ th[t].pc = "stop" /\ pending = 0
    /\ suspended' = TRUE
    /\ Exit(t)
    /\ UNCHANGED <<objVars, pins, held, panic>>

LockEnter(t) ==
    /\ LockWrite(t, "enter")
    /\ suspended' = FALSE
    /\ panic' = (suspended /\ Busy # {})
    /\ Exit(t)
    /\ UNCHANGED <<objVars, pins, held>>

-----------------------------------------------------------------------------
(* Holding and binding.                                                    *)

Hold(t) ==
    /\ th[t].pc = "hold" /\ held[Cur(t)] = None
    /\ held' = [held EXCEPT ![Cur(t)] = t]
    /\ Goto(t, IF th[t].op = "set_domain" THEN "domain" ELSE "bind")
    /\ UNCHANGED <<offset, objVars, pins, writer, readers, pending, suspended,
                   gateVars, panic, calls>>

\* Where an object fits: at the start of a hole that is large enough.
Bound == {o \in Obj : offset[o] # Unbound}
Holes(o) ==
    {h \in {0} \cup {offset[b] + Size[b] : b \in Bound} :
        /\ h + Size[o] <= Pages
        /\ \A b \in Bound : offset[b] + Size[b] <= h \/ h + Size[o] <= offset[b]}

\* Where an object goes that is not used any more by who had it pinned.  (The
\* mutant forgets about it.)
UnpinnedOff(o) == list[o]
Unpinned(o) == IF o \in Busy THEN list[o] ELSE "inactive"

\* Bound, the object goes on the inactive list for a fault, and off it for who
\* pins it.  (The mutant leaves it off for the fault too.)
FaultedOff(o) == list[o]
Faulted(o) == IF offset[o] = Unbound THEN "inactive" ELSE list[o]
Pin(t, o) ==
    LET last == th[t].n + 1 = Len(th[t].batch) IN
    /\ list' = [list EXCEPT ![o] = IF o \in Busy THEN @ ELSE "none"]
    /\ pins' = [pins EXCEPT ![o] = @ + 1]
    /\ IF th[t].op = "exec"
       THEN th' = [th EXCEPT ![t].n = @ + 1, ![t].pc = IF last THEN "dispatch" ELSE "hold"]
       ELSE Goto(t, "domain")

\* i915_gem_object_pin may fail between the two.
PinFails(t) ==
    /\ PinMayFail
    /\ th' = [th EXCEPT ![t].pc = "fail", ![t].err = "EINTR"]
    /\ UNCHANGED <<list, pins>>

Bind(t) ==
    LET o == Cur(t) IN
    /\ th[t].pc = "bind"
    /\ \E h \in IF o \in Bound THEN {offset[o]} ELSE Holes(o) :
           offset' = [offset EXCEPT ![o] = h]
    /\ IF th[t].op = "fault"
       THEN list' = [list EXCEPT ![o] = Faulted(o)] /\ pins' = pins /\ Goto(t, "domain")
       ELSE Pin(t, o) \/ PinFails(t)
    /\ UNCHANGED <<lrs, dirty, lockVars, pending, suspended, gateVars, panic,
                   calls>>

\* It does not fit.  With nothing on the lists, the error is that of
\* extent_alloc_subregion1: EAGAIN.
BindFull(t) ==
    /\ th[t].pc = "bind" /\ Cur(t) \notin Bound /\ Holes(Cur(t)) = {}
    /\ th' = [th EXCEPT ![t] = IF ListsEmpty
                               THEN [@ EXCEPT !.pc = "fail", !.err = "EAGAIN"]
                               ELSE [@ EXCEPT !.pc = "search", !.domain = FALSE]]
    /\ UNCHANGED <<offset, objVars, pins, lockVars, pending, suspended, gateVars,
                   panic, calls>>

-----------------------------------------------------------------------------
(* i915_gem_evict_something.                                               *)

SearchRetire(t) ==
    /\ th[t].pc = "search"
    /\ Retire
    /\ Goto(t, "find")
    /\ UNCHANGED <<offset, pins, lockVars, pending, suspended, gateVars, panic,
                   calls>>

\* find_inactive_object prefers clean and small objects, and so, whatever is
\* clean, any of the list may be the one; it is unbound if nobody holds it.
FindInactive(t, b) ==
    /\ th[t].pc = "find" /\ b \in On("inactive") /\ held[b] = None
    /\ offset' = [offset EXCEPT ![b] = Unbound]
    /\ list' = [list EXCEPT ![b] = "none"]
    /\ Goto(t, "bind")
    /\ UNCHANGED <<lrs, dirty, pins, lockVars, pending, suspended, gateVars,
                   panic, calls>>

NotFound(t) ==
    /\ th[t].pc = "find"
    /\ On("inactive") = {} \/ \E b \in On("inactive") : held[b] # None

Outstanding == pending > 0 \/ \E o \in Obj : Retired(o)
FindWait(t) ==
    /\ NotFound(t) /\ Outstanding
    /\ WaitFor(t, IF pending > 0 THEN 1 ELSE 0, "search")
    /\ UNCHANGED <<offset, objVars, pins, lockVars, pending, suspended, gateVars,
                   panic, calls>>

\* write_domain is remembered from one turn of the loop to the next.
\* (The mutant does not look for an object that is large enough.)
FlushHelpsAlways(t) == TRUE
FlushHelps(t) ==
    th[t].domain \/ \E o \in On("flushing") : Size[o] >= Size[Cur(t)]
FindFlush(t) ==
    /\ NotFound(t) /\ ~Outstanding /\ FlushHelps(t)
    /\ Flush
    /\ th' = [th EXCEPT ![t].pc = "search", ![t].domain = TRUE]
    /\ UNCHANGED <<offset, pins, lockVars, suspended, gateVars, panic, calls>>

FindEvict(t) ==
    /\ NotFound(t) /\ ~Outstanding /\ ~FlushHelps(t)
    /\ th' = [th EXCEPT ![t].then = "bind", ![t].all = FALSE,
                        ![t].pc = IF On("inactive") # {} THEN "inactive"
                                  ELSE "everything"]
    /\ UNCHANGED <<offset, objVars, pins, lockVars, pending, suspended, gateVars,
                   panic, calls>>

-----------------------------------------------------------------------------
(* i915_gem_evict_everything and i915_gem_evict_inactive.                  *)

\* ENOSPC, which i915_gem_idle takes for success.
EverythingGone(t) ==
    /\ th[t].pc = "everything" /\ ListsEmpty
    /\ th' = [th EXCEPT ![t] = IF th[t].op = "leave" THEN [@ EXCEPT !.pc = "stop"]
                               ELSE [@ EXCEPT !.pc = "fail", !.err = "ENOSPC"]]
    /\ UNCHANGED <<offset, objVars, pins, lockVars, pending, suspended, gateVars,
                   panic, calls>>

EverythingFlush(t) ==
    /\ th[t].pc = "everything" /\ ~ListsEmpty
    /\ Flush
    /\ th' = [th EXCEPT ![t].pc = "idling", ![t].seq = pending + 1, ![t].all = TRUE]
    /\ UNCHANGED <<offset, pins, lockVars, suspended, gateVars, panic, calls>>

EverythingIdle(t) ==
    /\ th[t].pc = "idling" /\ th[t].seq = 0
    /\ Retire
    /\ Goto(t, "inactive")
    /\ UNCHANGED <<offset, pins, lockVars, pending, suspended, gateVars, panic,
                   calls>>

\* evict_inactive picks an object, and sleeps until it can hold it.
InactivePick(t, b) ==
    /\ th[t].pc = "inactive" /\ b \in On("inactive")
    /\ th' = [th EXCEPT ![t].pc = "victim", ![t].victim = b]
    /\ UNCHANGED <<offset, objVars, pins, lockVars, pending, suspended, gateVars,
                   panic, calls>>

\* It may be unbound by then, but not pinned ("Pinned object in unbind list")
\* or used by the GPU.
InactiveUnbind(t) ==
    LET b == th[t].victim IN
    /\ th[t].pc = "victim" /\ held[b] = None
    /\ panic' = (b \in Busy \/ pins[b] > 0)
    /\ offset' = [offset EXCEPT ![b] = Unbound]
    /\ list' = [list EXCEPT ![b] = "none"]
    /\ th' = [th EXCEPT ![t].pc = "inactive", ![t].victim = None]
    /\ UNCHANGED <<lrs, dirty, pins, lockVars, pending, suspended, gateVars,
                   calls>>

\* At the end of evict_everything, all lists should be empty.
InactiveEnd(t) ==
    /\ th[t].pc = "inactive" /\ On("inactive") = {}
    /\ panic' = (th[t].all /\ ~ListsEmpty)
    /\ th' = [th EXCEPT ![t].pc = th[t].then, ![t].all = FALSE]
    /\ UNCHANGED <<offset, objVars, pins, lockVars, pending, suspended, gateVars,
                   calls>>

-----------------------------------------------------------------------------
(* What the calls do with what they hold.                                  *)

\* set_to_gtt_domain: flush, and wait; or nothing has to be waited for.
DomainFlush(t) ==
    /\ th[t].pc = "domain" /\ Cur(t) \in dirty
    /\ Flush
    /\ WaitFor(t, pending + 1, "done")
    /\ UNCHANGED <<offset, pins, lockVars, suspended, gateVars, panic, calls>>

DomainWait(t) ==
    /\ th[t].pc = "domain" /\ Cur(t) \in On("active") \ dirty
    /\ WaitFor(t, lrs[Cur(t)], "done")
    /\ UNCHANGED <<offset, objVars, pins, lockVars, pending, suspended, gateVars,
                   panic, calls>>

\* Not active, or read only by the GPU and now by the CPU.
Domain(t) ==
    /\ th[t].pc = "domain" /\ Cur(t) \notin dirty
    /\ Goto(t, "done")
    /\ UNCHANGED <<offset, objVars, pins, lockVars, pending, suspended, gateVars,
                   panic, calls>>

\* The data is copied, or the page is entered; pread and pwrite unpin.
Done(t) ==
    LET o == Cur(t) IN
    /\ th[t].pc = "done"
    /\ IF th[t].op = "access"
       THEN pins' = [pins EXCEPT ![o] = @ - 1] /\ list' = [list EXCEPT ![o] = Unpinned(o)]
       ELSE UNCHANGED <<pins, list>>
    /\ held' = Released(t)
    /\ Exit(t)
    /\ UNCHANGED <<lrs, dirty, suspended, panic>>

\* The batch is on its way; it may write some of its objects.  (One that only
\* reads what another has written flushes first, see GemCore.)
Dispatch(t, written) ==
    LET used == Held(t) IN
    /\ th[t].pc = "dispatch" /\ used \cap dirty \subseteq written
    /\ written \subseteq used
    /\ list' = [o \in Obj |-> IF o \in used THEN "active" ELSE list[o]]
    /\ lrs' = [o \in Obj |-> IF o \in used THEN pending + 1 ELSE lrs[o]]
    /\ dirty' = dirty \cup written
    /\ pending' = pending + 1
    /\ pins' = [o \in Obj |-> IF o \in used THEN pins[o] - 1 ELSE pins[o]]
    /\ held' = Released(t)
    /\ writer' = None
    /\ entries' = entries - 1
    /\ th' = [th EXCEPT ![t] = Idle]
    /\ UNCHANGED <<offset, readers, suspended, quiet, panic, calls>>

\* What exec has pinned is unpinned when it fails, or tries again.
PinnedBy(t) == {th[t].batch[i] : i \in 1..th[t].n}
UnpinAll(t) ==
    /\ pins' = [o \in Obj |-> IF o \in PinnedBy(t) THEN pins[o] - 1 ELSE pins[o]]
    /\ list' = [o \in Obj |-> IF o \in PinnedBy(t) THEN Unpinned(o) ELSE list[o]]
    /\ UNCHANGED <<lrs, dirty>>

Retries(t) == th[t].op = "exec" /\ th[t].err = "ENOSPC" /\ th[t].tries = 0

\* Unpinned, the objects are given back before everything is evicted.
Retry(t) ==
    /\ th[t].pc = "fail" /\ Retries(t)
    /\ UnpinAll(t)
    /\ held' = Released(t)
    /\ th' = [th EXCEPT ![t].pc = "everything", ![t].then = "hold", ![t].n = 0,
                        ![t].tries = 1, ![t].err = "none"]
    /\ UNCHANGED <<offset, writer, readers, pending, suspended, gateVars, panic,
                   calls>>

Fail(t) ==
    /\ th[t].pc = "fail" /\ ~Retries(t)
    /\ UnpinAll(t)
    /\ held' = Released(t)
    /\ Exit(t)
    /\ UNCHANGED <<suspended, panic>>

-----------------------------------------------------------------------------
(* Suspending the machine.  The X server has left its terminal before.     *)

Suspend ==
    /\ th[Power].pc = "idle" /\ suspended /\ calls < MaxCalls
    /\ \A t \in Process : th[t].op # "enter"
    /\ calls' = calls + 1
    /\ quiet' = TRUE
    /\ Goto(Power, "drain")
    /\ UNCHANGED <<offset, objVars, pins, lockVars, pending, suspended, entries,
                   panic>>

Quiesce ==
    /\ th[Power].pc = "drain" /\ entries = 0
    /\ panic' = (Busy # {})
    /\ th' = [th EXCEPT ![Power].pc = "inactive", ![Power].then = "asleep"]
    /\ UNCHANGED <<offset, objVars, pins, lockVars, pending, suspended, gateVars,
                   calls>>

Resume ==
    /\ th[Power].pc = "asleep"
    /\ quiet' = FALSE
    /\ th' = [th EXCEPT ![Power] = Idle]
    /\ UNCHANGED <<offset, objVars, pins, lockVars, pending, suspended, entries,
                   panic, calls>>

-----------------------------------------------------------------------------
Evict(t) ==
    \/ InactiveUnbind(t) \/ InactiveEnd(t)
    \/ \E b \in Obj : InactivePick(t, b)

Search(t) ==
    \/ SearchRetire(t) \/ FindWait(t) \/ FindFlush(t) \/ FindEvict(t)
    \/ \E b \in Obj : FindInactive(t, b)

Step(t) ==
    \/ Gate(t) \/ LockRead(t) \/ LockExec(t) \/ LockLeave(t) \/ LockEnter(t)
    \/ Hold(t) \/ Bind(t) \/ BindFull(t) \/ Search(t) \/ Evict(t)
    \/ EverythingGone(t) \/ EverythingFlush(t) \/ EverythingIdle(t)
    \/ Wait(t) \/ DomainFlush(t) \/ DomainWait(t) \/ Domain(t) \/ Done(t)
    \/ \E written \in SUBSET Obj : Dispatch(t, written)
    \/ Retry(t) \/ Fail(t) \/ LeaveStop(t)

Calls ==
    \E t \in Process :
        \/ \E o \in Obj, op \in {"fault", "access", "set_domain"} : Call(t, op, <<o>>)
        \/ \E b \in Batches : Call(t, "exec", b)
        \/ \E op \in {"leave", "enter"} : Call(t, op, <<>>)

Sleeper == Quiesce \/ Evict(Power) \/ Resume

Running == Calls \/ Suspend \/ Sleeper \/ GpuStep \/ RetireWork
           \/ \E t \in Process : Step(t)

\* The driver has nothing to do.
Rest == (\A t \in Thread : th[t].pc = "idle") /\ UNCHANGED vars

Next == Running \/ Rest

Spec == Init /\ [][Next]_vars

\* The GPU, the retire timer and the threads run, and the machine wakes up.
FairSpec ==
    /\ Spec /\ WF_vars(GpuStep) /\ WF_vars(RetireWork) /\ WF_vars(Sleeper)
    /\ \A t \in Process : WF_vars(Step(t))

-----------------------------------------------------------------------------
Pcs == {"idle", "gate", "lock", "hold", "bind", "search", "find", "wait",
        "everything", "idling", "inactive", "victim", "domain", "done",
        "dispatch", "fail", "stop", "drain", "asleep"}

TypeOK ==
    /\ offset \in [Obj -> {Unbound} \cup 0..Pages]
    /\ list \in [Obj -> {"none", "active", "flushing", "inactive"}]
    /\ lrs \in [Obj -> Nat] /\ dirty \subseteq Obj /\ pins \in [Obj -> Nat]
    /\ held \in [Obj -> Thread \cup {None}]
    /\ writer \in Thread \cup {None} /\ readers \subseteq Thread
    /\ pending \in Nat /\ entries \in Nat /\ calls \in Nat
    /\ {suspended, quiet, panic} \subseteq BOOLEAN
    /\ \A t \in Thread : th[t].pc \in Pcs /\ th[t].seq \in Nat

\* No assertion fails: the lists are empty when evict_everything is done, when
\* the terminal is entered and when the machine is suspended, and what
\* evict_inactive picked is neither pinned nor used by the GPU when it has got
\* its hold at last.
AssertsHold == ~panic

\* Room is not lost: what is bound and held by nobody is on a list, where
\* evict_something finds it, and not pinned.
NothingLost ==
    \A o \in Bound : held[o] = None => list[o] # "none" /\ pins[o] = 0

\* While the machine sleeps nothing is bound and nobody is behind the gate,
\* since "we can't readback the gtt to reset what we have" (inteldrm_quiesce).
EmptyAsleep ==
    th[Power].pc = "asleep" =>
        /\ Bound = {}
        /\ \A t \in Process : th[t].pc \in {"idle", "gate"}

\* The second try of execbuffer finds room for every batch that fits into an
\* empty aperture.
PagesOf(S) == UNION {{o} \X (1..Size[o]) : o \in S}
Fits(b) == Cardinality(PagesOf({b[i] : i \in DOMAIN b})) <= Pages
Refits ==
    \A t \in Process :
        th[t].pc = "fail" /\ th[t].op = "exec" /\ th[t].tries = 1
            => ~Fits(th[t].batch)

\* Every call comes to its end: whatever is held, pinned or waited for by the
\* others, evictions end, and nobody waits for himself.
CallsEnd == \A t \in Process : th[t].pc # "idle" ~> th[t].pc = "idle"

\* A batch is refused for want of room only after the second try ("error other
\* than GTT full, or we've already tried again", i915_gem_execbuffer2).
FullIsRetried ==
    \A t \in Process :
        th[t].pc = "fail" /\ th[t].op = "exec" /\ Fits(th[t].batch) => Retries(t)
=============================================================================
