# Verification of the DRM/GEM kernel code (netbsd-drmgem)

TLA+ models of the kernel part of this repository, `src/src/sys/dev/pci/drm/`:
the Direct Rendering Manager and its i915 driver with the Graphics Execution
Manager (GEM), ported from OpenBSD to NetBSD. Below, `drm/` stands for that
directory.

Everything else in the repository is an original kept for comparison
(`src/openbsd`), vendored user-land code (`src/xsrc`), packing lists and kernel
configuration. One macro file of libdrm, `xf86drm.h`, matters: its light lock
is the other half of the hardware lock.

## 1. The system

### Who runs when

| Actor | Runs | Locks it has on entry |
| --- | --- | --- |
| ioctl, open, close, read | in a process, under the kernel lock: other such threads run only where it sleeps or blocks | none |
| page fault (`inteldrm_fault`), munmap (`drm_unref`) | in a process, **without** the kernel lock | the map; the uvm object lock |
| work queue (`i915_gem_retire_work_handler`, `inteldrm_hung`) | one kernel thread, under the kernel lock | none |
| callouts (`inteldrm_timeout`, `inteldrm_hangcheck`, `vblank_disable`) | soft interrupt, under the kernel lock | none |
| interrupt (`inteldrm_intr`) | IPL_TTY, under the kernel lock | none |
| the GPU | always: reads the ring, writes seqnos to the status page, fills its caches | - |

`dev_lock` (`DRM_LOCK`) is a reader/writer lock: execbuffer, pin, unpin, close,
the reset task take it for writing; pread, pwrite and faults for reading;
set_domain, busy, madvise, set_tiling, flink and the retire task not at all. A
*hold* (`DRM_BUSY`) is a per-object sleeping lock below it. `request_lock`,
`list_lock` and the object's own mutex are held briefly and never over a sleep.

### Components

| Component | Source | State | Operations | What is hard | What makes it correct |
| --- | --- | --- | --- | --- | --- |
| GEM request engine | `i915_drv.c` | seqnos, request list, active/flushing/inactive lists, GPU write list, domains, pins | execbuffer, wait, flush, retire, pread/pwrite, set_domain, fault, pin, unbind, hang reset | the GPU runs behind the lists; no lock covers an operation from end to end | no object is touched, unbound or reused while the GPU needs it; no GPU write is forgotten; every request is retired and every waiter wakes |
| GEM object life | `drm_drv.c`, `i915_drv.c` | reference and handle counts, handle tables, names, mappings | create, lookup, flink, open, close, mmap, munmap, exit, free | munmap and faults come without the kernel lock; freeing takes neither list nor device lock | counts are exact; nothing points to a freed object |
| Hardware lock, contexts | `drm_lock.c`, `drm_context.c`, `drm_drv.c` | lock word (shared memory), remembered file, context bitmap | light lock/unlock, lock, unlock, addctx, rmctx, close | user land takes the lock without the kernel; owners die | mutual exclusion; no lost sleeper; the lock of a dead process is freed |
| Aperture eviction | `i915_drv.c` | dmamaps, inactive list, pins | bind_to_gtt, pin, evict_something, evict_inactive, evict_everything, ENOSPC retry | objects are used, bound or pinned again while an eviction sleeps | eviction ends and takes what is idle only; no room is lost; a batch that fits gets in |
| Fences and tiling | `i915_drv.c` | fence registers, tiling mode, LRU list | get/put_fence_reg, set_tiling | stealing a fence from an object in use; fences invalidated lazily | objects, registers and hardware agree; a fenced access, of CPU or GPU, finds its register as it left it |
| Ring | `i915_drv.c` | head, tail, space | begin, out, wrap, wait, advance, start, cleanup, init | wrap and unread commands; a wait that gives up | nothing unread is overwritten; words are executed once and in order |
| Hang, VT switch, suspend | `i915_drv.c`, `i915_suspend.c` | wedged, suspended, QUIET, entries, hang timer | hangcheck, error, hung, entervt, leavevt, quiesce, resume | reset versus VT switch versus whoever waits for the GPU | a hang ends in a reset that everybody learns of; a left terminal is quiet; quiesce waits for every fault |
| Vertical blank, events | `drm_irq.c`, `drm_drv.c` | counter, references, pending events | get/put, wait, queue, handler, modeset, install/uninstall | interrupt versus ioctl versus close | the interrupt is on while somebody needs it, and is timed to be switched off afterwards |
| Open, authentication | `drm_drv.c` | files, magic, open count | open, lastclose, ioctl dispatch | open racing the last close | - |
| Maps, AGP ioctls, memory | `drm_bufs.c`, `drm_agpsupport.c`, ... | map lists | add/remove map | thin bookkeeping | - |
| AGP/GTT drivers, back-ports | `agp_i810.c`, `sg_dma.c`, `uvm_page.c`, ... | registers, page tables | - | - | - |

The components meet at three places: execbuffer and faults (engine) take
references and holds (object life); the last unreference (object life) unbinds,
that is, changes the engine's lists; hang and VT switch empty both. Execbuffer
writes into the ring, and a reset or a VT switch restarts it.
`PROJECT.json` lists the hazards of this code line by line, with the properties
that watch them.

## 2. Plan

Done, in this order: `GemCore`, `GemObject`, `HwLock` (with `Mutex`), `Vblank`,
`Fence`, `Ring` (with `CommandQueue`), `Recovery`, `Aperture`, and the proofs of
section 5.

What is left:

1. The hold with its WANTED flag and its sleep queue, now a guard everywhere.
2. Open, authentication and the last close.

## 3. The models

All modules take one action to be the code between two points at which another
actor can interfere: acquiring `dev_lock`, a hold, `request_lock`, or a sleep.

### GemCore

State: `list`, `active`, `gpuWrite`, `lrs`, `lws` are `current_list`, the flags
`I915_ACTIVE` and `I915_GPU_WRITE` and the two seqnos of `struct inteldrm_obj`;
`wd rd prd pwd` the domains; `pin upin bound mapped` pin counts, dmamap and the
strongest user mapping; `requests nextSeqno retireTimer workq wedged` belong to
the device; `held drmW drmR` are the locks, `th` the program counters of the
processes and of the work queue. `hwSeqno` and `ring` are the status page and
what the GPU still has to run.

`gpuUse`, `gpuDirty`, `flushAt` are ghosts: which batch still uses an object,
which GPU cache holds writes to it that no queued flush covers, and after which
seqno flushed writes are in memory. They are written where a command enters the
ring, never read by the driver's actions, and give the properties a truth to
compare the driver's lists with.

Each entry point is a path of actions: `Call`, then `ReadLock`, `WriteLock` or
none, `Hold`, `Flush` (`i915_gem_object_flush_gpu_write_domain`), `WaitSeqno`,
`Wait`/`Wake`/`Interrupt` (`i915_wait_request`), `Retire`, the domain change,
the access, `Return`. execbuffer is `ExecLock`, `ExecPin` (per object, in any
order), `ExecFlush`, `ExecDispatch`, `ExecExit`, with its error exits.
`RunTask`, `Retire`, `RetireEnd` are the retire handler, `HungReset` to
`HungEnd` the reset task, which gives `dev_lock` away in the middle.
`GpuProgress` is the hardware (external).

Assumptions on the environment: every object of a batch has a relocation that
reads it (as libdrm emits them); a batch sees ENOSPC as an error, not as a
retry (that is `Aperture`'s); a hang is declared at most once until its reset
has ended (the hang timer is `Recovery`'s). Seqnos are counted without a wrap;
`SeqnoWord`, `NextWord` and `WordPassed` are the 32-bit words the code keeps
instead and what it does with them, for words of any width. The assumptions of
`MCGemCore`, which TLC evaluates with every run, check them for 16 values.

### GemObject

The counts `refs` (`uo_refs`) and `hcount` (`handlecount`), handle tables,
`named`, `maps` (map entries), the active reference, the inactive list and the
hold. Every path that takes or drops a reference is there, one action per
critical section: lookup users (pread, set_domain, busy, flink, mmap), open,
close, exit of a file, execbuffer, fault, munmap, retirement, `evict_inactive`.
`Unref` is `drm_unref_locked`: one reference less, or, for the last one, the
hold, then `Free` (`gem_free_object`, unbind) and `Put` (`pool_put`). A freed
object does not come back (`life` "gone"). Not modelled: `DRM_WANTED` and its
sleep queue (a hold is a guard), the rollback of a failed create, and object
sizes.

### HwLock and Mutex

`word` is the lock word, `filePriv` what the kernel remembers, `ctxBitmap` and
`ctx` the contexts, `pc` where each process is. `LightLock` and `LightUnlock`
are the compare-and-set macros of `xf86drm.h`; `Take` one turn of the loop in
`drm_lock`; `UnlockCheck`, `LockFree`, `Broadcast` are `drm_unlock`, separated
where it leaves the spin lock; `Die`, `Close`, `RmCtx` the end of a process.
`RecycleLast` says whether a context may be removed while the lock word still
names it. The code does not forbid that, and a holder may then be lost
(`MCHwLock_recycle.cfg`); with
`RecycleLast = FALSE` the lock keeps all its promises. `Mutex` is what the
lock promises; the refinement mapping takes `inside` to be the processes
between the end of a lock and the clearing of the word.

### Vblank

`refs enabled count inModeset timer` are `vbl_refs`, `vbl_enabled`,
`vbl_count`, `vbl_inmodeset` and the disable timer; `pending` the `vbl_events`
of a crtc, `ready` and `space` the `evlist` and `event_space` of a file (space
counts events, which all have one size). `pipestat` is what the driver
remembers of the pipes' interrupts and restores at a reinstall, `latched` and
`ier` are the device. `handler` is the interrupt handler between its locked
sections: it counts, reads the count, and then takes `event_lock`.
`Install ... UninstallHw` are `drm_irq_install` and `drm_irq_uninstall`, cut at
the end of `dev_lock` and of `vb_lock`; there is one such thread, because the
X server is the only caller and it does so one call at a time. `Ask ...
Release` is a WAIT_VBLANK that sleeps, `Queue` and `QueueFails` one that asks
for an event. `PreModeset` and `PostModeset` are one step each: the flag
`vbl_inmodeset` is read and written outside `vb_lock`, and only the kernel
lock keeps two such ioctls apart. Sequence numbers are integers modulo
`CountMod`, and a number has passed when it is at most `Window` behind, as the
code compares modulo 2^32 with 2^23.

`lost` is a history variable: the references of calls that failed. The code
has no such count; it says which part of `vbl_refs` nobody will give back.
`left` is another: the crtcs whose interrupt was on when `drm_irq_uninstall`
cleared all `vbl_enabled`, until a first reference enables them again. The
removal leaves `pipestat` as it is, and the next `i915_driver_irq_install` writes
it back. A crtc that is in use then must interrupt again (`Interrupting`). One
that nobody uses any more interrupts too, and `vblank_disable` skips it because
`vbl_enabled` says that it is off. `UnusedExpires` says of all other pipes that
are on for nobody that the timer is running and that the crtc is not hidden from
it; that there are no such exceptions while a handler is installed is
`NoneLeftOn`, which the code does not keep (`MCVblank_left.cfg`).

Abstracted: whether a pipe is on, and its frame counter. The first reference
may therefore fail, and otherwise adds any number of frames; this includes
what the code really adds after a reinstall, when `vbl_enabled` was cleared
but the counter of interrupts went on. `Missed` is the arithmetic that
`drm_update_vblank_count` does on the frame counter; `MCVblank` checks it on a
counter of 8 values. A read of several events is a sequence
of reads. Interrupts are ignored while the GEM side is suspended, which is as
if they came later.

### Fence

`tiling`, `fence`, `invalid` and `fenced` are `tiling_mode`, `fence_reg` and the
flags `I915_FENCE_INVALID` and `I915_FENCED_EXEC` of an object; `regObj`,
`regSeq` and `lru` the table of registers with the seqno of their last use and
the LRU list; `hw` is what the hardware registers hold. `uses` is a ghost: the
fences, with their tiling, that unfinished batches were submitted with.
`PutFlush` to `PutClear` are `i915_gem_object_put_fence_reg` for a victim, which
is the object itself or one whose register is stolen; `GetOld`, `GetFree`,
`GetNone` and `GetSteal` are the outcomes of one round of
`i915_gem_get_fence_reg`. They are reached as in the code: from a page fault
and the set_domain ioctl through `set_to_gtt_domain`, from execbuffer through
`i915_gem_object_pin`, and from unbinding. `SetTiling` only marks the fence of
its object.

The request engine below is `GemCore`'s, made smaller: `GpuFlush` and
`ExecDispatch` know one write domain and one read domain, a wait and the
retirement it ends with are `Retire` steps before `Wake`, and nothing fails for
want of memory or hangs. Only execbuffer pins. Relocations write nothing
(targets are where user land presumed them), and objects never have to move to
another alignment. The search for a register that finds none it can hold goes
round again at once; here it is a guard that waits.

`Gen6` stands for `IS_GEN6 || IS_GEN7`. `put_fence_reg` clears the register of
the 965 on every chip `IS_I965G` is true of, and it is true of these two as
well, whose registers are elsewhere; the hardware register then keeps what it
had. The runs and the theorem are about the other chips. With `Gen6 = TRUE` the
same run violates `RegsConsistent` as soon as a register is given back.

### Ring and CommandQueue

`head` and `hwTail` are the two registers, `tail woffset space` the fields of
`struct inteldrm_ring`, `mem` the words of the ring object; `left` and `id` tell
the words of a packet apart, so that a lost, doubled or overwritten word shows.
`Begin` to `Advance` are `BEGIN_LP_RING` to `ADVANCE_LP_RING`, with `Wrap` for
`wrap_ring` and the waits for room inside; they run under `request_lock` without
a sleep, so one packet at a time is written, while `Fetch` and `Stall` (the
command streamer, external) go on between any two words. `Reset`, `Cleanup` and
`InitRing` restart, stop and make the ring.

Two things in the code are as surprising as they are in the model. `wrap_ring`
compares the signed `space` with an unsigned rest (`TooLittle`): a negative
count is taken for a large one. And when `wait_ring` gives up, because the GPU
has not moved for a while, `wrap_ring` and `begin_ring` go on without the room
(`WrapGiveUp`, `ReserveGiveUp`): `out_ring` may then write over what is unread,
and past the end of the ring. Nothing is promised from there to the next
restart; `kept` remembers that. `CommandQueue` is what is promised otherwise: a
queue of words, executed once, in order. What is handed over is a whole packet,
and no-ops may come before it (the padding of `wrap_ring`), never inside it.

Assumptions: positions count words, and the size is a power of two; no packet is
longer than half the ring (the longest has 10 words, and the ring 32768). The
packet that reserves 10 words and writes 4 on the sixth generation is in code
that is never reached there.

### Recovery

The hang check, the reset task, and the VT switch, with the waits they must
end. `hangTimer hangCnt seen` are `mm.hang_timer`, `mm.hang_cnt` and
`mm.last_acthd`; `wedged suspended requests nextSeq` are the device's;
`hungTasks` are queued resets; `hwSeq queue gpu pageError userIrq` are the GPU
and its interrupt registers. An object is on a list, written by the GPU or not
(`dirty`), held or not; domains, pins and relocations are `GemCore`'s business.

`chip` is the chip, of those that can be reset (`HAS_RESET`). What matters is
where its status page is, to which the GPU stores the seqnos. On the 965 it is
allocated when the driver attaches. On G4X and Ironlake (`GfxHws`) it is an object
that goes with the ring when the X server leaves (`CleanupHws`), and comes back
zeroed with it (`InitHws`). `page` says whether `hw_status_page` is there. Without
it `i915_gem_retire_requests` returns at once, also for the reset task, and a
thread that asks for the seqno reads through NULL (`WaitNoPage`). Ironlake has
an interrupt handler of its own, which does not look whether the terminal is
left.

Everything here runs under the kernel lock, so an action is what a thread does
from one sleep to the next. `HangCheck...` are the outcomes of
`inteldrm_hangcheck`; `Interrupt` is `inteldrm_intr` or `inteldrm_ironlake_intr`
with the part of `inteldrm_error` a page table error takes; `WaitSleep WaitDone
WaitWedged Signal` are the loop of `i915_wait_request`, reached from set_domain
(`Sync`), irq_wait and leavevt. `IrqEmit` and `IrqWait` are the ioctls that make
a request with no object (`Emit`): irq_emit always, whatever the state of the
GPU, irq_wait if user land names the next seqno. `Leave LeaveAgain LeaveEvicted LeaveStop LeaveIrq` are leavevt
(`i915_gem_idle`, then the removal of the interrupt handler), `Enter EnterLock
EnterIrq` entervt. `HungStart` to `HungEnd` are `inteldrm_hung`, which drops
`dev_lock` between `HungReset` and `HungRelock`.

`panic` records the first thing that goes wrong: a failed assertion on the lists
or on the requests, commands written without a ring by execbuffer, set_domain or
leavevt (`"ring"`) or by irq_emit and irq_wait (`"emit"`), or a seqno read without
a status page (`"page"`). Two history variables say what the properties except.

* `unreset`: the terminal was left while the GPU was wedged, and no reset has
  retired its requests since. `i915_gem_idle` goes on then and assumes "that the
  reset workq will clear everything out". `entervt` clears `wedged` before it
  takes `dev_lock` and then asserts that the lists are empty; if it comes before
  the reset task has run, they are not, and the assertion fails. On G4X and
  Ironlake it fails even if the reset task has run: away from the terminal there
  is no status page, nothing is retired, and `wedged` is cleared all the same.
  `ResetClears` is what the comment assumes; it holds on the 965, and TLC refutes
  it for a G4X (`MCRecovery_gfx.cfg`).
* `bare`: the requests irq_emit and irq_wait have made. No list makes leavevt
  wait for them, so that they may still be on the request list when the terminal
  is left, and trip the assertion of entervt on that list. Away from the terminal
  the two ioctls also write into a ring that is not there, or read a status page
  that is not there; nothing in the code prevents it, and no property denies it.

`PanicsNot` excepts exactly that: assertions on the lists and rings missing under
`"ring"` come with `unreset` only, the assertion on the requests with `unreset` or
with `bare` requests only. `AwayIsQuiet` adds that nobody who waits with
`dev_lock` or a hold gets to read a status page that is gone. `EveryoneTold` is
about the resets that find a status page, since the others retire nothing.

Assumptions: a timer does not go off, and the X server is not back, while a
thread that could run has not run (750 ms, and the time of a VT switch).
`Hasty = TRUE` drops both. Then the timer may declare a second hang while the
first reset task is still on its way, and a second task resets a GPU that works.
The theorems of section 5 hold all the same, `EveryoneTold` among them: no reset
ends while a thread with `dev_lock` or a hold waits for a request that is no
longer on the list. The liveness properties do not. TLC finds that entervt
clears `wedged` before a woken waiter has looked at it; the waiter goes back to
sleep for a request the reset has thrown away, with a hold on an object that the
reset task, which has `dev_lock`, wants to evict. It also finds that the end of
the second reset task clears `wedged` for a hang that was declared after that
task had looked at the requests: the waiter is not told then and sleeps on, its
request still on the list. Signals end what `SignalOps` names, which in the run
leaves leavevt out. With "leave" in it TLC refutes `PanicsNot` without any hang: an
interrupted leavevt leaves the request of its flush behind, the next one finds
the lists empty and does not wait for that request, and entervt asserts that
the request list is empty. Not modelled: an entervt that fails in
`init_ringbuffer`, which leaves `suspended` clear without a ring.

### Aperture

`offset` is where an object is bound, `Unbound` for no dmamap; `list lrs dirty
pins held` are the engine's, `writer readers` the two sides of `dev_lock`,
`quiet entries` the gate in front of ioctls and faults, `suspended` the state of
the terminal. Requests are counted by how many the GPU has to pass until it has
passed them, so that nothing needs a bound.

`Bind` puts an object into any hole that is large enough (`Holes`, the extent
allocator is external), `BindFull` starts a search. `SearchRetire FindInactive
FindWait FindFlush FindEvict` are the rounds of `i915_gem_evict_something`,
`Everything...` are `i915_gem_evict_everything`, `InactivePick InactiveUnbind
InactiveEnd` `i915_gem_evict_inactive`, which sleeps for a hold between the
two. `Retry` is the second try of execbuffer, `Fail` its way out. `Suspend
Quiesce Resume` are `inteldrm_quiesce` and `inteldrm_resume` on the thread that
suspends the machine.

Two constants switch behaviour on that breaks a promise, so that the rest can
be checked without it. `PinMayFail`: a signal ends the wait for a fence, after
`i915_gem_object_pin` has bound the object; nothing puts it on a list then.
`MapMayChange`: a page fault that slept for `dev_lock` finds that its map has
changed, and returns with the lock read-locked.

Assumptions: the kernel lock also keeps page faults apart. In this port it does
not on a multiprocessor: two faults can race on `entries++` and, while one runs
`evict_everything`, the other can put an object on a list that is about to be
asserted empty. Left out: alignment and the rebinding it needs, purged objects,
objects pinned through the pin ioctl, a wedged GPU, and a second leavevt while the
terminal is left: `LockLeave` returns then, where `i915_gem_idle` asserts that the
active and flushing lists are empty and evicts what page faults have bound
(i915_drv.c:4380-4386). `Recovery` has that call (`LeaveAgain`). A batch is not
empty: execbuffer2 refuses a `buffer_count` below 1.

## 4. The runs

| Run | Instance | Shows |
| --- | --- | --- |
| `gem_clients` | 1 object, 2 processes, all entry points, read and write batches, 1 seqno and its waits | CPU accesses, domain assertions and mappings, with every pair of operations interleaved |
| `gem_objects` | 2 objects, 1 process, 2 GPU domains, 2 seqnos, hang and reset, failing allocations | lists, flags and seqnos agree; dirty caches are tracked; nothing is stranded, all through a reset that drops `dev_lock`, and without memory |
| `gem_retire` | 2 objects, 1 process, 2 seqnos, unbinds, failing binds, fairness | every request is retired, every waiter wakes |
| `object_life` | 1 object, 2 threads, 2 files with 2 handles each, 2 mappings, work queue | exact counts, nothing outlives the object, nothing freed stays listed, no wait at the last unreference |
| `object_evict` (violation) | the same, mmap and close only | evicting an object that is being freed |
| `fence_regs` | 2 objects, 1 register, 2 processes, 2 seqnos | registers, objects and hardware agree; the LRU list is exact; no fence vanishes from under a batch or a fault |
| `lock_hw` | 4 processes, 3 contexts, fairness | `Mutex` implemented, a held lock has somebody to release it, every sleeper wakes |
| `vblank_events` | 1 crtc, 1 asking thread, 1 reader, 2 files, room for 1 event each, counts modulo 3 | exact references and event space, interrupts on for who needs them and timed off otherwise, unless a removal of the handler left them on, no forgotten sleeper or event |
| `ring_queue` | 8 words, packets of 2 and 4, 3 numbers, fairness | no unread word is overwritten; the ring is the queue of `CommandQueue`; every packet gets out |
| `recovery_vt` | a 965 or an Ironlake, 1 client and the X server, 1 object, 1 batch, 1 request of irq_emit or irq_wait, 1 hang, 2 switches, fairness | assertions, quiet terminals, but for what section 3 excepts; a wedged GPU is reset; waiters return, and no reset that retires requests ends with a shielded one waiting for them |
| `aperture_room` | 3 objects of 1, 2 and 1 pages in 3 pages, 2 processes, suspend, 3 calls, fairness | evictions end and take what is idle; no room is lost; a batch that fits is refitted; the machine sleeps with an empty aperture; every call ends |
| `aperture_lost` (violation) | the same, and pins may fail | an object bound for good that no eviction finds |

The bounds. In `GemCore` an object is bound, written, flushed, waited for and
retired within two seqnos; the interesting races are between two threads over
one object (`gem_clients`) or two objects of one batch (`gem_objects`), and a
third thread adds waiters at the same guards. `MaxSeqno` stops new batches, not
the requests that waits and flushes queue. In `Fence` two objects and one
register make every tiled access a theft, and two processes the thief and the
victim; what a register shows depends on no other register, and the theorem is
for any number. In `GemObject` all operations work
on one object at a time and objects do not share counts, so one object is
enough; two threads and the worker give every pair of rivals. In `Vblank` crtcs share
only the disable timer and the order of the handler, so one crtc is enough (the
proofs are for any number); two files make one of them close while the other
has events; one asking thread meets the handler, the timer, the administrator
and the reader at every step; counts modulo 3 wrap constantly, and with a
window of 1 a number is ahead or passed. The proofs again cover any number of
threads. In `HwLock` four
processes compete for three contexts, so that one waits for a context of
another and two sleepers can wait behind one holder. In `Ring` eight words wrap
with every third packet, at every position and fill, and three numbers tell any
two packets apart that are in the ring together. In `Recovery` a client waits,
with or without a hold, while the X server leaves, comes back, and leaves
again; the hang happens before, during and after each of the two. The two chips
are those that differ most: status page always there or gone with the ring, a
handler that looks at `suspended` or does not (a G4X shares the one with the
Ironlake and the other with the 965). Seqno 2 is the one irq_emit and irq_wait
name: at times the next one, one that is queued, one that has passed, or one that
is far off. Objects of the pin ioctl, which no reset
evicts, and a second object or batch are left to the theorems. In
`Aperture` the large object fits only beside one of the others, and only if
that one was not bound in the middle, so every bind may have to evict; three
calls are two rivals and a third that finds what they left, or two and a
suspend. Processes, clients,
handles and files are symmetric; the runs with liveness use no symmetry.

Deadlock is checked except for `GemObject` and `HwLock`, which really stop: a
model run ends when the objects are freed, or all processes are gone.

Fairness. `gem_retire`: weak fairness of the GPU, of the callout, of the work
queue thread, and of a waiter that has been woken; no fairness of locks, holds
or system calls. `lock_hw`: a process in the kernel finishes its ioctl, a
holder releases or dies, a dead process is closed. Processes need not take the
lock, and signals may come at any time. A woken sleeper may still lose the race
to a light lock: what is promised, and checked, is that it wakes, not that it
gets the lock. `ring_queue`: the driver, which does not sleep there, goes on
(weak), and a GPU that again and again can read does so (strong, since it may
stall in between). `recovery_vt`: threads in the driver go on, the GPU runs
until it stops, interrupts come (weak); the reset task gets `dev_lock` in the
end, a rwlock being given to who waits for it, and the hang timer goes off in
one of the moments when nobody can run (strong). Calls, signals, hangs and VT
switches are not fair. `aperture_room`: weak fairness of the GPU, the retire
timer, the threads in the driver, and the one that suspends. `Vblank` states no
liveness: nothing forces frames to come,
and a sleeper gives up after three seconds anyway. That nobody sleeps through
what has happened (`NoneOversleeps`), and that the interrupt everybody sleeps
for stays on (`Interrupting`), are invariants.

### What the violation runs say

* `object_evict`: `drm_unref_locked` relies on nobody grabbing a dying object.
  munmap gets there without `dev_lock`, while `i915_gem_evict_inactive` takes a
  reference from the inactive list, on which the dying object still is.
* `aperture_lost`: `i915_gem_object_pin` binds, then may fail for the fence. The
  object stays bound, with no pin and on no list: no eviction finds it, and
  "the gtt is empty" in `i915_gem_evict_something` is not true of it.

### Further configurations

These are not among the runs; TLC refutes the property each of them names, and
a reader can repeat it with `tlc -config <file> <module>`.

| Configuration | Property | What it says |
| --- | --- | --- |
| `MCGemCore_userpin.cfg` | `UserPinIsPin` | `i915_gem_pin_ioctl` counts before it pins and does not take the count back when that fails |
| `MCGemCore_mapping.cfg` | `MappingCoherent` | `inteldrm_fault` promises coherence of read-only mappings; a batch that writes the object does not wipe them. As the batch also ends the GTT read domain, a later unbind does not wipe them either |
| `MCHwLock_recycle.cfg` | `HolderAlive` | `drmclose` frees a dead process's hardware lock by the remembered file, which a light lock through a recycled context never updates |
| `MCVblank_lost.cfg` | `LastUserReleases` | `drm_queue_vblank_event` returns ENOMEM without giving its caller's reference back: the crtc is never again without users, and its interrupt stays on |
| `MCVblank_left.cfg` | `NoneLeftOn` | `drm_irq_uninstall` clears `vbl_enabled` ("update state correctly so that we can continue refcounting correctly") but leaves the interrupt of a crtc that nobody uses any more in `pipestat`; a reinstall switches it on again, and `vblank_disable` does not look at it |
| `MCRecovery_gfx.cfg` | `ResetClears` | `i915_gem_idle` assumes that the reset "will clear everything out"; without the status page, which leavevt takes away on a G4X, `i915_gem_retire_requests` returns at once, and entervt then asserts that the lists are empty |
| `MCRecovery_irq.cfg` | `AwayIrqOff` | `inteldrm_965_reset` drops `dev_lock` to reinstall the interrupt handler; a leavevt in between ends with the interrupts on ("if we're vt switched then nothing will be enabled", `inteldrm_intr`) |
| `MCRecovery_error.cfg` | `ResetComes` | a page table error makes `inteldrm_error` declare the GPU wedged without waking who waits; with `dev_lock` in the hands of a sleeping waiter the reset task never gets it |
| `MCAperture_relock.cfg` | `CallsEnd` | `inteldrm_fault` returns with `dev_lock` read-locked when it cannot lock its map again; no writer gets it any more |
| `MCAperture_full.cfg` | `FullIsRetried` | execbuffer retries on ENOSPC, but a bind that finds no room beside what is pinned gets EAGAIN from the extent allocator when all lists are empty, and is refused (libdrm calls again) |

## 5. The proofs

`tlapm` checks them for every value of the constants, under the named
assumptions next to the constants (`ThreadAssumption`, ..., `HwLockAssumption`, `VblankAssumption`:
the worker is not a client, "none" is not a thread, bounds are numbers).

`GemCore_proofs`. `TypeCorrect`: `Spec => []TypeOK`. `TypeOK` is not inductive:
a step may use the object of a thread at any program counter. `TypeInv` adds
`ThreadInv`: which program counters belong to which operation, and that a
thread at work on an object names one. `DataStep` and `ThreadStep` then go
action by action; the engine's operators (flush, add_request, retire) have
lemmas of their own (`ReqOK`, `FlushOK`).

The safety properties the runs check come from one inductive invariant,
`SafeInv`, proved conjunct by conjunct:

* who is where: `Places`, `WorkerPlaces`, `Locks` (`dev_lock` is held by exactly
  the threads at certain program counters), `Holds` (an object is held by the
  thread at work on it, or by the batch being built);
* what the engine keeps: `Seqnos`, `Lists` (flags, lists, domains and requests
  of an object go together), `Bound`, `Pending` (what a batch in the making
  plans for its objects);
* what the GPU does, against what the driver believes: `Tracked` (a use, a dirty
  cache or a flush the GPU has not finished is on the books: on the active list
  under a seqno at least as late), which is suspended while `wedged`, and
  `Forgotten`, which is what gives it back after a reset;
* what a waiter knows: `Waiting` (once the flush is done, nothing the GPU still
  does with the object is later than the seqno waited for), and
  `WriteMappingTracked`.

`Tracked` and `Waiting` are the heart. `RetireSafe` alone is not inductive,
since a seqno that is too small could be retired too early;
`CpuAccessSafe` needs that nobody gives the object back to the GPU between the
wait and the access, that is, `Holds`. From `SafeInv` follow `RetiredIsDone`
(`[]RetireSafe`), `NoWriteForgotten` (`[]WritesTracked`), `NobodyStranded`
(`[]NoneStranded`), `AssertsOfDomains` (`[]DomainAsserts`), `CpuSeesTheGpu`
(`[]CpuAccessSafe`) and `WritableMeansGtt` (`[]WriteMappingTracked`). With
`Pins`, which says who has pinned an object (its users once, its holder once),
follow `ListsAgree` (`[]ListsConsistent`) and `UsersPinsHold` (`[]UserPinIsPin`).

`SleepersServed`: while the GPU does not hang, `i915_wait_request` sleeps only on
seqnos that the GPU has stored or whose store is in the ring (`EachServed`), the
safety part of `WaitersWake` for all constants. Its invariant `Sleepers` says
that objects and sleepers name seqnos handed out, where a waiter may have to
hand one out first, and that the ring holds every store not yet executed. A
reset does throw stores away: TLC finds a sleeper in `set_domain`, which has no
lock that the reset needs, that sleeps through hang and reset and is left with a
seqno that only later requests will pass. What holds then is `Recovery`'s
`EveryoneTold`.

`WordsSuffice` justifies the model's unbounded seqnos. `SeqnoWord(n, w)` is the
`n`-th word that `i915_add_request` hands out (`WordsFollow`), and for seqnos less
than half a round apart `i915_seqno_passed` decides on words as `SeqnoPassed` does
on seqnos (`WordsCompare`). In every reachable state all comparisons the engine
makes therefore agree, those for equality too, as long as the seqnos compared
are among the last `h` of `2h` words: 2^31 in the code. The exception is the 0
that stands for no seqno. `NoneIsLate`: while the words are in the upper half of
a round, 0 compares as not passed. `flush_gpu_write_domain` waits for
`last_write_seqno`, which is 0 in an active object that no batch writes, and
`i915_wait_request` does not know of 0: a reader would sleep until the words have
wrapped, up to two billion requests later. `WordsAgree` leaves that wait out.

These theorems have three hypotheses. `GpuAccesses`: every object of a batch is read in a GPU
domain, and written in one of those it is read in. This is what the callers do:
the kernel refuses the CPU domains and more than one write domain
(i915_drv.c:3525), libdrm and the X driver in this repository name RENDER,
SAMPLER, INSTRUCTION and VERTEX only, with a write domain that they read too,
and the batch buffer is read in COMMAND; the runs' `Accesses` satisfy it. A
relocation with no domain at all, or with the GTT domain, is accepted by the
code and outside the theorems. `PinKept` (`ListsAgree` and `UsersPinsHold`): no bind of
the pin ioctl fails. `i915_gem_pin_ioctl` counts before it binds, which
`MCGemCore_userpin.cfg` shows to break the counts; `UsersPinsHold` says that
there is no other way.

`GemObject_proofs`. `ReferencesExact` (`[]RefsExact`), `NothingOutlives`
(`[]CountedLive`), `FreedLeaveTheList` (`[]FreedUnlisted`), `LastFindsNoHolder`
(`[]LastRefNotHeld`) and `TypeCorrect`, for any number of objects, threads,
files and handles, with no hypothesis but that the sets are finite and their
"none" values are not members. The inductive invariant `ObjectInv` adds to them
where each operation may be (`Places`), who holds what (`HoldExact`), that a
page fault is covered by a map entry of its own (`FaultsMapped`), that whoever
works on an object found it alive (`Existing`), and that nothing but the
evictor can reach an object whose last reference is gone (`Dying`). Each step
changes the counted sets by at most one thread or one handle, which `Tally`
and `HandleTally` turn into arithmetic. The counts are exact although the
evictor's reference to a dying object is not: what happens then
(`NoUseAfterFree`, run `object_evict`) is about an object whose count has
reached zero, of which `RefsExact` says nothing.

`HwLock_proofs`. Mutual exclusion is not inductive: after `LightLock` only the
word tells who is in. `LockInv` says that contexts are distinct (`CtxInv`), the
word names whoever is inside (`HolderInWord`), the remembered file is the last
holder's while it lives (`FileInv`), and a close that has decided to free
really closes the holder (`CloseInv`). It is inductive whatever `RecycleLast`
is, and gives

* `Exclusion`: `[]MutualExclusion`,
* `SleeperRemembered`: `[]NoLostWakeup` (a contended word is changed by the
  kernel only, and the holder in the word makes `drm_lock_free` always reach
  its broadcast),
* `Refinement`: `Spec => ImplementsMutex`.

With `~RecycleLast`, `LastKnown` (the word names a context of the remembered
file) is inductive too, and gives `HolderRemembered`:
`[](HolderKnown /\ HolderAlive)`. `MCHwLock_recycle.cfg` shows that the
assumption is needed. (`MutualExclusion` and `NoLostWakeup` are stronger in
`ImplementsMutex` and `SleeperWakes`, which the run checks.)

`Vblank_proofs`. `ReferencesExact` (`[]RefsExact`), `InUseInterrupts`
(`[]Interrupting`), `UnusedIsTimed` (`[]UnusedExpires`), `SleepersAreWoken`
(`[]NoneOversleeps`), `DueEventsLeave` (`[]EventsOnTime`), `RoomIsExact`
(`[]SpaceExact`) and `TypeCorrect`, for any number of threads, files, crtcs and
events. The inductive invariant `VbInv`
adds to them that the lists of events are finite (`ListsFinite`: sizes of
infinite sets mean nothing), that a thread in the kernel has a file
(`HasFile`), that an event waits on one crtc (`OnePlace`) and a closed file has
none to read (`ClosedEmpty`), and that `vbl_enabled` is stale in one direction only
(`EnabledIsOn`): after a removal of the handler it may be 0 for a crtc whose
interrupt is remembered, never 1 for one that is off. `UnusedIsTimed` needs the
other direction, which only a removal breaks (`Accounted`: what is remembered is
enabled, or in `left`), and that the timer runs for what is enabled and unused
(`Timed`). `Interrupting` needs
`RefsExact`: only because the count is never negative does a first reference
find it at zero. A step changes the number of users in one of four ways, each
with its lemma: everybody stays (`AllStay`), one thread joins (`OneJoins`) or
leaves (`OneLeaves`), or part of a list is taken (`TakeAway`). The counter jumps
only where nobody can notice: `vblank_get` catches up with the frames that went
by unseen only for the first user of a crtc, and the same count says that there
is no sleeper and no event then (`JumpsUnseen`). Everywhere else it moves by
one, in the handler, which wakes and delivers what is due before it goes on.

`WrapLosesOne` is about the arithmetic of that catching up, for every counter: the
driver adds `vb_max` when the counter has wrapped, but it has `vb_max + 1` values,
so that the count falls behind by one frame each time. The properties above do
not depend on it: they hold for any number of missed frames.

`Fence_proofs`. `QueuedFencesStand` (`[]FenceStable`),
`FencedObjectsHaveRegister` (`[]FencedHasReg`), `ListedOnce` (`[]LruExact`) and
`TypeCorrect`, for any number of objects, registers, tilings and processes and on
every chip; `RegistersAgree` (`[]RegsConsistent`) and `FaultsDetile`
(`FaultDetiled`) if `~Gen6`, since put_fence_reg leaves the registers of those
chips alone (section 3).

`RegistersAgree` needs little: types (`StateTypes`), and that a thread names the
object it works on (`ThreadObjects`). Three steps touch registers or tilings, and
each changes object, register and hardware together, under `fence_lock` in the
code. The others need to know who may do what to an object, and their
inductive invariant, `FenceSafe`, is in layers:

* `Places` and `Holds`: where a thread may be, and that it holds what it works
  on. From them alone follows `Undisturbed`, the rely condition of a hold: other
  threads may flush the object and retire its requests (`Same`), no more. So
  everything true of a thread by its program counter survives the others'
  steps (`Others`), and only its own have to be looked at (`OwnQuiet`,
  `OwnGives`, `OwnValid`, `OwnCovers`).
* What a thread knows: `Quiet` (no new rendering to its object after the flush),
  `GivesBack` (no new fenced rendering to its victim, and the GPU past the
  register when it is cleared), `Valid` (an object past the look at its flag is
  not marked invalid), `Covers` (a batch loses no object that asked for a fence).
* The books, `OnBooks`: a fenced object's register carries the seqno of the object, and a
  register the GPU may still use belongs to an object at least as late. Without the
  second, `Retire` would clear `regSeq` too early, as it clears the register of
  every object it retires. `FreeIdle`: a register is free only once the GPU is past it.
* `Shown` (the half of `HwAgrees` that holds on every chip), `Pinned` (what is
  pinned keeps its valid fence until dispatch), `Used` (a register on which a
  queued batch relies keeps its object and a seqno at least that of the batch).

`FenceStable` then follows since the two steps that write the hardware write no
register in `Used`: one is free, of the other the GPU is past its seqno.
`ListExact` rests on four lemmas about sequences without repetitions
(`FirstPlace`, `Dropped`, `Added`, `Reordered`).

`Ring_proofs`. `WritesAreFree` (`[]WritesFree`) and `SpaceIsThere`, for rings
of any size and packets of any lengths up to half of it. The inductive invariant
`RingInv` measures everything from the head, upwards and around: what the GPU was
given, the driver's tail and the gap follow each other in this order, the count
of space is never more than what is left (`InOrder`), and the words of a packet
lie between (`InPacket`). A reader only shortens the distances. That `2 * n <=
Size` is needed for packets that wrap: the padding and the packet together must
fit. All of it is conditional on `kept`, since nothing holds after a wait has
given up, and starts anew with the next restart.

`IsAQueue` (`Spec => ImplementsQueue`) is the refinement. `Given`, the words from
the head to the published tail, is the abstract queue. No step of the driver
writes there (`GivenStays`), the GPU takes the first word (`GivenRead`), and what
is behind the published tail is, when it is published, one packet after a
padding of no-ops. That last part is the invariant `InRing`: how much padding
there is, and which words of the packet are written. `Placed` and `GivenMore` say
that words which follow each other around the ring are a sequence appended to
the queue. Each step then maps to a step of `CommandQueue` or a stutter
(`QueueStep`), the steps that give up to `Break`, and restarts to `Start`.

`Recovery_proofs`. `AssertionsHold` (`[]PanicsNot`) and `LeftQuiet`
(`[]AwayIsQuiet`) for any number of clients, objects, requests, hangs and
switches and for any timing (`Hasty` is arbitrary), if no signal ends leavevt
(`NoLeave`), and on all the chips. The inductive invariant `RecInv` says who has
`dev_lock` where (`Locks`), how lists, flags and requests go together (`Lists`),
what leavevt knows at each of its steps (`Leaving`), and what it leaves behind
(`Power`: the status page is there if the ring is, or if the chip keeps it; a
terminal left without `unreset` is `Quiet`, and if the page has gone there is
nothing on the lists at all, `Empty`, so that nobody with a shield is in a wait).
The part that is not obvious is `Covered`: every request on the list is the last
one of an active object, or belongs to a waiting leavevt, or will be thrown away
by a reset, or is `bare`. An active object waits for a request that is not bare,
so that the bare ones keep nothing on the lists. Only because of it do empty lists mean that nothing is queued, which
is what `i915_gem_idle` concludes from them; and an interrupted leavevt breaks
it.

`EverybodyTold` (`Spec => EveryoneTold`) needs no `NoLeave`, and its invariant
`Told` less: types, `Locks`, `Lists`, and `Waits`. A thread that holds an object
(not a pinned one) is in the wait, the object has no unflushed writes, and it is
active for the very request waited for, or idle. For that to change somebody
else would have to write the object, which the hold prevents; retiring the
request makes it idle. At the end of a reset that has found a status page
nothing is idle any more, since `i915_gem_evict_inactive` has waited for the
holds, so the request of whoever still holds something is on the list; and
whoever waits with `dev_lock` has kept the reset out.

`Aperture_proofs`. `AssertionsHold` (`[]AssertsHold`) and `TypeCorrect` with no
hypothesis, so also when pins fail and maps change; `NothingIsLost`
(`[]NothingLost`), `EmptyWhenAsleep` (`[]EmptyAsleep`) and `SecondTryFits`
(`[]Refits`) if `~PinMayFail`, which `aperture_lost` shows to be needed. They
hold for any number of processes and objects, any sizes, any aperture and any
batches. The inductive invariant `Safe` consists of

* `Places`, `Holds`, `PinExact`, `Locks`: where a call may be, that an object is
  held by the thread at work on it or by the batch that has pinned it, that
  nobody else has it pinned, and who has `dev_lock` where. An object that nobody
  holds is therefore not pinned, which is the assertion of `evict_inactive`
  after it has slept for the hold.
* `Engine` (every object is `Booked`): what the GPU has written is on a list of
  the GPU, no object waits for more requests than there are, and what is on such
  a list or pinned is bound.
* `Emptied`: what an eviction has achieved at each of its places. While
  `evict_everything` waits nothing is left to be flushed, and all that is active
  goes idle with its request; from then on the GPU has nothing to do. It stays
  so while `dev_lock` is held: only the end of an execbuffer gives the GPU more
  (`Lessens`), and it needs the lock. For the same reason the object that
  `evict_inactive` sleeps for is still idle when it gets it.
* `Away`, `Counts`, `PowerInv`: while the terminal is left no batch is past
  `dev_lock` and the GPU has nothing; `entries` is the number of calls behind the
  gate; from the moment the gate is closed and `entries` is zero until the
  machine wakes up nobody gets behind it.

`Emptied` alone is not inductive: one thread's progress is undone by another
unless `Locks` says that there is no other, and the suspend, which evicts without
`dev_lock`, needs the last three instead. For the other theorems `Listed` is
added (what is bound is on a list, or pinned); it is the part that a failed pin
breaks.

`SecondTryFits` adds `Room`, which says of a batch that fits:

* On the first try it looks for room, or gives up, only while something is
  bound: an empty aperture has room for each of its objects. So when
  `evict_everything` finds the lists empty, what is bound is pinned by the batch
  itself, and the retry will unpin it.
* On the second try (`SecondTry`), `evict_everything` has something to evict,
  since nothing is pinned and what is bound is `Listed`; it leaves the aperture
  empty (`Emptied`, and nobody else binds while `dev_lock` is held). From then on
  what is bound is what the batch has pinned, and it is `Tiled`: it fills the
  aperture from its start, without a hole.
* In a tiled aperture there is no hole but the one behind the last object
  (`HoleIsEnd`), that hole is large enough for the next object of a batch that
  fits (`EndIsHole`, `NextFits`), and what goes there keeps it tiled
  (`TiledBind`).

How many pages a set of objects has is the cardinality of a set of pairs, so
what an object adds to it (`PagesMore`) follows from the library's theorems on
finite sets; a sum over a set would need an induction.

Only model-checked: liveness (`SleeperWakes`, `RequestsRetired`, `WaitersWake`,
`PacketsEnd`, `ResetComes`, `WaitersReturn`, `CallsEnd`), which is out of the
proof system's reach.

## 6. Not modelled

Planned (section 2): the sleep on a hold, open and last close. Noted in
section 3 with each module: an entervt that fails half way, chips without a
reset, rebinding to another alignment, purgeable objects, user pins of `Fence`
and `Aperture`, page faults on two processors at once, and the frames that are
counted twice after a reinstall. Left out for good: register programming and
suspend images (I/O without protocol), AGP allocations and maps (one privileged
process, thin layers), relocation arithmetic and the copying of ioctl
arguments (data the properties do not look at), the back-ported `bus_dma`,
`sg_dma`, `uvm` code (changed in a few lines only), and everything outside the
kernel's DRM directory other than the light lock of libdrm.
