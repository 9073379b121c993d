------------------------------- MODULE Vblank -------------------------------
(***************************************************************************)
(* Vertical blanks (drm_irq.c, i915_irq.c) and the events they send to     *)
(* user land (drm_drv.c).                                                  *)
(*                                                                         *)
(* Who wants the vertical blanks of a crtc holds a reference on it: a      *)
(* process that sleeps in WAIT_VBLANK, an event that waits in the crtc's   *)
(* list, a mode set in progress.  The first reference switches the pipe's  *)
(* interrupt on and the last arms a timer that switches it off.  The X     *)
(* server removes and restores the whole interrupt handler (VT switch,     *)
(* CONTROL, GPU reset) while references are held.                          *)
(*                                                                         *)
(* A step is a section under vb_lock or event_lock, or the unlocked code   *)
(* between two of them.  Only MODESET_CTL is one step: it keeps its flag   *)
(* outside of the locks, and it is the kernel lock, under which ioctls run *)
(* unless they sleep, that makes it atomic.                                *)
(***************************************************************************)
EXTENDS Integers, FiniteSets

CONSTANTS
    Asker, Reader,  \* threads in WAIT_VBLANK, threads in read
    File,           \* the files they may open
    NoFile,
    NumCrtc,        \* vb_num
    Event,          \* event structures, enough for all event_space
    Request,        \* what the files ask of WAIT_VBLANK
    CountMod,       \* vbl_count and sequence numbers wrap here (2^32)
    Window,         \* this far behind a number has passed (2^23)
    EventSpace,     \* events that fit in event_space
    MaxLost         \* bound: references that failed calls may lose

Thread == Asker \cup Reader
Crtc == 0..(NumCrtc - 1)
Count == 0..(CountMod - 1)

ASSUME VblankAssumption ==
    /\ IsFiniteSet(Asker) /\ IsFiniteSet(Reader) /\ Asker \cap Reader = {}
    /\ IsFiniteSet(File) /\ NoFile \notin File
    /\ NumCrtc \in Nat \ {0} /\ EventSpace \in Nat
    /\ CountMod \in Nat \ {0} /\ Window \in Count
    /\ MaxLost \in Nat
    /\ Request \subseteq [crtc : Crtc, seq : Count, relative : BOOLEAN,
                          nextOnMiss : BOOLEAN, event : BOOLEAN]

VARIABLES
    latched,    \* pipes with PIPE_VBLANK_INTERRUPT_STATUS set
    pipestat,   \* pipes with the vblank interrupt enabled (dev_priv->pipestat)
    ier,        \* the device may interrupt (IER)
    irqEnabled, \* dev->irq_enabled
    admin,      \* where the thread is that installs or uninstalls
    handler,    \* where the interrupt handler is
    count,      \* vbl_count
    refs,       \* vbl_refs
    enabled,    \* vbl_enabled
    inModeset,  \* vbl_inmodeset: no, flagged (0x1), holding (0x3)
    timer,      \* vb_disable_timer is armed
    left,       \* history: crtcs that a removal of the handler has marked
                \* disabled with their interrupt on, and that nobody has
                \* enabled since
    lost,       \* history: references whose call returned ENOMEM
    pending,    \* vbl_events of each crtc
    ready,      \* length of each file's evlist
    space,      \* event_space of each file, in events
    open,       \* files that are open
    pc,         \* where each thread is
    file,       \* the file it calls on
    req         \* its request in WAIT_VBLANK

hwVars == <<latched, pipestat, ier>>
irqVars == <<irqEnabled, admin, handler>>
crtcVars == <<count, refs, enabled, left, inModeset, timer, lost>>
eventVars == <<pending, ready, space>>
callVars == <<open, pc, file, req>>
vars == <<hwVars, irqVars, crtcVars, eventVars, callVars>>

Quiet == [at |-> "idle", todo |-> {}, crtc |-> 0, seq |-> 0]
NoReq == [crtc |-> 0, seq |-> 0, relative |-> FALSE, nextOnMiss |-> FALSE,
          event |-> FALSE]

Init ==
    /\ latched = {} /\ pipestat = {} /\ ier = FALSE
    /\ irqEnabled = FALSE /\ admin = "idle" /\ handler = Quiet
    /\ count = [c \in Crtc |-> 0]
    /\ refs = [c \in Crtc |-> 0] /\ enabled = [c \in Crtc |-> FALSE]
    /\ inModeset = [c \in Crtc |-> "no"] /\ timer = FALSE /\ left = {}
    /\ lost = [c \in Crtc |-> 0]
    /\ pending = [c \in Crtc |-> {}]
    /\ ready = [f \in File |-> 0] /\ space = [f \in File |-> EventSpace]
    /\ open = {} /\ pc = [t \in Thread |-> "out"]
    /\ file = [t \in Thread |-> NoFile] /\ req = [t \in Thread |-> NoReq]

-----------------------------------------------------------------------------
\* The hardware.

\* A frame ends: the pipe latches its status if the interrupt is enabled.  The
\* X server switches pipes on and off through its own mapping, so a frame may
\* come at any time or never.
Frame(c) ==
    /\ ier /\ c \in pipestat
    /\ latched' = latched \cup {c}
    /\ UNCHANGED <<pipestat, ier, irqVars, crtcVars, eventVars, callVars>>

-----------------------------------------------------------------------------
\* Counting and references.

\* Unsigned arithmetic.
Plus(n, d) == (n + d) % CountMod
Minus(n, d) == (n - d) % CountMod

\* A sequence number has passed when the count is not far ahead of it.
Passed(now, seq) == Minus(now, seq) <= Window

\* The first reference enables the interrupt, which fails on a pipe that is off
\* (i915_enable_vblank).
FirstGet(c) == refs[c] = 0 /\ ~enabled[c]

\* What drm_update_vblank_count adds to the count when the frame counter of the
\* pipe, which goes up to vbMax, is at cur and was at last when the interrupt
\* was switched off.
Missed(cur, last, vbMax) ==
    IF cur < last THEN cur - last + vbMax ELSE cur - last

\* The locked part of drm_vblank_get, when it succeeds.  Enabling an interrupt
\* that was off clears a stale status, and the frames that went by meanwhile,
\* any number, are added to the count (drm_update_vblank_count).
Get(c) ==
    /\ refs' = [refs EXCEPT ![c] = @ + 1]
    /\ IF FirstGet(c)
       THEN /\ enabled' = [enabled EXCEPT ![c] = TRUE]
            /\ left' = left \ {c}
            /\ \E missed \in Count :
                 count' = [count EXCEPT ![c] = Plus(@, missed)]
            /\ pipestat' = pipestat \cup {c}
            /\ latched' = IF c \in pipestat THEN latched ELSE latched \ {c}
       ELSE UNCHANGED <<enabled, left, count, pipestat, latched>>

\* drm_vblank_put, n times.  (The mutant forgets the timer.)
ArmNever(c, n) == timer
Arm(c, n) == timer \/ (n > 0 /\ refs[c] = n)
Put(c, n) ==
    /\ refs' = [refs EXCEPT ![c] = @ - n]
    /\ timer' = Arm(c, n)

\* cv_broadcast of the crtcs cs.  (The mutant wakes nobody.)
WokenNone(cs) == pc
Woken(cs) ==
    [t \in Thread |-> IF pc[t] = "sleep" /\ req[t].crtc \in cs
                      THEN "check" ELSE pc[t]]

\* cv_broadcast of the event lists of the files fs.
ReadersWoken(fs) ==
    [t \in Thread |-> IF pc[t] = "read_sleep" /\ file[t] \in fs
                      THEN "read" ELSE pc[t]]

\* vblank_disable, when the timer fires: crtcs nobody uses are switched off.
Unused(c) == refs[c] = 0 /\ enabled[c]
Disable ==
    /\ timer
    /\ timer' = FALSE
    /\ enabled' = [c \in Crtc |-> enabled[c] /\ ~Unused(c)]
    /\ pipestat' = {c \in pipestat : ~Unused(c)}
    /\ UNCHANGED <<latched, ier, irqVars, count, refs, left, inModeset, lost,
                   eventVars, callVars>>

-----------------------------------------------------------------------------
\* The interrupt handler, one run at a time.

\* inteldrm_intr reads and clears the status of all pipes.  (It ignores an
\* interrupt while the GEM side is suspended, which is as if it came later.)
Interrupt ==
    /\ ier /\ latched # {}
    /\ handler.at = "idle"
    /\ handler' = [Quiet EXCEPT !.at = "count", !.todo = latched]
    /\ latched' = {}
    /\ UNCHANGED <<pipestat, ier, irqEnabled, admin, crtcVars, eventVars,
                   callVars>>

\* drm_handle_vblank under vb_lock, pipe A before pipe B: count, and wake who
\* waits for the crtc.
HandleVblank ==
    /\ handler.at = "count"
    /\ \E c \in handler.todo :
         /\ \A d \in handler.todo : c <= d
         /\ count' = [count EXCEPT ![c] = Plus(@, 1)]
         /\ pc' = Woken({c})
         /\ handler' = [handler EXCEPT !.at = "read", !.crtc = c]
    /\ UNCHANGED <<hwVars, irqEnabled, admin, refs, enabled, left, inModeset,
                   lost, timer, eventVars, open, file, req>>

\* drm_handle_vblank_events reads the count before it takes event_lock...
ReadCount ==
    /\ handler.at = "read"
    /\ handler' = [handler EXCEPT !.at = "events",
                                  !.seq = count[handler.crtc]]
    /\ UNCHANGED <<hwVars, irqEnabled, admin, crtcVars, eventVars, callVars>>

\* ... and then moves the events that are due to their files, which wakes the
\* readers and releases the events' references.
Of(f, events) == {e \in events : e.file = f}
Due(c, now) == {e \in pending[c] : Passed(now, e.seq)}
HandleEvents ==
    LET c == handler.crtc
        due == Due(c, handler.seq)
        rest == handler.todo \ {c}
    IN  /\ handler.at = "events"
        /\ pending' = [pending EXCEPT ![c] = @ \ due]
        /\ ready' = [f \in File |-> ready[f] + Cardinality(Of(f, due))]
        /\ pc' = ReadersWoken({e.file : e \in due})
        /\ Put(c, Cardinality(due))
        /\ handler' = IF rest = {} THEN Quiet
                      ELSE [Quiet EXCEPT !.at = "count", !.todo = rest]
        /\ UNCHANGED <<hwVars, irqEnabled, admin, count, enabled, left,
                       inModeset, lost, space, open, file, req>>

-----------------------------------------------------------------------------
\* drm_irq_install and drm_irq_uninstall.

Install ==
    /\ admin = "idle" /\ ~irqEnabled
    /\ open # {}
    /\ irqEnabled' = TRUE
    /\ admin' = "install"
    /\ UNCHANGED <<hwVars, handler, crtcVars, eventVars, callVars>>

\* i915_driver_irq_install clears what is pending and switches the interrupts
\* back on that dev_priv->pipestat remembers.  (The mutant starts afresh.)
RestoredNone == {}
Restored == pipestat
InstallHw ==
    /\ admin = "install"
    /\ ier' = TRUE /\ latched' = {} /\ pipestat' = Restored
    /\ admin' = "idle"
    /\ UNCHANGED <<irqEnabled, handler, crtcVars, eventVars, callVars>>

\* Clear irq_enabled, on request or because the last file was closed...
Uninstall ==
    /\ \/ admin = "idle" /\ open # {} /\ irqEnabled
       \/ admin = "last"
    /\ irqEnabled' = FALSE
    /\ admin' = IF irqEnabled THEN "wake" ELSE "idle"
    /\ UNCHANGED <<hwVars, handler, crtcVars, eventVars, callVars>>

\* ... wake all waiters and mark all crtcs disabled, referenced or not, but do
\* not switch their interrupts off (the timer will not either now, and the next
\* i915_driver_irq_install restores them)...
UninstallWake ==
    /\ admin = "wake"
    /\ pc' = Woken(Crtc)
    /\ enabled' = [c \in Crtc |-> FALSE]
    /\ left' = left \cup {c \in Crtc : enabled[c]}
    /\ admin' = "uninstall"
    /\ UNCHANGED <<hwVars, irqEnabled, handler, count, refs, inModeset, lost,
                   timer, eventVars, open, file, req>>

\* ... and i915_driver_irq_uninstall masks the device.
UninstallHw ==
    /\ admin = "uninstall"
    /\ ier' = FALSE /\ latched' = {}
    /\ admin' = "idle"
    /\ UNCHANGED <<pipestat, irqEnabled, handler, crtcVars, eventVars,
                   callVars>>

-----------------------------------------------------------------------------
\* WAIT_VBLANK.

Goto(t, l) == pc' = [pc EXCEPT ![t] = l]
Return(t) ==
    /\ Goto(t, "out")
    /\ file' = [file EXCEPT ![t] = NoFile]
    /\ req' = [req EXCEPT ![t] = NoReq]

\* drm_wait_vblank up to vb_lock.  No more events are asked for once the bound
\* on lost references is reached.
Ask(t) ==
    /\ pc[t] = "out" /\ irqEnabled
    /\ \E f \in open, r \in Request :
         /\ r.event => lost[r.crtc] < MaxLost
         /\ file' = [file EXCEPT ![t] = f]
         /\ req' = [req EXCEPT ![t] = r]
    /\ Goto(t, "get")
    /\ UNCHANGED <<hwVars, irqVars, crtcVars, eventVars, open>>

TakeRef(t) ==
    /\ pc[t] = "get"
    /\ Get(req[t].crtc)
    /\ Goto(t, "aim")
    /\ UNCHANGED <<ier, irqVars, inModeset, lost, timer, eventVars, open, file,
                   req>>

RefuseRef(t) ==
    /\ pc[t] = "get"
    /\ FirstGet(req[t].crtc)
    /\ Return(t)
    /\ UNCHANGED <<hwVars, irqVars, crtcVars, eventVars, open>>

\* The number to wait for, from the count of this moment.
NextIfMissed(r, now, seq) ==
    IF r.nextOnMiss /\ Passed(now, seq) THEN Plus(now, 1) ELSE seq
Aim(t) ==
    LET r == req[t]
        now == count[r.crtc]
        seq == IF r.relative THEN Plus(r.seq, now) ELSE r.seq
    IN  /\ pc[t] = "aim"
        /\ req' = [req EXCEPT ![t].seq = NextIfMissed(r, now, seq),
                              ![t].relative = FALSE]
        /\ Goto(t, IF r.event THEN "queue" ELSE "check")
        /\ UNCHANGED <<hwVars, irqVars, crtcVars, eventVars, open, file>>

\* DRM_WAIT_ON under vb_lock: test, and sleep until woken.
Check(t) ==
    /\ pc[t] = "check"
    /\ Goto(t, IF Passed(count[req[t].crtc], req[t].seq) \/ ~irqEnabled
               THEN "put" ELSE "sleep")
    /\ UNCHANGED <<hwVars, irqVars, crtcVars, eventVars, open, file, req>>

\* After three seconds, or for a signal.
GiveUp(t) ==
    /\ pc[t] = "sleep"
    /\ Goto(t, "put")
    /\ UNCHANGED <<hwVars, irqVars, crtcVars, eventVars, open, file, req>>

Release(t) ==
    /\ pc[t] = "put"
    /\ Put(req[t].crtc, 1)
    /\ Return(t)
    /\ UNCHANGED <<hwVars, irqVars, count, enabled, left, inModeset, lost,
                   eventVars, open>>

\* drm_queue_vblank_event without the memory or the room for the event: it
\* returns ENOMEM, and keeps the reference.
QueueFails(t) ==
    LET c == req[t].crtc
    IN  /\ pc[t] = "queue"
        /\ lost[c] < MaxLost
        /\ lost' = [lost EXCEPT ![c] = @ + 1]
        /\ Return(t)
        /\ UNCHANGED <<hwVars, irqVars, count, refs, enabled, left, inModeset,
                       timer, eventVars, open>>

\* ... and under event_lock: the count may have moved since Aim.  An event
\* that is due is ready at once and needs no reference.  (The mutant leaves all
\* events to the interrupt.)
DueAtOnceNever(now, seq) == FALSE
DueAtOnce(now, seq) == Passed(now, seq)
Queue(t) ==
    LET c == req[t].crtc
        f == file[t]
        seq == NextIfMissed(req[t], count[c], req[t].seq)
        out(calls) == [calls EXCEPT ![t] = "out"]
    IN  /\ pc[t] = "queue" /\ space[f] > 0
        /\ space' = [space EXCEPT ![f] = @ - 1]
        /\ IF DueAtOnce(count[c], seq)
           THEN /\ ready' = [ready EXCEPT ![f] = @ + 1]
                /\ pc' = out(ReadersWoken({f}))
                /\ Put(c, 1)
                /\ UNCHANGED pending
           ELSE /\ \E i \in Event :
                     /\ \A d \in Crtc : \A e \in pending[d] : e.id # i
                     /\ pending' = [pending EXCEPT ![c] =
                          @ \cup {[id |-> i, file |-> f, seq |-> seq]}]
                /\ pc' = out(pc)
                /\ UNCHANGED <<ready, refs, timer>>
        /\ file' = [file EXCEPT ![t] = NoFile]
        /\ req' = [req EXCEPT ![t] = NoReq]
        /\ UNCHANGED <<hwVars, irqVars, count, enabled, left, inModeset, lost,
                       open>>

-----------------------------------------------------------------------------
\* MODESET_CTL.

PreModeset(c) ==
    /\ open # {} /\ inModeset[c] = "no"
    /\ \/ /\ irqEnabled /\ Get(c)
          /\ inModeset' = [inModeset EXCEPT ![c] = "holding"]
       \/ /\ ~irqEnabled \/ FirstGet(c)
          /\ inModeset' = [inModeset EXCEPT ![c] = "flagged"]
          /\ UNCHANGED <<refs, enabled, left, count, pipestat, latched>>
    /\ UNCHANGED <<ier, irqVars, timer, lost, eventVars, callVars>>

\* The flag tells whether PreModeset got its reference.
PostModeset(c) ==
    /\ open # {} /\ inModeset[c] # "no"
    /\ Put(c, IF inModeset[c] = "holding" THEN 1 ELSE 0)
    /\ inModeset' = [inModeset EXCEPT ![c] = "no"]
    /\ UNCHANGED <<hwVars, irqVars, count, enabled, left, lost, eventVars,
                   callVars>>

-----------------------------------------------------------------------------
\* Reading events.

\* drm_dequeue_event.  (The mutant does not give the room back.)
SpaceKept(f) == space[f]
SpaceBack(f) == space[f] + 1
Dequeue(f) ==
    /\ ready[f] > 0
    /\ ready' = [ready EXCEPT ![f] = @ - 1]
    /\ space' = [space EXCEPT ![f] = SpaceBack(f)]

\* drmread holds event_lock until it sleeps or has taken an event.  While it
\* copies an event out other threads run; then it comes back for the next one,
\* if there is one and room for it, as a new read would.
Read(t) ==
    /\ pc[t] \in {"out", "read"}
    /\ \E f \in IF pc[t] = "out" THEN open ELSE {file[t]} :
         \/ /\ Dequeue(f)
            /\ Return(t)
         \/ /\ ready[f] = 0
            /\ Goto(t, "read_sleep")
            /\ file' = [file EXCEPT ![t] = f]
            /\ UNCHANGED <<ready, space, req>>
    /\ UNCHANGED <<hwVars, irqVars, crtcVars, pending, open>>

\* A signal ends the sleep; a read may also find no room for an event.
ReadEnd(t) ==
    /\ pc[t] \in {"read_sleep", "read"}
    /\ Return(t)
    /\ UNCHANGED <<hwVars, irqVars, crtcVars, eventVars, open>>

-----------------------------------------------------------------------------
\* drmopen and drmclose.

Open(f) ==
    /\ f \notin open
    /\ open' = open \cup {f}
    /\ space' = [space EXCEPT ![f] = EventSpace]
    /\ UNCHANGED <<hwVars, irqVars, crtcVars, pending, ready, pc, file, req>>

\* The last close of the device also removes the interrupt handler
\* (drm_lastclose).  A thread in the kernel keeps its file open.  (The mutant
\* destroys the events without their references.)
DroppedNone(f, c) == 0
Dropped(f, c) == Cardinality(Of(f, pending[c]))
Close(f) ==
    /\ f \in open /\ \A t \in Thread : file[t] # f
    /\ open = {f} => admin = "idle"
    /\ open' = open \ {f}
    /\ pending' = [c \in Crtc |-> pending[c] \ Of(f, pending[c])]
    /\ refs' = [c \in Crtc |-> refs[c] - Dropped(f, c)]
    /\ timer' = (timer \/ \E c \in Crtc : Arm(c, Dropped(f, c)))
    /\ ready' = [ready EXCEPT ![f] = 0]
    /\ space' = [space EXCEPT ![f] = 0]
    /\ admin' = IF open = {f} THEN "last" ELSE admin
    /\ UNCHANGED <<hwVars, irqEnabled, handler, count, enabled, left,
                   inModeset, lost, pc, file, req>>

-----------------------------------------------------------------------------
Next ==
    \/ \E c \in Crtc :
         Frame(c) \/ PreModeset(c) \/ PostModeset(c)
    \/ Disable
    \/ Interrupt \/ HandleVblank \/ ReadCount \/ HandleEvents
    \/ Install \/ InstallHw \/ Uninstall \/ UninstallWake \/ UninstallHw
    \/ \E t \in Asker :
         \/ Ask(t) \/ TakeRef(t) \/ RefuseRef(t) \/ Aim(t)
         \/ Check(t) \/ GiveUp(t) \/ Release(t)
         \/ QueueFails(t) \/ Queue(t)
    \/ \E t \in Reader : Read(t) \/ ReadEnd(t)
    \/ \E f \in File : Open(f) \/ Close(f)

Spec == Init /\ [][Next]_vars

-----------------------------------------------------------------------------
\* Every variable has its type; in particular vbl_count wraps like the 32-bit
\* number it is.
TypeOK ==
    /\ latched \subseteq Crtc /\ pipestat \subseteq Crtc /\ ier \in BOOLEAN
    /\ irqEnabled \in BOOLEAN
    /\ admin \in {"idle", "install", "wake", "uninstall", "last"}
    /\ handler \in [at : {"idle", "count", "read", "events"},
                    todo : SUBSET Crtc, crtc : Crtc, seq : Count]
    /\ count \in [Crtc -> Count]
    /\ refs \in [Crtc -> Int] /\ enabled \in [Crtc -> BOOLEAN]
    /\ inModeset \in [Crtc -> {"no", "flagged", "holding"}]
    /\ left \subseteq Crtc
    /\ timer \in BOOLEAN /\ lost \in [Crtc -> 0..MaxLost]
    /\ pending \in [Crtc -> SUBSET [id : Event, file : File, seq : Count]]
    /\ ready \in [File -> Nat] /\ space \in [File -> Nat]
    /\ open \subseteq File
    /\ pc \in [Thread -> {"out", "get", "aim", "check", "sleep", "put",
                          "queue", "read_sleep", "read"}]
    /\ file \in [Thread -> open \cup {NoFile}]
    /\ req \in [Thread -> [crtc : Crtc, seq : Count, relative : BOOLEAN,
                           nextOnMiss : BOOLEAN, event : BOOLEAN]]

\* vbl_refs counts exactly the threads in WAIT_VBLANK past drm_vblank_get, the
\* events in the crtc's list and the mode set, and what failed calls have lost:
\* so KASSERT(vbl_refs > 0) in drm_vblank_put holds.
Waiting(c) ==
    {t \in Thread : /\ pc[t] \in {"aim", "check", "sleep", "put", "queue"}
                    /\ req[t].crtc = c}
Users(c) == Cardinality(Waiting(c)) + Cardinality(pending[c])
            + (IF inModeset[c] = "holding" THEN 1 ELSE 0)
RefsExact == \A c \in Crtc : refs[c] = Users(c) + lost[c]

\* "Last user schedules disable" (drm_irq.c): a crtc nobody uses is not held on
\* to.  drm_queue_vblank_event breaks it when it returns ENOMEM.
LastUserReleases == \A c \in Crtc : Users(c) = 0 => refs[c] = 0

\* A pipe interrupt that is on for nobody is one that the timer will switch off:
\* it is running, and vbl_enabled does not hide the crtc from vblank_disable.
\* The only exceptions are those that a removal of the handler has left on.
UnusedExpires ==
    \A c \in pipestat :
        refs[c] = 0 => c \in left \/ (enabled[c] /\ timer)

\* ... and of those some stay on for nobody when the handler is back, until
\* somebody wants the crtc again: drm_irq_uninstall does not "update state
\* correctly so that we can continue refcounting correctly".
NoneLeftOn ==
    irqEnabled /\ ier =>
        \A c \in pipestat : refs[c] = 0 => enabled[c] /\ timer

\* While anybody holds a reference the pipe interrupts, through any number of
\* removals of the handler and whatever vbl_enabled says.
Interrupting == \A c \in Crtc : refs[c] > 0 => c \in pipestat

\* Nobody sleeps through what it waits for: not in WAIT_VBLANK when the count
\* has passed or the handler is gone (the removal is about to wake all), and
\* not in read while its file has an event.
NoneOversleeps ==
    \A t \in Thread :
        /\ pc[t] = "sleep" => /\ ~Passed(count[req[t].crtc], req[t].seq)
                              /\ irqEnabled \/ admin = "wake"
        /\ pc[t] = "read_sleep" => ready[file[t]] = 0

\* An event whose number has passed is not left in the crtc's list, unless the
\* interrupt handler is about to go through it with a count that finds it due.
EventsOnTime ==
    \A c \in Crtc : \A e \in pending[c] :
        Passed(count[c], e.seq) =>
            /\ handler.crtc = c
            /\ \/ handler.at = "read"
               \/ handler.at = "events" /\ Passed(handler.seq, e.seq)

\* The room of a file is what its events leave of event_space, and no list
\* holds an event of a file that drmclose has freed.
PendingTo(f) == Cardinality(Of(f, UNION {pending[c] : c \in Crtc}))
SpaceExact ==
    \A f \in File :
        IF f \in open THEN PendingTo(f) + ready[f] + space[f] = EventSpace
        ELSE PendingTo(f) = 0
=============================================================================
